------------------------- MODULE SharedMemoryProofs -------------------------
(***************************************************************************)
(* Proofs about SharedMemory.  BaseInv says who owns what: a call or an    *)
(* answering thread belongs to a living process that looked at its pid, a  *)
(* listener owns its socket, an answer carries what was asked for, and     *)
(* every table entry agrees with the segment it stands for.  KeptInv adds  *)
(* what keeps a segment with its creator, CountInv what keeps identifiers  *)
(* apart.  The steps are reduced to what they do to one process            *)
(* (MainEffect, BeginEffect, ThreadEffect) before the invariants are shown *)
(* to be preserved.                                                        *)
(***************************************************************************)
EXTENDS SharedMemory, WellFoundedInduction, SequenceTheorems, TLAPS

LEMMA Least ==
    ASSUME NEW S, S \subseteq Nat, S # {}
    PROVE  \E i \in S : \A j \in S : i <= j
<1>1. PICK x \in S : \A y \in S : ~(<<y, x>> \in OpToRel(<, Nat))
  BY WFMin, NatLessThanWellFounded, Zenon
<1>2. \A y \in S : ~(y < x)
  BY <1>1 DEF OpToRel
<1> QED
  BY <1>2

LEMMA Halves ==
    /\ HalfWord \in Nat /\ HalfWord >= 2
    /\ HalfWord \div 2 \in Nat /\ 2 * (HalfWord \div 2) = HalfWord
BY SharedMemoryAssumption

LEMMA Steps ==
    ASSUME NEW s \in Nat, NEW t \in Nat, s < t
    PROVE  s * HalfWord + HalfWord <= t * HalfWord
<1>1. (t - s - 1) * HalfWord >= 0
  BY Halves
<1> QED
  BY <1>1, Halves

LEMMA Square ==
    ASSUME NEW s \in SocketIds, NEW c \in Nat, c < HalfWord \div 2
    PROVE  /\ s * HalfWord + c \in Nat
           /\ s * HalfWord + c + 1 < HalfWord * HalfWord
<1>1. s \in Nat /\ s < HalfWord
  BY Halves DEF SocketIds
<1>2. s * HalfWord + HalfWord <= HalfWord * HalfWord
  BY <1>1, Halves, Steps
<1>3. s * HalfWord \in Nat
  BY <1>1, Halves
<1> QED
  BY <1>2, <1>3, Halves

LEMMA SameId ==
    ASSUME NEW s \in SocketIds, NEW t \in SocketIds,
           NEW c \in Nat, NEW d \in Nat,
           c < HalfWord \div 2, d < HalfWord \div 2,
           ashv_shmid_from_counter(s, c) = ashv_shmid_from_counter(t, d)
    PROVE  s = t /\ c = d
<1>1. s \in Nat /\ t \in Nat
  BY Halves DEF SocketIds
<1>2. s * HalfWord + c = t * HalfWord + d
  BY Square, Halves DEF ashv_shmid_from_counter
<1>3. ~(s < t)
  BY <1>1, <1>2, Steps, Halves
<1>4. ~(t < s)
  BY <1>1, <1>2, Steps, Halves
<1>5. s = t
  BY <1>1, <1>3, <1>4
<1> QED
  BY <1>1, <1>2, <1>5, Halves

(* An identifier that is not negative carries the number of the socket.    *)
LEMMA OwnNumber ==
    ASSUME NEW s \in SocketIds, NEW c \in Nat, c < HalfWord \div 2,
           ashv_shmid_from_counter(s, c) >= 0
    PROVE  ashv_socket_id_from_shmid(ashv_shmid_from_counter(s, c)) = s
<1> DEFINE n == s * HalfWord + c
<1>1. s \in Nat /\ n \in Nat /\ n + 1 < HalfWord * HalfWord
  BY Square, Halves DEF SocketIds
<1>4. ashv_shmid_from_counter(s, c) = n
  <2> DEFINE w == HalfWord * HalfWord
  <2>1. w \in Nat
    BY Halves
  <2> HIDE DEF n, w
  <2>2. n < w \div 2 \/ n - w < 0
    BY <1>1, <2>1 DEF w
  <2>3. ashv_shmid_from_counter(s, c) = IF n < w \div 2 THEN n ELSE n - w
    BY DEF ashv_shmid_from_counter, n, w
  <2> QED
    BY <1>1, <2>1, <2>2, <2>3
<1>5. n \div HalfWord = s
  <2>1. c \in Nat /\ c < HalfWord
    BY Halves
  <2> QED
    BY <1>1, <2>1, Halves
<1> QED
  BY <1>1, <1>4, <1>5 DEF ashv_socket_id_from_shmid

-----------------------------------------------------------------------------
Places == {"idle", "lock", "wait", "unlink", "symlink", "readlink", "create"}
Segs == [id : Int, mem : Nat, addr : BOOLEAN, marked : BOOLEAN,
         key : Keys \cup {IPC_PRIVATE}]
States == [setup : Procs \cup {0}, localId : SocketIds, listening : BOOLEAN,
           counter : Nat, shmem : Seq(Segs),
           mutex : {"free", "main", "thread"}]
Calls == [at : Places, op : {"none", "get", "at", "dt", "rm"},
          key : Keys \cup {IPC_PRIVATE}, id : Int, new : Int]
Threads == [at : {"none", "accept", "lock", "answer"}, for : Procs \cup {0}]
Sockets == [at : {"none", "queued", "accepted", "answered", "closed"},
            to : SocketIds, holders : SUBSET Procs, mem : Nat]
Mems == [id : Int, key : Keys \cup {IPC_PRIVATE}, by : Procs,
         removed : BOOLEAN]

Typed ==
    /\ life \in [Procs -> {"unborn", "alive", "dead"}]
    /\ st \in [Procs -> States]
    /\ call \in [Procs -> Calls]
    /\ thread \in [Procs -> Threads]
    /\ conn \in [Procs -> Sockets]
    /\ sock \in [SocketIds -> [by : Procs \cup {0}, holders : SUBSET Procs]]
    /\ link \in [Keys -> Int]
    /\ mems \in Seq(Mems)
    /\ hist \in [calls : Nat, misled : BOOLEAN]

(* Only shmget gets beyond the lock without a segment of its own, and only *)
(* with a key.                                                             *)
Keyed ==
    \A p \in Procs :
       /\ call[p].at \in {"unlink", "symlink", "readlink", "create"}
             => call[p].op = "get"
       /\ call[p].op = "get" /\ call[p].at \notin {"idle", "lock"}
             => call[p].key \in Keys

TypeInv == Typed /\ Keyed

LEMMA MemType ==
    ASSUME TypeInv, NEW m \in DOMAIN mems
    PROVE  mems[m] \in Mems /\ mems[m].by \in Procs /\ mems[m].id \in Int
<1>1. mems \in Seq(Mems)
  BY DEF TypeInv, Typed
<1>2. mems[m] \in Mems
  BY <1>1
<1> QED
  BY <1>2 DEF Mems

LEMMA InitTypes == Init => TypeInv
<1> SUFFICES ASSUME Init PROVE TypeInv
  OBVIOUS
<1> USE SharedMemoryAssumption, Halves DEF Init
<1>1. st \in [Procs -> States]
  <2>1. NoState \in States
    BY DEF NoState, States, SocketIds
  <2> QED
    BY <2>1
<1>2. call \in [Procs -> Calls]
  BY DEF Idle, Calls, Places
<1>3. conn \in [Procs -> Sockets] /\ thread \in [Procs -> Threads]
  BY DEF NoConn, Sockets, NoThread, Threads, SocketIds
<1>4. mems \in Seq(Mems) /\ link \in [Keys -> Int]
  BY DEF NoLink
<1>5. hist \in [calls : Nat, misled : BOOLEAN]
  OBVIOUS
<1>6. Keyed
  BY DEF Keyed, Idle
<1> QED
  BY <1>1, <1>2, <1>3, <1>4, <1>5, <1>6 DEF TypeInv, Typed

LEMMA CheckedType ==
    ASSUME NEW s \in States, NEW p \in Procs
    PROVE  /\ ashv_check_pid(s, p) \in States
           /\ ashv_check_pid(s, p).setup = p
           /\ ashv_check_pid(s, p).counter = s.counter
           /\ s.setup = p => ashv_check_pid(s, p) = s
           /\ s.setup \notin {0, p} =>
                 /\ ~ashv_check_pid(s, p).listening
                 /\ ashv_check_pid(s, p).shmem = <<>>
           /\ s.setup = 0 =>
                 /\ ashv_check_pid(s, p).listening = s.listening
                 /\ ashv_check_pid(s, p).localId = s.localId
                 /\ ashv_check_pid(s, p).shmem = s.shmem
<1> USE SharedMemoryAssumption, Halves DEF ashv_check_pid
<1>1. NoState \in States
  BY DEF NoState, States, SocketIds
<1>2. CASE s.setup \in {0, p}
  BY <1>2 DEF States
<1>3. CASE s.setup \notin {0, p}
  BY <1>1, <1>3 DEF States, NoState
<1> QED
  BY <1>2, <1>3

LEMMA IdleType == Idle \in Calls
BY DEF Idle, Calls, Places

LEMMA BeginTypes ==
    ASSUME TypeInv, NEW p \in Procs, NEW op \in {"get", "at", "dt", "rm"},
           NEW key \in Keys \cup {IPC_PRIVATE}, NEW id \in Int,
           Begin(p, op, key, id)
    PROVE  /\ call' \in [Procs -> Calls] /\ Keyed'
           /\ hist' \in [calls : Nat, misled : BOOLEAN]
           /\ \A q \in Procs \ {p} : call'[q] = call[q]
           /\ call'[p].at = "lock" /\ call'[p].op = op /\ call'[p].new = -1
           /\ hist'.calls = hist.calls + 1
           /\ life[p] = "alive" /\ call[p] = Idle /\ hist.calls < MaxCalls
<1> DEFINE begun == [Idle EXCEPT !.at = "lock", !.op = op, !.key = key,
                                 !.id = id]
<1>1. call' = [call EXCEPT ![p] = begun]
  BY DEF Begin
<1>2. begun \in Calls /\ begun.at = "lock" /\ begun.op = op
  BY IdleType DEF Calls, Places
<1>3. begun.new = -1
  <2>1. begun.new = Idle.new
    BY IdleType DEF Calls
  <2> QED
    BY <2>1 DEF Idle
<1>4. call' \in [Procs -> Calls] /\ call'[p] = begun
      /\ \A q \in Procs \ {p} : call'[q] = call[q]
  <2> HIDE DEF begun
  <2> QED
    BY <1>1, <1>2 DEF TypeInv, Typed
<1>5. Keyed'
  <2> HIDE DEF begun
  <2> QED
    BY <1>2, <1>4 DEF TypeInv, Keyed
<1>6. hist' = [hist EXCEPT !.calls = hist.calls + 1]
  BY DEF Begin
<1>7. hist' \in [calls : Nat, misled : BOOLEAN] /\ hist'.calls = hist.calls + 1
  <2>1. hist.calls \in Nat /\ hist.calls + 1 \in Nat
    BY DEF TypeInv, Typed
  <2>2. hist \in [calls : Nat, misled : BOOLEAN]
    BY DEF TypeInv, Typed
  <2> QED
    BY <1>6, <2>1, <2>2
<1> QED
  BY <1>2, <1>3, <1>4, <1>5, <1>7 DEF Begin

-----------------------------------------------------------------------------
(* Tables of segments.  Every entry of a comes from one of b, with at most *)
(* its address changed.                                                    *)
SameSegment(a, b) ==
    a.id = b.id /\ a.mem = b.mem /\ a.key = b.key /\ a.marked = b.marked

From(a, b) ==
    \A i \in DOMAIN a : \E j \in DOMAIN b : SameSegment(a[i], b[j])

Holds(table, m) == \E i \in DOMAIN table : table[i].mem = m

LEMMA FirstFound ==
    ASSUME NEW table \in Seq(Segs), NEW id,
           ashv_find_local_index(table, id) # {}
    PROVE  /\ First(table, id) \in DOMAIN table
           /\ First(table, id) \in 1..Len(table)
           /\ table[First(table, id)].id = id
<1> DEFINE S == ashv_find_local_index(table, id)
<1>1. S \subseteq Nat
  BY DEF ashv_find_local_index
<1>2. \E i \in S : \A j \in S : i <= j
  BY <1>1, Least
<1>3. First(table, id) \in S
  BY <1>2 DEF First
<1> QED
  BY <1>3 DEF ashv_find_local_index

LEMMA Appended ==
    ASSUME NEW table \in Seq(Segs), NEW seg \in Segs
    PROVE  /\ Append(table, seg) \in Seq(Segs)
           /\ \A i \in DOMAIN Append(table, seg) :
                 \/ i \in DOMAIN table /\ Append(table, seg)[i] = table[i]
                 \/ Append(table, seg)[i] = seg
           /\ \A m : Holds(table, m) => Holds(Append(table, seg), m)
           /\ Holds(Append(table, seg), seg.mem)
<1>1. /\ Append(table, seg) \in Seq(Segs)
      /\ Len(Append(table, seg)) = Len(table) + 1
      /\ Append(table, seg)[Len(table) + 1] = seg
      /\ \A i \in 1..Len(table) : Append(table, seg)[i] = table[i]
  OBVIOUS
<1> QED
  BY <1>1 DEF Holds

LEMMA Deleted ==
    ASSUME NEW table \in Seq(Segs), NEW i \in 1..Len(table)
    PROVE  /\ RemoveAt(table, i) \in Seq(Segs)
           /\ From(RemoveAt(table, i), table)
           /\ \A m : Holds(table, m) /\ table[i].mem # m
                        => Holds(RemoveAt(table, i), m)
<1> DEFINE a == SubSeq(table, 1, i - 1)
           b == SubSeq(table, i + 1, Len(table))
<1>1. /\ a \in Seq(Segs) /\ Len(a) = i - 1
      /\ \A j \in 1..(i - 1) : a[j] = table[j]
  OBVIOUS
<1>2. /\ b \in Seq(Segs) /\ Len(b) = Len(table) - i
      /\ \A j \in 1..(Len(table) - i) : b[j] = table[i + j]
  OBVIOUS
<1>3. /\ RemoveAt(table, i) \in Seq(Segs)
      /\ Len(RemoveAt(table, i)) = Len(table) - 1
      /\ \A j \in 1..(Len(table) - 1) : RemoveAt(table, i)[j] =
            IF j < i THEN table[j] ELSE table[j + 1]
  <2> HIDE DEF a, b
  <2>1. RemoveAt(table, i) = a \o b
    BY DEF RemoveAt, a, b
  <2>2. /\ a \o b \in Seq(Segs) /\ Len(a \o b) = Len(a) + Len(b)
        /\ \A j \in 1..(Len(a) + Len(b)) :
              (a \o b)[j] = IF j <= Len(a) THEN a[j] ELSE b[j - Len(a)]
    BY <1>1, <1>2, ConcatProperties
  <2>3. Len(a \o b) = Len(table) - 1
    BY <1>1, <1>2, <2>2
  <2>4. ASSUME NEW j \in 1..(Len(table) - 1)
        PROVE  (a \o b)[j] = IF j < i THEN table[j] ELSE table[j + 1]
    <3>1. CASE j < i
      BY <1>1, <1>2, <2>2, <3>1
    <3>2. CASE j >= i
      <4>1. (a \o b)[j] = b[j - i + 1]
        BY <1>1, <1>2, <2>2, <3>2
      <4>2. j - i + 1 \in 1..(Len(table) - i) /\ i + (j - i + 1) = j + 1
        BY <3>2
      <4> QED
        BY <1>2, <3>2, <4>1, <4>2
    <3>3. j < i \/ j >= i
      OBVIOUS
    <3> QED
      BY <3>1, <3>2, <3>3
  <2> QED
    BY <2>1, <2>2, <2>3, <2>4
<1>4. From(RemoveAt(table, i), table)
  <2> SUFFICES ASSUME NEW j \in 1..(Len(table) - 1)
               PROVE  \E k \in DOMAIN table :
                         SameSegment(RemoveAt(table, i)[j], table[k])
    BY <1>3 DEF From
  <2> QED
    BY <1>3 DEF SameSegment
<1>5. ASSUME NEW m, Holds(table, m), table[i].mem # m
      PROVE  Holds(RemoveAt(table, i), m)
  <2>1. PICK k \in 1..Len(table) : table[k].mem = m
    BY <1>5 DEF Holds
  <2>2. CASE k < i
    BY <1>3, <2>1, <2>2 DEF Holds
  <2>3. CASE k > i
    <3>1. k - 1 \in DOMAIN RemoveAt(table, i)
      BY <1>3, <2>3
    <3>2. RemoveAt(table, i)[k - 1] = table[k]
      BY <1>3, <2>3
    <3> QED
      BY <2>1, <3>1, <3>2 DEF Holds
  <2> QED
    BY <1>5, <2>1, <2>2, <2>3
<1> QED
  BY <1>3, <1>4, <1>5

LEMMA Remapped ==
    ASSUME NEW table \in Seq(Segs), NEW i \in DOMAIN table, NEW ok \in BOOLEAN
    PROVE  LET new == [table EXCEPT ![i].addr = ok]
           IN  /\ new \in Seq(Segs) /\ From(new, table)
               /\ \A m : Holds(table, m) => Holds(new, m)
<1> DEFINE new == [table EXCEPT ![i].addr = ok]
<1>1. table[i] \in Segs
  OBVIOUS
<1>2. [table[i] EXCEPT !.addr = ok] \in Segs
  BY <1>1 DEF Segs
<1>3. SameSegment([table[i] EXCEPT !.addr = ok], table[i])
  BY <1>1 DEF Segs, SameSegment
<1>4. new = [table EXCEPT ![i] = [table[i] EXCEPT !.addr = ok]]
  OBVIOUS
<1>5. new \in Seq(Segs) /\ DOMAIN new = DOMAIN table
      /\ \A j \in DOMAIN table : SameSegment(new[j], table[j])
  <2> HIDE DEF new
  <2>1. new \in Seq(Segs) /\ DOMAIN new = DOMAIN table
    BY <1>2, <1>4
  <2>2. ASSUME NEW j \in DOMAIN table PROVE SameSegment(new[j], table[j])
    <3>1. CASE j = i
      BY <1>3, <1>4, <3>1
    <3>2. CASE j # i
      BY <1>4, <3>2 DEF SameSegment
    <3> QED
      BY <3>1, <3>2
  <2> QED
    BY <2>1, <2>2
<1> QED
  <2> HIDE DEF new
  <2>1. From(new, table) /\ \A m : Holds(table, m) => Holds(new, m)
    BY <1>5 DEF From, Holds, SameSegment
  <2> QED
    BY <1>5, <2>1 DEF new

-----------------------------------------------------------------------------
(* What the shared parts of the operations do to their own process.        *)
Others(p) == \A q \in Procs \ {p} : st'[q] = st[q] /\ call'[q] = call[q]

SameSelf(s, t) ==
    t.setup = s.setup /\ t.localId = s.localId /\ t.listening = s.listening

LEMMA ReturnEffect ==
    ASSUME TypeInv, NEW p \in Procs, NEW s \in States, Return(p, s)
    PROVE  /\ st' \in [Procs -> States] /\ call' \in [Procs -> Calls]
           /\ Keyed' /\ Others(p)
           /\ call'[p].at = "idle" /\ call'[p].op = "none" /\ call'[p].new = -1
           /\ SameSelf(s, st'[p])
           /\ st'[p].counter = s.counter /\ st'[p].shmem = s.shmem
<1> USE DEF TypeInv, Typed
<1> DEFINE t == [s EXCEPT !.mutex = "free"]
<1>1. call' = [call EXCEPT ![p] = Idle] /\ st' = [st EXCEPT ![p] = t]
  BY DEF Return
<1>2. t \in States /\ SameSelf(s, t) /\ t.counter = s.counter
      /\ t.shmem = s.shmem
  BY DEF States, SameSelf
<1>3. st' \in [Procs -> States] /\ st'[p] = t
      /\ \A q \in Procs \ {p} : st'[q] = st[q]
  <2> HIDE DEF t
  <2> QED
    BY <1>1, <1>2
<1>4. call' \in [Procs -> Calls] /\ call'[p] = Idle
      /\ \A q \in Procs \ {p} : call'[q] = call[q]
  BY <1>1, IdleType
<1>5. Idle.at = "idle" /\ Idle.op = "none" /\ Idle.new = -1
  BY DEF Idle
<1>6. Keyed'
  BY <1>4, <1>5 DEF Keyed
<1> QED
  BY <1>2, <1>3, <1>4, <1>5, <1>6 DEF Others

LEMMA GoOnEffect ==
    ASSUME TypeInv, NEW p \in Procs, NEW c \in Calls,
           call' = [call EXCEPT ![p] = c],
           st' = [st EXCEPT ![p].mutex = "main"],
           c.op = call[p].op, c.key = call[p].key,
           c.at \notin {"idle", "lock"}, c.at = "wait" \/ c.op = "get",
           c.op = "get" => c.key \in Keys
    PROVE  /\ st' \in [Procs -> States] /\ call' \in [Procs -> Calls]
           /\ Keyed' /\ Others(p) /\ call'[p] = c
           /\ SameSelf(st[p], st'[p])
           /\ st'[p].counter = st[p].counter /\ st'[p].shmem = st[p].shmem
<1>0. /\ st \in [Procs -> States] /\ call \in [Procs -> Calls]
      /\ st[p] \in States /\ Keyed
  BY DEF TypeInv, Typed
<1> DEFINE t == [st[p] EXCEPT !.mutex = "main"]
<1>1. st' = [st EXCEPT ![p] = t]
  OBVIOUS
<1>2. t \in States /\ SameSelf(st[p], t) /\ t.counter = st[p].counter
      /\ t.shmem = st[p].shmem
  BY <1>0 DEF States, SameSelf
<1> HIDE DEF t
<1>3. st' \in [Procs -> States] /\ st'[p] = t
      /\ \A q \in Procs \ {p} : st'[q] = st[q]
  BY <1>0, <1>1, <1>2
<1>4. call' \in [Procs -> Calls] /\ call'[p] = c
      /\ \A q \in Procs \ {p} : call'[q] = call[q]
  BY <1>0
<1>5. Keyed'
  BY <1>0, <1>4 DEF Keyed
<1> QED
  BY <1>2, <1>3, <1>4, <1>5 DEF Others

-----------------------------------------------------------------------------
(* Processes: a call or an answering thread belongs to a living process    *)
(* that has looked at its pid, and one that listens owns its socket.       *)
Awake ==
    \A p \in Procs :
       /\ life[p] # "alive" =>
             st[p] = NoState /\ call[p] = Idle /\ thread[p] = NoThread
       /\ call[p].at # "idle" \/ thread[p].at # "none" => st[p].setup = p
       /\ call[p].at = "idle" => call[p].op = "none" /\ call[p].new = -1
       /\ call[p].op = "get" => st[p].listening
       /\ st[p].setup # 0 => life[st[p].setup] # "unborn"
       /\ st[p].setup = 0 => ~st[p].listening

OwnSocket ==
    \A p \in Procs :
       st[p].setup = p /\ st[p].listening =>
          /\ sock[st[p].localId].by = p
          /\ p \in sock[st[p].localId].holders

(* Whoever has a connection waits on it, and was sent what it asked for.   *)
Answered ==
    \A p \in Procs :
       /\ conn[p].at # "none" => call[p].at = "wait"
       /\ conn[p].at = "answered" =>
             /\ conn[p].mem \in DOMAIN mems
             /\ mems[conn[p].mem].id = call[p].id

GoodSegment(seg, ms) ==
    /\ seg.mem \in DOMAIN ms
    /\ seg.id = ms[seg.mem].id /\ seg.key = ms[seg.mem].key

GoodTables ==
    \A p \in Procs : \A i \in DOMAIN st[p].shmem :
       GoodSegment(st[p].shmem[i], mems)

(* Identifiers carry the number of their creator's socket.                 *)
Numbered(s, id) ==
    \E c \in Nat : /\ c < HalfWord \div 2
                   /\ id = ashv_shmid_from_counter(s, c)

Created ==
    /\ \A m \in DOMAIN mems :
          LET p == mems[m].by
          IN  /\ life[p] # "unborn"
              /\ life[p] = "alive" =>
                    /\ st[p].setup = p /\ st[p].listening
                    /\ Numbered(st[p].localId, mems[m].id)
    /\ \A p \in Procs : call[p].new # -1 => Numbered(st[p].localId, call[p].new)

BaseInv ==
    TypeInv /\ Awake /\ OwnSocket /\ Answered /\ GoodTables /\ Created

LEMMA InitBase == Init => BaseInv
<1> SUFFICES ASSUME Init PROVE BaseInv
  OBVIOUS
<1>1. TypeInv
  BY InitTypes
<1>2. /\ \A p \in Procs : call[p] = Idle /\ thread[p] = NoThread
                          /\ st[p] = NoState /\ conn[p] = NoConn
      /\ mems = <<>>
  BY DEF Init
<1>3. /\ NoState.setup = 0 /\ NoState.shmem = <<>> /\ Idle.at = "idle"
      /\ ~NoState.listening
      /\ Idle.op = "none" /\ Idle.new = -1 /\ NoThread.at = "none"
      /\ NoConn.at = "none"
  BY DEF NoState, Idle, NoThread, NoConn
<1>4. \A p \in Procs : p # 0
  BY SharedMemoryAssumption
<1>5. Awake
  BY <1>2, <1>3 DEF Awake
<1>6. OwnSocket /\ Answered
  BY <1>2, <1>3, <1>4 DEF OwnSocket, Answered
<1>7. GoodTables /\ Created
  BY <1>2, <1>3 DEF GoodTables, Created
<1> QED
  BY <1>1, <1>5, <1>6, <1>7 DEF BaseInv

-----------------------------------------------------------------------------
(* A step of the calling thread, as far as the invariants tell.            *)
Grows ==
    \A m \in DOMAIN mems :
       /\ m \in DOMAIN mems'
       /\ mems'[m].id = mems[m].id /\ mems'[m].key = mems[m].key
       /\ mems'[m].by = mems[m].by
       /\ mems[m].removed => mems'[m].removed

Drawn(p) ==
    \/ /\ st'[p].counter = st[p].counter
       /\ call'[p].new \in {call[p].new, -1}
       /\ call'[p].new = call[p].new \/ call'[p].at = "idle"
    \/ /\ call[p].new = -1
       /\ st'[p].counter = (st[p].counter + 1) % (HalfWord \div 2)
       /\ \/ call'[p].new = -1 /\ call'[p].at = "idle"
          \/ call'[p].new =
                ashv_shmid_from_counter(st[p].localId, st'[p].counter)

MainEffect(p) ==
    /\ UNCHANGED <<life, thread, sock>>
    /\ call[p].at # "idle"
    /\ Others(p) /\ SameSelf(st[p], st'[p])
    /\ \A q \in Procs \ {p} : conn'[q] = conn[q]
    /\ call'[p].op \in {call[p].op, "none"}
    /\ call'[p].at = "idle" => call'[p].op = "none" /\ call'[p].new = -1
    /\ conn'[p].at \in {"none", "queued"}
    /\ conn'[p].at = "queued" => call'[p].at = "wait"
    /\ hist'.calls = hist.calls
    /\ Drawn(p)
    /\ Grows
    /\ \A i \in DOMAIN st'[p].shmem : GoodSegment(st'[p].shmem[i], mems')
    /\ \A m \in DOMAIN mems' \ DOMAIN mems :
          /\ mems'[m].by = p /\ st[p].listening
          /\ Numbered(st[p].localId, mems'[m].id)

LEMMA MainKeepsBase ==
    ASSUME BaseInv, NEW p \in Procs, MainEffect(p), TypeInv' PROVE BaseInv'
<1> USE DEF BaseInv
<1>1. life[p] = "alive" /\ st[p].setup = p
  <2>1. Idle.at = "idle"
    BY DEF Idle
  <2> QED
    BY <2>1 DEF Awake, MainEffect
<1>2. Awake'
  <2> SUFFICES ASSUME NEW q \in Procs
               PROVE  /\ life'[q] # "alive" => /\ st'[q] = NoState
                                               /\ call'[q] = Idle
                                               /\ thread'[q] = NoThread
                      /\ call'[q].at # "idle" \/ thread'[q].at # "none"
                            => st'[q].setup = q
                      /\ call'[q].at = "idle" =>
                            call'[q].op = "none" /\ call'[q].new = -1
                      /\ call'[q].op = "get" => st'[q].listening
                      /\ st'[q].setup # 0 => life'[st'[q].setup] # "unborn"
                      /\ st'[q].setup = 0 => ~st'[q].listening
    BY DEF Awake
  <2>1. CASE q = p
    BY <1>1, <2>1 DEF MainEffect, SameSelf, Awake
  <2>2. CASE q # p
    BY <2>2 DEF MainEffect, Others, Awake
  <2> QED
    BY <2>1, <2>2
<1>3. OwnSocket'
  BY DEF MainEffect, Others, SameSelf, OwnSocket
<1>4. Answered'
  <2> SUFFICES ASSUME NEW q \in Procs
               PROVE  /\ conn'[q].at # "none" => call'[q].at = "wait"
                      /\ conn'[q].at = "answered" =>
                            /\ conn'[q].mem \in DOMAIN mems'
                            /\ mems'[conn'[q].mem].id = call'[q].id
    BY DEF Answered
  <2>1. CASE q = p
    BY <2>1 DEF MainEffect
  <2>2. CASE q # p
    BY <2>2 DEF MainEffect, Others, Answered, Grows
  <2> QED
    BY <2>1, <2>2
<1>5. GoodTables'
  <2> SUFFICES ASSUME NEW q \in Procs, NEW i \in DOMAIN st'[q].shmem
               PROVE  GoodSegment(st'[q].shmem[i], mems')
    BY DEF GoodTables
  <2>1. CASE q = p
    BY <2>1 DEF MainEffect
  <2>2. CASE q # p
    BY <2>2 DEF MainEffect, Others, GoodTables, GoodSegment, Grows
  <2> QED
    BY <2>1, <2>2
<1>6. \A q \in Procs : st'[q].localId = st[q].localId
  BY DEF MainEffect, Others, SameSelf
<1>7. Created'
  <2>1. ASSUME NEW m \in DOMAIN mems'
        PROVE  /\ life'[mems'[m].by] # "unborn"
               /\ life'[mems'[m].by] = "alive" =>
                     /\ st'[mems'[m].by].setup = mems'[m].by
                     /\ st'[mems'[m].by].listening
                     /\ Numbered(st'[mems'[m].by].localId, mems'[m].id)
    <3>1. CASE m \in DOMAIN mems
      <4>1. mems[m].by \in Procs /\ mems'[m].by = mems[m].by
            /\ mems'[m].id = mems[m].id
        <5>1. mems[m] \in Mems
          BY <3>1 DEF TypeInv, Typed
        <5> QED
          BY <3>1, <5>1 DEF Mems, MainEffect, Grows
      <4> QED
        BY <1>6, <3>1, <4>1
           DEF Created, MainEffect, Others, SameSelf
    <3>2. CASE m \notin DOMAIN mems
      BY <1>1, <1>6, <2>1, <3>2 DEF MainEffect, SameSelf
    <3> QED
      BY <3>1, <3>2
  <2>2. ASSUME NEW q \in Procs, call'[q].new # -1
        PROVE  Numbered(st'[q].localId, call'[q].new)
    <3>1. CASE q # p
      BY <1>6, <2>2, <3>1 DEF Created, MainEffect, Others
    <3>2. CASE q = p /\ call'[p].new = call[p].new
      BY <1>6, <2>2, <3>2 DEF Created
    <3>3. CASE /\ q = p /\ call'[p].new # call[p].new
      <4>1. /\ st'[p].counter = (st[p].counter + 1) % (HalfWord \div 2)
            /\ call'[p].new =
                  ashv_shmid_from_counter(st[p].localId, st'[p].counter)
        BY <2>2, <3>3 DEF MainEffect, Drawn
      <4>2. st[p].counter \in Nat
        BY DEF TypeInv, Typed, States
      <4>3. st'[p].counter \in Nat /\ st'[p].counter < HalfWord \div 2
        BY <4>1, <4>2, Halves
      <4> QED
        BY <3>3, <4>1, <4>3 DEF Numbered, MainEffect, SameSelf
    <3> QED
      BY <3>1, <3>2, <3>3
  <2> QED
    BY <2>1, <2>2 DEF Created
<1> QED
  BY <1>2, <1>3, <1>4, <1>5, <1>7

-----------------------------------------------------------------------------
(* The calling thread, operation by operation.                             *)
SelfEffect(p) ==
    /\ st' \in [Procs -> States] /\ call' \in [Procs -> Calls]
    /\ Keyed' /\ Others(p) /\ SameSelf(st[p], st'[p])
    /\ call'[p].op \in {call[p].op, "none"}
    /\ call'[p].at = "idle" => call'[p].op = "none" /\ call'[p].new = -1
    /\ Drawn(p)

LEMMA ReturnsSelf ==
    ASSUME TypeInv, NEW p \in Procs, NEW s \in States, Return(p, s),
           SameSelf(st[p], s), s.counter = st[p].counter
    PROVE  SelfEffect(p) /\ st'[p].shmem = s.shmem /\ call'[p].at = "idle"
BY ReturnEffect DEF SelfEffect, SameSelf, Drawn

LEMMA GoesOnSelf ==
    ASSUME TypeInv, NEW p \in Procs, NEW c \in Calls,
           call' = [call EXCEPT ![p] = c],
           st' = [st EXCEPT ![p].mutex = "main"],
           c.op = call[p].op, c.key = call[p].key, c.new = call[p].new,
           c.at \notin {"idle", "lock"}, c.at = "wait" \/ c.op = "get",
           c.op = "get" => c.key \in Keys
    PROVE  SelfEffect(p) /\ st'[p].shmem = st[p].shmem /\ call'[p] = c
BY GoOnEffect DEF SelfEffect, Drawn

LEMMA RefusedSelf ==
    ASSUME TypeInv, NEW p \in Procs, NEW id \in Int, Refused(p, id),
           call[p].op = "get" => call[p].key \in Keys
    PROVE  SelfEffect(p) /\ st'[p].shmem = st[p].shmem
<1>0. st[p] \in States /\ call[p] \in Calls
  BY DEF TypeInv, Typed
<1>1. CASE call[p].op = "get"
  <2> DEFINE c == [call[p] EXCEPT !.at = "unlink", !.id = id]
  <2>1. c \in Calls /\ c.op = call[p].op /\ c.key = call[p].key
        /\ c.new = call[p].new /\ c.at = "unlink"
    BY <1>0 DEF Calls, Places
  <2>2. call' = [call EXCEPT ![p] = c] /\ st' = [st EXCEPT ![p].mutex = "main"]
    BY <1>1 DEF Refused
  <2> HIDE DEF c
  <2> QED
    BY <1>1, <2>1, <2>2, GoesOnSelf
<1>2. CASE call[p].op # "get"
  BY <1>0, <1>2, ReturnsSelf DEF Refused, SameSelf
<1> QED
  BY <1>1, <1>2

LEMMA StillGood ==
    ASSUME BaseInv, NEW p \in Procs, NEW t, From(t, st[p].shmem), Grows
    PROVE  \A i \in DOMAIN t : GoodSegment(t[i], mems')
BY DEF BaseInv, GoodTables, From, SameSegment, GoodSegment, Grows

(* What a step that begins no call does to the history.                    *)
Counted ==
    /\ hist' \in [calls : Nat, misled : BOOLEAN]
    /\ hist'.calls = hist.calls
    /\ hist.misled => hist'.misled

LEMMA StillCounted == ASSUME TypeInv, UNCHANGED hist PROVE Counted
BY DEF TypeInv, Typed, Counted

LEMMA MisledEffect ==
    ASSUME TypeInv, NEW p \in Procs, NEW id, NEW error, Misled(p, id, error)
    PROVE  /\ Counted
           /\ error /\ call[p].op = "get" /\ Owned(call[p].key, id)
                 => hist'.misled
<1> DEFINE e == error /\ call[p].op = "get" /\ Owned(call[p].key, id)
           r == hist.misled \/ e
<1>1. hist' = [hist EXCEPT !.misled = r]
  BY DEF Misled
<1>2. r \in BOOLEAN /\ hist \in [calls : Nat, misled : BOOLEAN]
  BY DEF TypeInv, Typed
<1>3. (hist.misled => r) /\ (e => r)
  OBVIOUS
<1> HIDE DEF e, r
<1>4. hist' \in [calls : Nat, misled : BOOLEAN] /\ hist'.calls = hist.calls
      /\ hist'.misled = r
  BY <1>1, <1>2
<1>5. Counted
  BY <1>3, <1>4 DEF Counted
<1>6. e => hist'.misled
  BY <1>3, <1>4
<1> QED
  BY <1>5, <1>6 DEF e

(* An operation that creates and removes nothing.                          *)
LEMMA QuietStep ==
    ASSUME BaseInv, NEW p \in Procs, SelfEffect(p), call[p].at # "idle",
           From(st'[p].shmem, st[p].shmem),
           \/ UNCHANGED conn /\ call[p].at # "wait"
           \/ conn' = [conn EXCEPT ![p] = NoConn],
           UNCHANGED <<life, thread, sock, link, mems>>, Counted
    PROVE  TypeInv' /\ MainEffect(p)
<1>1. Grows
  BY DEF Grows
<1>2. \A i \in DOMAIN st'[p].shmem : GoodSegment(st'[p].shmem[i], mems')
  BY <1>1, StillGood
<1>3. NoConn \in Sockets /\ NoConn.at = "none"
  BY Halves DEF NoConn, Sockets, SocketIds
<1>4. conn' \in [Procs -> Sockets] /\ conn'[p].at = "none"
      /\ \A q \in Procs \ {p} : conn'[q] = conn[q]
  BY <1>3 DEF BaseInv, TypeInv, Typed, Answered
<1>5. TypeInv'
  BY <1>4 DEF BaseInv, TypeInv, Typed, SelfEffect, Counted
<1> QED
  BY <1>1, <1>2, <1>4, <1>5 DEF MainEffect, SelfEffect, Counted

LEMMA FromItself == ASSUME NEW t PROVE From(t, t)
BY DEF From, SameSegment

LEMMA AskEffect ==
    ASSUME BaseInv, NEW p \in Procs, NEW id \in Int, Ask(p, id),
           call[p].at \notin {"idle", "wait"}, call[p].op \in {"get", "at"},
           call[p].op = "get" => call[p].key \in Keys,
           UNCHANGED <<life, thread, sock, link, mems>>
    PROVE  TypeInv' /\ MainEffect(p) /\ st'[p].shmem = st[p].shmem
<1>0. /\ call[p] \in Calls /\ conn \in [Procs -> Sockets] /\ TypeInv
  BY DEF BaseInv, TypeInv, Typed
<1>1. ASSUME NEW open, Refused(p, id), Misled(p, id, open), UNCHANGED conn
      PROVE  TypeInv' /\ MainEffect(p) /\ st'[p].shmem = st[p].shmem
  <2>1. Counted
    BY <1>0, <1>1, MisledEffect
  <2> QED
    BY <1>0, <1>1, <2>1, RefusedSelf, QuietStep, FromItself
<1>2. ASSUME ~(\E open : /\ Refused(p, id) /\ Misled(p, id, open)
                         /\ UNCHANGED conn)
      PROVE  TypeInv' /\ MainEffect(p) /\ st'[p].shmem = st[p].shmem
  <2> DEFINE s == ashv_socket_id_from_shmid(id)
             k == [NoConn EXCEPT !.at = "queued", !.to = s]
             c == [call[p] EXCEPT !.at = "wait", !.id = id]
  <2>1. /\ s \in SocketIds
        /\ conn' = [conn EXCEPT ![p] = k] /\ call' = [call EXCEPT ![p] = c]
        /\ st' = [st EXCEPT ![p].mutex = "main"] /\ UNCHANGED hist
    BY <1>2 DEF Ask
  <2>2. c \in Calls /\ c.op = call[p].op /\ c.key = call[p].key
        /\ c.new = call[p].new /\ c.at = "wait"
    BY <1>0 DEF Calls, Places
  <2>3. k \in Sockets /\ k.at = "queued"
    <3>1. NoConn \in Sockets
      BY Halves DEF NoConn, Sockets, SocketIds
    <3> HIDE DEF s
    <3> QED
      BY <2>1, <3>1 DEF Sockets
  <2> HIDE DEF k, c
  <2>4. SelfEffect(p) /\ st'[p].shmem = st[p].shmem /\ call'[p] = c
    BY <1>0, <2>1, <2>2, GoesOnSelf
  <2>5. conn' \in [Procs -> Sockets] /\ conn'[p].at = "queued"
        /\ \A q \in Procs \ {p} : conn'[q] = conn[q]
    BY <1>0, <2>1, <2>3
  <2>6. TypeInv'
    BY <1>0, <2>1, <2>4, <2>5 DEF TypeInv, Typed, SelfEffect
  <2>7. Grows
    BY DEF Grows
  <2>8. \A i \in DOMAIN st'[p].shmem : GoodSegment(st'[p].shmem[i], mems')
    BY <2>4, <2>7, StillGood, FromItself
  <2> QED
    BY <2>1, <2>2, <2>4, <2>5, <2>6, <2>7, <2>8 DEF MainEffect, SelfEffect
<1> QED
  BY <1>1, <1>2

Stays(p) ==
    /\ mems' = mems /\ From(st'[p].shmem, st[p].shmem)
    /\ \A m : Holds(st[p].shmem, m) => Holds(st'[p].shmem, m)

LEMMA ReadLinkEffect ==
    ASSUME BaseInv, NEW p \in Procs, ReadLink(p)
    PROVE  TypeInv' /\ MainEffect(p) /\ Stays(p)
<1> DEFINE id == link[call[p].key]
<1>0. /\ TypeInv /\ st[p] \in States /\ call[p] \in Calls
      /\ UNCHANGED <<life, thread, sock, link, mems>>
  BY DEF BaseInv, TypeInv, Typed, ReadLink
<1>1. call[p].at \in {"lock", "readlink"} /\ call[p].op = "get"
      /\ call[p].key \in Keys
  BY <1>0 DEF ReadLink, Locked, TypeInv, Keyed, Calls
<1>2. id \in Int
  BY <1>1 DEF BaseInv, TypeInv, Typed
<1>3. CASE Return(p, st[p]) /\ UNCHANGED <<conn, hist>>
  BY <1>0, <1>1, <1>3, ReturnsSelf, QuietStep, StillCounted, FromItself
     DEF Stays, SameSelf
<1>4. CASE Ask(p, id)
  BY <1>0, <1>1, <1>2, <1>4, AskEffect, FromItself DEF Stays
<1>5. CASE GoOn(p, "symlink") /\ UNCHANGED <<conn, hist>>
  <2> DEFINE c == [call[p] EXCEPT !.at = "symlink"]
  <2>1. c \in Calls /\ c.op = call[p].op /\ c.key = call[p].key
        /\ c.new = call[p].new /\ c.at = "symlink"
    BY <1>0 DEF Calls, Places
  <2>2. call' = [call EXCEPT ![p] = c] /\ st' = [st EXCEPT ![p].mutex = "main"]
    BY <1>5 DEF GoOn
  <2> HIDE DEF c
  <2>3. SelfEffect(p) /\ st'[p].shmem = st[p].shmem
    BY <1>0, <1>1, <2>1, <2>2, GoesOnSelf
  <2> QED
    BY <1>0, <1>1, <1>5, <2>3, QuietStep, StillCounted, FromItself DEF Stays
<1> QED
  BY <1>3, <1>4, <1>5 DEF ReadLink

LEMMA UnlinkEffect ==
    ASSUME BaseInv, NEW p \in Procs, Unlink(p)
    PROVE  TypeInv' /\ MainEffect(p) /\ Stays(p)
<1>0. /\ TypeInv /\ st[p] \in States /\ call[p] \in Calls
      /\ UNCHANGED <<life, thread, conn, sock, mems>>
  BY DEF BaseInv, TypeInv, Typed, Unlink
<1>1. call[p].at = "unlink" /\ call[p].op = "get" /\ call[p].key \in Keys
  BY <1>0 DEF Unlink, TypeInv, Keyed
<1>2. link' \in [Keys -> Int]
  <2>1. link' = link \/ link' = [link EXCEPT ![call[p].key] = 0]
    BY DEF Unlink, NoLink
  <2>2. link \in [Keys -> Int]
    BY <1>0 DEF TypeInv, Typed
  <2> QED
    BY <1>1, <2>1, <2>2
<1>3. hist' \in [calls : Nat, misled : BOOLEAN] /\ hist'.calls = hist.calls
  <2> DEFINE r == hist.misled \/ link[call[p].key] \notin {NoLink, call[p].id}
  <2>1. hist' = hist \/ hist' = [hist EXCEPT !.misled = r]
    BY DEF Unlink
  <2>2. r \in BOOLEAN /\ hist \in [calls : Nat, misled : BOOLEAN]
    BY <1>0 DEF TypeInv, Typed
  <2> HIDE DEF r
  <2> QED
    BY <2>1, <2>2
<1>4. SelfEffect(p) /\ st'[p].shmem = st[p].shmem
  <2> DEFINE c == [call[p] EXCEPT !.at = "symlink"]
  <2>1. c \in Calls /\ c.op = call[p].op /\ c.key = call[p].key
        /\ c.new = call[p].new /\ c.at = "symlink"
    BY <1>0 DEF Calls, Places
  <2>2. call' = [call EXCEPT ![p] = c] /\ st' = [st EXCEPT ![p].mutex = "main"]
    BY DEF GoOn, Unlink
  <2> HIDE DEF c
  <2> QED
    BY <1>0, <1>1, <2>1, <2>2, GoesOnSelf
<1>5. TypeInv'
  BY <1>0, <1>2, <1>3, <1>4 DEF TypeInv, Typed, SelfEffect
<1>6. Grows
  BY <1>0 DEF Grows
<1>7. \A i \in DOMAIN st'[p].shmem : GoodSegment(st'[p].shmem[i], mems')
  BY <1>4, <1>6, StillGood, FromItself
<1>8. conn[p].at = "none"
  BY <1>1 DEF BaseInv, Answered
<1>9. MainEffect(p)
  BY <1>0, <1>1, <1>3, <1>4, <1>6, <1>7, <1>8 DEF MainEffect, SelfEffect
<1> QED
  BY <1>0, <1>4, <1>5, <1>9, FromItself DEF Stays

(* The number of a new segment.                                            *)
LEMMA NumberIs ==
    ASSUME BaseInv, NEW p \in Procs
    PROVE  /\ Number(p).id \in Int /\ Number(p).counter \in Nat
           /\ Numbered(st[p].localId, Number(p).id)
           /\ call[p].new # -1 => /\ Number(p).id = call[p].new
                                  /\ Number(p).counter = st[p].counter
           /\ call[p].new = -1 =>
                 /\ Number(p).counter =
                       (st[p].counter + 1) % (HalfWord \div 2)
                 /\ Number(p).id = ashv_shmid_from_counter(st[p].localId,
                                                           Number(p).counter)
<1>0. /\ st[p].counter \in Nat /\ st[p].localId \in SocketIds
      /\ call[p].new \in Int
  BY DEF BaseInv, TypeInv, Typed, States, Calls
<1>1. CASE call[p].new # -1
  BY <1>0, <1>1 DEF Number, BaseInv, Created
<1>2. CASE call[p].new = -1
  <2> DEFINE next == (st[p].counter + 1) % (HalfWord \div 2)
  <2>1. next \in Nat /\ next < HalfWord \div 2
    BY <1>0, Halves
  <2>2. Number(p).counter = next
        /\ Number(p).id = ashv_shmid_from_counter(st[p].localId, next)
    BY <1>2 DEF Number
  <2> HIDE DEF next
  <2>3. Numbered(st[p].localId, Number(p).id)
    BY <2>1, <2>2 DEF Numbered
  <2>4. ashv_shmid_from_counter(st[p].localId, next) \in Int
    <3>1. st[p].localId \in Int /\ HalfWord \in Int
      BY <1>0, Halves DEF SocketIds
    <3> QED
      BY <2>1, <3>1 DEF ashv_shmid_from_counter
  <2> QED
    BY <1>2, <2>1, <2>2, <2>3, <2>4 DEF next
<1> QED
  BY <1>1, <1>2

LEMMA SymlinkEffect ==
    ASSUME BaseInv, NEW p \in Procs, Symlink(p)
    PROVE  TypeInv' /\ MainEffect(p) /\ Stays(p)
<1> DEFINE n == Number(p)
<1>0. /\ TypeInv /\ st[p] \in States /\ call[p] \in Calls /\ Keyed
      /\ st \in [Procs -> States] /\ call \in [Procs -> Calls]
      /\ link \in [Keys -> Int]
      /\ UNCHANGED <<life, thread, conn, sock, mems>>
  BY DEF BaseInv, TypeInv, Typed, Symlink
<1>1. call[p].at = "symlink" /\ call[p].op = "get" /\ call[p].key \in Keys
  BY <1>0 DEF Symlink, Keyed
<1>2. n.id \in Int /\ n.counter \in Nat
  BY NumberIs
<1>3. /\ st' = [st EXCEPT ![p].counter = n.counter]
      /\ link' \in {link, [link EXCEPT ![call[p].key] = n.id]}
      /\ \E at \in {"create", "readlink"} :
            call' = [call EXCEPT ![p].at = at, ![p].new = n.id]
  BY DEF Symlink
<1> HIDE DEF n
<1>4. PICK at \in {"create", "readlink"} :
              call' = [call EXCEPT ![p].at = at, ![p].new = n.id]
  BY <1>3
<1> DEFINE c == [call[p] EXCEPT !.at = at, !.new = n.id]
           t == [st[p] EXCEPT !.counter = n.counter]
<1>5. c \in Calls /\ c.op = call[p].op /\ c.key = call[p].key
      /\ c.new = n.id /\ c.at = at
  BY <1>0, <1>2 DEF Calls, Places
<1>6. t \in States /\ SameSelf(st[p], t) /\ t.counter = n.counter
      /\ t.shmem = st[p].shmem
  BY <1>0, <1>2 DEF States, SameSelf
<1>7. call' = [call EXCEPT ![p] = c] /\ st' = [st EXCEPT ![p] = t]
  BY <1>0, <1>3, <1>4
<1> HIDE DEF c, t
<1>8. /\ call' \in [Procs -> Calls] /\ st' \in [Procs -> States]
      /\ Others(p) /\ call'[p] = c /\ st'[p] = t
  BY <1>0, <1>5, <1>6, <1>7 DEF Others
<1>9. link' \in [Keys -> Int]
  BY <1>0, <1>2, <1>3
<1>10. Keyed'
  BY <1>0, <1>1, <1>5, <1>8 DEF Keyed, Others
<1>11. hist' \in [calls : Nat, misled : BOOLEAN] /\ hist'.calls = hist.calls
  <2> DEFINE a == hist.misled \/ AskedFor(call[p].key, Number(p).id)
  <2>1. hist' = hist \/ hist' = [hist EXCEPT !.misled = a]
    BY DEF Symlink
  <2>2. a \in BOOLEAN /\ hist \in [calls : Nat, misled : BOOLEAN]
    BY <1>0 DEF TypeInv, Typed, AskedFor
  <2> HIDE DEF a
  <2> QED
    BY <2>1, <2>2
<1>17. TypeInv'
  BY <1>0, <1>8, <1>9, <1>10, <1>11 DEF TypeInv, Typed
<1>12. Drawn(p)
  <2>1. CASE call[p].new # -1
    BY <1>5, <1>6, <1>8, <2>1, NumberIs DEF Drawn, n
  <2>2. CASE call[p].new = -1
    BY <1>5, <1>6, <1>8, <2>2, NumberIs DEF Drawn, n
  <2> QED
    BY <2>1, <2>2
<1>13. Grows
  BY <1>0 DEF Grows
<1>14. \A i \in DOMAIN st'[p].shmem : GoodSegment(st'[p].shmem[i], mems')
  BY <1>6, <1>8, <1>13, StillGood, FromItself
<1>15. conn[p].at = "none"
  BY <1>1 DEF BaseInv, Answered
<1>16. MainEffect(p)
  BY <1>0, <1>1, <1>5, <1>6, <1>8, <1>11, <1>12, <1>13, <1>14, <1>15
     DEF MainEffect
<1> QED
  BY <1>0, <1>6, <1>8, <1>16, <1>17, FromItself DEF Stays

LEMMA SegmentType ==
    ASSUME NEW id \in Int, NEW m \in Nat, NEW key \in Keys \cup {IPC_PRIVATE}
    PROVE  /\ Segment(id, m, key) \in Segs /\ Segment(id, m, key).id = id
           /\ Segment(id, m, key).mem = m /\ Segment(id, m, key).key = key
           /\ ~Segment(id, m, key).marked
BY DEF Segment, Segs

LEMMA CreateEffect ==
    ASSUME BaseInv, NEW p \in Procs, Create(p)
    PROVE  /\ TypeInv' /\ MainEffect(p)
           /\ \A m : Holds(st[p].shmem, m) => Holds(st'[p].shmem, m)
           /\ \A m \in DOMAIN mems' \ DOMAIN mems : Holds(st'[p].shmem, m)
           /\ \A m \in DOMAIN mems : mems'[m] = mems[m]
           /\ \A i \in DOMAIN st'[p].shmem : st'[p].shmem[i].marked =>
                 i \in DOMAIN st[p].shmem /\ st'[p].shmem[i] = st[p].shmem[i]
           /\ \A m, k \in DOMAIN mems' \ DOMAIN mems : m = k
           /\ \A m \in DOMAIN mems' \ DOMAIN mems :
                 mems'[m].id = Number(p).id /\ mems'[m].by = p
           /\ st'[p].counter = Number(p).counter /\ call'[p].new = -1
<1> DEFINE n == Number(p)
           s == [st[p] EXCEPT !.counter = n.counter]
<1>0. /\ TypeInv /\ st[p] \in States /\ call[p] \in Calls /\ Keyed
      /\ mems \in Seq(Mems) /\ conn \in [Procs -> Sockets]
      /\ UNCHANGED <<life, thread, conn, sock, link, hist>>
  BY DEF BaseInv, TypeInv, Typed, Create
<1>1. call[p].at \in {"lock", "create"} /\ call[p].op = "get"
  BY <1>0 DEF Create, Locked, Keyed
<1>2. n.id \in Int /\ n.counter \in Nat
  BY NumberIs
<1>3. s \in States /\ SameSelf(st[p], s) /\ s.counter = n.counter
      /\ s.shmem = st[p].shmem
  <2> HIDE DEF n
  <2> QED
    BY <1>0, <1>2 DEF States, SameSelf
<1>4. conn[p].at = "none"
  BY <1>1 DEF BaseInv, Answered
<1>5. CASE Return(p, s) /\ UNCHANGED mems
  <2> HIDE DEF s
  <2>1. /\ st' \in [Procs -> States] /\ call' \in [Procs -> Calls]
        /\ Keyed' /\ Others(p)
        /\ call'[p].at = "idle" /\ call'[p].op = "none" /\ call'[p].new = -1
        /\ SameSelf(s, st'[p])
        /\ st'[p].counter = s.counter /\ st'[p].shmem = s.shmem
    BY <1>0, <1>3, <1>5, ReturnEffect
  <2>2. TypeInv'
    BY <1>0, <1>5, <2>1 DEF TypeInv, Typed
  <2>3. SameSelf(st[p], st'[p])
    BY <1>3, <2>1 DEF SameSelf
  <2>4. Drawn(p)
    BY <1>3, <2>1, NumberIs DEF Drawn
  <2>5. Grows
    BY <1>5 DEF Grows
  <2>6. \A i \in DOMAIN st'[p].shmem : GoodSegment(st'[p].shmem[i], mems')
    BY <1>3, <2>1, <2>5, StillGood, FromItself
  <2>7. MainEffect(p)
    BY <1>0, <1>1, <1>4, <1>5, <2>1, <2>3, <2>4, <2>5, <2>6 DEF MainEffect
  <2> QED
    BY <1>3, <1>5, <2>1, <2>2, <2>7
<1>6. ASSUME NEW k, k = Len(mems) + 1,
             mems' = Append(mems, [id |-> n.id, key |-> call[p].key, by |-> p,
                                   removed |-> FALSE]),
             Return(p, Add(s, Segment(n.id, k, call[p].key)))
      PROVE  /\ TypeInv' /\ MainEffect(p)
             /\ \A m : Holds(st[p].shmem, m) => Holds(st'[p].shmem, m)
             /\ \A m \in DOMAIN mems' \ DOMAIN mems : Holds(st'[p].shmem, m)
             /\ \A m \in DOMAIN mems : mems'[m] = mems[m]
             /\ \A i \in DOMAIN st'[p].shmem : st'[p].shmem[i].marked =>
                   i \in DOMAIN st[p].shmem /\ st'[p].shmem[i] = st[p].shmem[i]
             /\ \A m, l \in DOMAIN mems' \ DOMAIN mems : m = l
             /\ \A m \in DOMAIN mems' \ DOMAIN mems :
                   mems'[m].id = Number(p).id /\ mems'[m].by = p
             /\ st'[p].counter = Number(p).counter /\ call'[p].new = -1
  <2> DEFINE seg == Segment(n.id, k, call[p].key)
             mem == [id |-> n.id, key |-> call[p].key, by |-> p,
                     removed |-> FALSE]
             t == Add(s, seg)
  <2>1. call[p].key \in Keys \cup {IPC_PRIVATE} /\ k \in Nat
    BY <1>0, <1>6 DEF Calls
  <2>2. seg \in Segs /\ seg.id = n.id /\ seg.mem = k /\ seg.key = call[p].key
        /\ ~seg.marked
    BY <1>2, <2>1, SegmentType
  <2>3. mem \in Mems /\ mem.id = n.id /\ mem.key = call[p].key /\ mem.by = p
    <3> HIDE DEF n
    <3> QED
      BY <1>2, <2>1 DEF Mems
  <2> HIDE DEF seg, mem, s
  <2>4. t \in States /\ SameSelf(st[p], t) /\ t.counter = n.counter
        /\ t.shmem = Append(st[p].shmem, seg)
    <3>1. Append(st[p].shmem, seg) \in Seq(Segs)
      BY <1>0, <2>2 DEF States
    <3>2. t = [s EXCEPT !.shmem = Append(st[p].shmem, seg)]
      BY <1>3 DEF Add
    <3> HIDE DEF t
    <3> QED
      BY <1>3, <3>1, <3>2 DEF States, SameSelf
  <2>5. Return(p, t)
    BY <1>6 DEF seg
  <2> HIDE DEF t
  <2>6. /\ st' \in [Procs -> States] /\ call' \in [Procs -> Calls]
        /\ Keyed' /\ Others(p)
        /\ call'[p].at = "idle" /\ call'[p].op = "none" /\ call'[p].new = -1
        /\ SameSelf(t, st'[p])
        /\ st'[p].counter = t.counter /\ st'[p].shmem = t.shmem
    BY <1>0, <2>4, <2>5, ReturnEffect
  <2>7. /\ mems' \in Seq(Mems) /\ DOMAIN mems' = 1..k
        /\ DOMAIN mems = 1..(k - 1) /\ mems'[k] = mem
        /\ \A m \in DOMAIN mems : m \in DOMAIN mems' /\ mems'[m] = mems[m]
    BY <1>0, <1>6, <2>1, <2>3 DEF mem
  <2>8. \A m \in DOMAIN mems' \ DOMAIN mems : m = k
    BY <2>1, <2>7
  <2>9. TypeInv'
    BY <1>0, <2>6, <2>7 DEF TypeInv, Typed
  <2>10. SameSelf(st[p], st'[p])
    BY <2>4, <2>6 DEF SameSelf
  <2>11. Drawn(p)
    BY <2>4, <2>6, NumberIs DEF Drawn
  <2>12. Grows
    BY <2>7 DEF Grows
  <2>13. /\ \A i \in DOMAIN st'[p].shmem :
               \/ i \in DOMAIN st[p].shmem /\ st'[p].shmem[i] = st[p].shmem[i]
               \/ st'[p].shmem[i] = seg
         /\ \A m : Holds(st[p].shmem, m) => Holds(st'[p].shmem, m)
         /\ Holds(st'[p].shmem, k)
    <3>1. st[p].shmem \in Seq(Segs)
      BY <1>0 DEF States
    <3> QED
      BY <2>2, <2>4, <2>6, <3>1, Appended
  <2>14. \A i \in DOMAIN st'[p].shmem : GoodSegment(st'[p].shmem[i], mems')
    <3>1. k \in DOMAIN mems'
      BY <2>1, <2>7, <1>6, <1>0
    <3>2. GoodSegment(seg, mems')
      BY <2>2, <2>3, <2>7, <3>1 DEF GoodSegment
    <3>3. \A i \in DOMAIN st[p].shmem : GoodSegment(st[p].shmem[i], mems')
      BY <2>12, StillGood, FromItself
    <3> QED
      BY <2>13, <3>2, <3>3
  <2>15. st[p].listening /\ Numbered(st[p].localId, n.id)
    BY <1>1, NumberIs DEF BaseInv, Awake
  <2>16. MainEffect(p)
    BY <1>0, <1>1, <1>4, <2>3, <2>6, <2>7, <2>8, <2>10, <2>11, <2>12, <2>14,
       <2>15 DEF MainEffect
  <2> QED
    BY <2>2, <2>3, <2>4, <2>6, <2>7, <2>8, <2>9, <2>13, <2>16
<1> QED
  BY <1>5, <1>6 DEF Create

LEMMA TableReplaced ==
    ASSUME NEW s \in States, NEW table \in Seq(Segs)
    PROVE  /\ [s EXCEPT !.shmem = table] \in States
           /\ SameSelf(s, [s EXCEPT !.shmem = table])
           /\ [s EXCEPT !.shmem = table].counter = s.counter
           /\ [s EXCEPT !.shmem = table].shmem = table
BY DEF States, SameSelf

LEMMA MappedEffect ==
    ASSUME NEW s \in States, NEW id, NEW t \in Mapped(s, id),
           ashv_find_local_index(s.shmem, id) # {}
    PROVE  /\ t \in States /\ SameSelf(s, t) /\ t.counter = s.counter
           /\ From(t.shmem, s.shmem)
           /\ \A m : Holds(s.shmem, m) => Holds(t.shmem, m)
<1> DEFINE k == First(s.shmem, id)
<1>1. s.shmem \in Seq(Segs) /\ k \in DOMAIN s.shmem
  BY FirstFound DEF States
<1>2. s.shmem[k].addr \in BOOLEAN
  <2>1. s.shmem[k] \in Segs
    BY <1>1
  <2> QED
    BY <2>1 DEF Segs
<1>3. PICK ok \in BOOLEAN :
              t = [s EXCEPT !.shmem[k].addr = s.shmem[k].addr \/ ok]
  BY DEF Mapped
<1> DEFINE b == s.shmem[k].addr \/ ok
           table == [s.shmem EXCEPT ![k].addr = b]
<1>4. b \in BOOLEAN
  BY <1>2
<1>5. t = [s EXCEPT !.shmem = table]
  BY <1>3
<1> HIDE DEF b, k
<1>6. /\ table \in Seq(Segs) /\ From(table, s.shmem)
      /\ \A m : Holds(s.shmem, m) => Holds(table, m)
  BY <1>1, <1>4, Remapped
<1> HIDE DEF table
<1> QED
  BY <1>5, <1>6, TableReplaced

LEMMA ShmatEffect ==
    ASSUME BaseInv, NEW p \in Procs, Shmat(p)
    PROVE  TypeInv' /\ MainEffect(p) /\ Stays(p)
<1>0. /\ TypeInv /\ st[p] \in States /\ call[p] \in Calls
      /\ UNCHANGED <<life, thread, sock, link, mems>>
  BY DEF BaseInv, TypeInv, Typed, Shmat
<1>1. call[p].at = "lock" /\ call[p].op = "at" /\ call[p].id \in Int
  BY <1>0 DEF Shmat, Locked, Calls
<1>2. CASE Ask(p, call[p].id)
  BY <1>0, <1>1, <1>2, AskEffect, FromItself DEF Stays
<1>3. CASE Return(p, st[p]) /\ UNCHANGED <<conn, hist>>
  BY <1>0, <1>1, <1>3, ReturnsSelf, QuietStep, StillCounted, FromItself
     DEF Stays, SameSelf
<1>4. ASSUME ashv_find_local_index(st[p].shmem, call[p].id) # {},
             NEW t \in Mapped(st[p], call[p].id), Return(p, t),
             UNCHANGED <<conn, hist>>
      PROVE  TypeInv' /\ MainEffect(p) /\ Stays(p)
  <2>1. /\ t \in States /\ SameSelf(st[p], t) /\ t.counter = st[p].counter
        /\ From(t.shmem, st[p].shmem)
        /\ \A m : Holds(st[p].shmem, m) => Holds(t.shmem, m)
    BY <1>0, <1>4, MappedEffect
  <2>2. SelfEffect(p) /\ st'[p].shmem = t.shmem
    BY <1>0, <1>4, <2>1, ReturnsSelf
  <2>3. TypeInv' /\ MainEffect(p)
    BY <1>0, <1>1, <1>4, <2>1, <2>2, QuietStep, StillCounted
  <2> QED
    BY <1>0, <2>1, <2>2, <2>3 DEF Stays
<1> QED
  BY <1>2, <1>3, <1>4 DEF Shmat

(* The answer of another process adds a segment that is not marked.        *)
LEMMA ReceiveEffect ==
    ASSUME BaseInv, NEW p \in Procs, Receive(p)
    PROVE  /\ TypeInv' /\ MainEffect(p) /\ mems' = mems
           /\ \A m : Holds(st[p].shmem, m) => Holds(st'[p].shmem, m)
           /\ \A i \in DOMAIN st'[p].shmem : st'[p].shmem[i].marked =>
                 \E j \in DOMAIN st[p].shmem :
                    SameSegment(st'[p].shmem[i], st[p].shmem[j])
<1> DEFINE m == conn[p].mem
           seg == Segment(call[p].id, m, mems[m].key)
           s == Add(st[p], seg)
<1>0. /\ TypeInv /\ st[p] \in States /\ call[p] \in Calls /\ Keyed
      /\ mems \in Seq(Mems) /\ conn \in [Procs -> Sockets]
      /\ UNCHANGED <<life, thread, sock, link, mems>>
      /\ call[p].at = "wait" /\ conn' = [conn EXCEPT ![p] = NoConn]
  BY DEF BaseInv, TypeInv, Typed, Receive
<1>1. call[p].id \in Int /\ (call[p].op = "get" => call[p].key \in Keys)
  BY <1>0 DEF Calls, Keyed
<1>2. CASE /\ Refused(p, call[p].id)
           /\ Misled(p, call[p].id, conn[p].at = "answered")
  <2>1. SelfEffect(p) /\ st'[p].shmem = st[p].shmem
    BY <1>0, <1>1, <1>2, RefusedSelf
  <2>3. Counted
    BY <1>0, <1>2, MisledEffect
  <2>2. TypeInv' /\ MainEffect(p)
    BY <1>0, <2>1, <2>3, QuietStep, FromItself
  <2> QED
    BY <1>0, <2>1, <2>2 DEF SameSegment
<1>3. CASE conn[p].at = "answered" /\ UNCHANGED hist
  <2>1. m \in DOMAIN mems /\ mems[m].id = call[p].id
    BY <1>3 DEF BaseInv, Answered
  <2>2. m \in Nat /\ mems[m].key \in Keys \cup {IPC_PRIVATE}
    <3>1. mems[m] \in Mems
      BY <1>0, <2>1
    <3> QED
      BY <1>0, <2>1, <3>1 DEF Mems
  <2>3. seg \in Segs /\ seg.id = call[p].id /\ seg.mem = m
        /\ seg.key = mems[m].key /\ ~seg.marked
    BY <1>1, <2>2, SegmentType
  <2>4. GoodSegment(seg, mems)
    BY <2>1, <2>3 DEF GoodSegment
  <2> HIDE DEF seg
  <2>5. st[p].shmem \in Seq(Segs)
    BY <1>0 DEF States
  <2>6. /\ Append(st[p].shmem, seg) \in Seq(Segs)
        /\ \A i \in DOMAIN Append(st[p].shmem, seg) :
              \/ i \in DOMAIN st[p].shmem
                 /\ Append(st[p].shmem, seg)[i] = st[p].shmem[i]
              \/ Append(st[p].shmem, seg)[i] = seg
        /\ \A x : Holds(st[p].shmem, x) => Holds(Append(st[p].shmem, seg), x)
    BY <2>3, <2>5, Appended
  <2>7. /\ s \in States /\ SameSelf(st[p], s) /\ s.counter = st[p].counter
        /\ s.shmem = Append(st[p].shmem, seg)
    BY <1>0, <2>6, TableReplaced DEF Add
  <2> HIDE DEF s
  <2>8. ASSUME NEW t \in States, SameSelf(s, t), t.counter = s.counter,
               From(t.shmem, s.shmem), Return(p, t),
               \A x : Holds(s.shmem, x) => Holds(t.shmem, x)
        PROVE  /\ TypeInv' /\ MainEffect(p) /\ mems' = mems
               /\ \A x : Holds(st[p].shmem, x) => Holds(st'[p].shmem, x)
               /\ \A i \in DOMAIN st'[p].shmem : st'[p].shmem[i].marked =>
                     \E j \in DOMAIN st[p].shmem :
                        SameSegment(st'[p].shmem[i], st[p].shmem[j])
    <3>1. SameSelf(st[p], t) /\ t.counter = st[p].counter
      BY <2>7, <2>8 DEF SameSelf
    <3>2. SelfEffect(p) /\ st'[p].shmem = t.shmem
      BY <1>0, <2>8, <3>1, ReturnsSelf
    <3>3. NoConn \in Sockets /\ NoConn.at = "none"
      BY Halves DEF NoConn, Sockets, SocketIds
    <3>4. conn' \in [Procs -> Sockets] /\ conn'[p].at = "none"
          /\ \A q \in Procs \ {p} : conn'[q] = conn[q]
      BY <1>0, <3>3
    <3>5. TypeInv'
      BY <1>0, <1>3, <3>2, <3>4 DEF TypeInv, Typed, SelfEffect
    <3>6. Grows
      BY <1>0 DEF Grows
    <3>7. \A i \in DOMAIN s.shmem : GoodSegment(s.shmem[i], mems)
      BY <2>4, <2>6, <2>7 DEF BaseInv, GoodTables
    <3>8. \A i \in DOMAIN st'[p].shmem : GoodSegment(st'[p].shmem[i], mems')
      BY <1>0, <2>8, <3>2, <3>7 DEF From, SameSegment, GoodSegment
    <3>9. MainEffect(p)
      BY <1>0, <1>3, <3>2, <3>4, <3>6, <3>8 DEF MainEffect, SelfEffect
    <3>10. ASSUME NEW i \in DOMAIN st'[p].shmem, st'[p].shmem[i].marked
           PROVE  \E j \in DOMAIN st[p].shmem :
                     SameSegment(st'[p].shmem[i], st[p].shmem[j])
      <4>1. PICK j \in DOMAIN s.shmem :
                    SameSegment(st'[p].shmem[i], s.shmem[j])
        BY <2>8, <3>2 DEF From
      <4>2. s.shmem[j].marked
        BY <3>10, <4>1 DEF SameSegment
      <4> QED
        BY <2>3, <2>6, <2>7, <4>1, <4>2
    <3> QED
      BY <1>0, <2>6, <2>7, <2>8, <3>2, <3>5, <3>9, <3>10
  <2>9. CASE Return(p, s)
    BY <2>7, <2>8, <2>9, FromItself DEF SameSelf
  <2>10. ASSUME NEW t \in Mapped(s, call[p].id), Return(p, t)
         PROVE  /\ TypeInv' /\ MainEffect(p) /\ mems' = mems
                /\ \A x : Holds(st[p].shmem, x) => Holds(st'[p].shmem, x)
                /\ \A i \in DOMAIN st'[p].shmem : st'[p].shmem[i].marked =>
                      \E j \in DOMAIN st[p].shmem :
                         SameSegment(st'[p].shmem[i], st[p].shmem[j])
    <3>1. Len(s.shmem) \in DOMAIN s.shmem /\ s.shmem[Len(s.shmem)] = seg
      BY <2>3, <2>5, <2>7
    <3>2. ashv_find_local_index(s.shmem, call[p].id) # {}
      BY <2>3, <3>1 DEF ashv_find_local_index
    <3> QED
      BY <2>7, <2>8, <2>10, <3>2, MappedEffect
  <2>11. CASE ~(/\ Refused(p, call[p].id)
               /\ Misled(p, call[p].id, conn[p].at = "answered"))
    BY <1>3, <2>9, <2>10, <2>11 DEF Receive, s, seg
  <2> QED
    BY <1>2, <2>11
<1> QED
  BY <1>2, <1>3 DEF Receive

LEMMA ShmdtEffect ==
    ASSUME BaseInv, NEW p \in Procs, Shmdt(p)
    PROVE  /\ TypeInv' /\ MainEffect(p) /\ mems' = mems
           /\ From(st'[p].shmem, st[p].shmem)
           /\ \A m : Holds(st[p].shmem, m) =>
                 \/ Holds(st'[p].shmem, m)
                 \/ \E i \in DOMAIN st[p].shmem :
                       /\ st[p].shmem[i].mem = m
                       /\ \/ st[p].shmem[i].marked
                          \/ ashv_socket_id_from_shmid(st[p].shmem[i].id)
                                # st[p].localId
<1> DEFINE s == st[p]
<1>0. /\ TypeInv /\ s \in States /\ s.shmem \in Seq(Segs)
      /\ UNCHANGED <<life, thread, conn, sock, link, mems, hist>>
      /\ call[p].at = "lock"
  BY DEF BaseInv, TypeInv, Typed, States, Shmdt, Locked
<1>1. ASSUME NEW t \in States, SameSelf(s, t), t.counter = s.counter,
             From(t.shmem, s.shmem), Return(p, t)
      PROVE  TypeInv' /\ MainEffect(p) /\ st'[p].shmem = t.shmem
  <2>1. SelfEffect(p) /\ st'[p].shmem = t.shmem
    BY <1>0, <1>1, ReturnsSelf
  <2> QED
    BY <1>0, <1>1, <2>1, QuietStep, StillCounted
<1>2. ASSUME NEW table \in Seq(Segs), From(table, s.shmem),
             Return(p, [s EXCEPT !.shmem = table])
      PROVE  TypeInv' /\ MainEffect(p) /\ st'[p].shmem = table
  <2> DEFINE t == [s EXCEPT !.shmem = table]
  <2>1. t \in States /\ SameSelf(s, t) /\ t.counter = s.counter
        /\ t.shmem = table
    BY <1>0, TableReplaced
  <2>2. Return(p, t)
    BY <1>2
  <2> HIDE DEF t, s
  <2> QED
    BY <1>1, <1>2, <2>1, <2>2
<1>3. ASSUME NEW i \in DOMAIN s.shmem,
             \/ s.shmem[i].marked
             \/ ashv_socket_id_from_shmid(s.shmem[i].id) # s.localId,
             Return(p, [s EXCEPT !.shmem = android_shmem_delete(s.shmem, i)])
      PROVE  /\ TypeInv' /\ MainEffect(p) /\ From(st'[p].shmem, s.shmem)
             /\ \A m : Holds(s.shmem, m) =>
                   Holds(st'[p].shmem, m) \/ s.shmem[i].mem = m
  <2> DEFINE table == android_shmem_delete(s.shmem, i)
  <2>1. /\ table \in Seq(Segs) /\ From(table, s.shmem)
        /\ \A m : Holds(s.shmem, m) /\ s.shmem[i].mem # m => Holds(table, m)
    BY <1>0, Deleted DEF android_shmem_delete
  <2>2. Return(p, [s EXCEPT !.shmem = table])
    BY <1>3
  <2> HIDE DEF table, s
  <2>3. /\ TypeInv' /\ MainEffect(p) /\ st'[p].shmem = table
    BY <1>2, <2>1, <2>2
  <2> QED
    BY <2>1, <2>3
<1>4. ASSUME NEW i \in DOMAIN s.shmem,
             Return(p, [s EXCEPT !.shmem[i].addr = FALSE])
      PROVE  /\ TypeInv' /\ MainEffect(p) /\ From(st'[p].shmem, s.shmem)
             /\ \A m : Holds(s.shmem, m) => Holds(st'[p].shmem, m)
  <2> DEFINE table == [s.shmem EXCEPT ![i].addr = FALSE]
  <2>1. /\ table \in Seq(Segs) /\ From(table, s.shmem)
        /\ \A m : Holds(s.shmem, m) => Holds(table, m)
    BY <1>0, Remapped
  <2>2. Return(p, [s EXCEPT !.shmem = table])
    BY <1>4
  <2> HIDE DEF table, s
  <2>3. /\ TypeInv' /\ MainEffect(p) /\ st'[p].shmem = table
    BY <1>2, <2>1, <2>2
  <2> QED
    BY <2>1, <2>3
<1>5. \/ Return(p, s)
      \/ \E i \in DOMAIN s.shmem :
            IF s.shmem[i].marked
               \/ ashv_socket_id_from_shmid(s.shmem[i].id) # s.localId
            THEN Return(p, [s EXCEPT !.shmem =
                                        android_shmem_delete(s.shmem, i)])
            ELSE Return(p, [s EXCEPT !.shmem[i].addr = FALSE])
  BY DEF Shmdt, ashv_find_local_index
<1>6. CASE Return(p, s)
  BY <1>0, <1>1, <1>6, FromItself DEF SameSelf
<1>7. CASE ~Return(p, s)
  <2>1. PICK i \in DOMAIN s.shmem :
               IF s.shmem[i].marked
                  \/ ashv_socket_id_from_shmid(s.shmem[i].id) # s.localId
               THEN Return(p, [s EXCEPT !.shmem =
                                           android_shmem_delete(s.shmem, i)])
               ELSE Return(p, [s EXCEPT !.shmem[i].addr = FALSE])
    BY <1>5, <1>7
  <2>2. CASE \/ s.shmem[i].marked
             \/ ashv_socket_id_from_shmid(s.shmem[i].id) # s.localId
    BY <1>0, <1>3, <2>1, <2>2
  <2>3. CASE ~(\/ s.shmem[i].marked
               \/ ashv_socket_id_from_shmid(s.shmem[i].id) # s.localId)
    BY <1>0, <1>4, <2>1, <2>3
  <2> QED
    BY <2>2, <2>3
<1> QED
  BY <1>6, <1>7

LEMMA ShmctlEffect ==
    ASSUME BaseInv, NEW p \in Procs, Shmctl(p)
    PROVE  /\ TypeInv' /\ MainEffect(p) /\ DOMAIN mems' = DOMAIN mems
           /\ \A m \in DOMAIN mems : mems[m].by = p /\ Holds(st[p].shmem, m) =>
                 Holds(st'[p].shmem, m) \/ mems'[m].removed
           /\ \A i \in DOMAIN st'[p].shmem :
                 \/ \E j \in DOMAIN st[p].shmem :
                       SameSegment(st'[p].shmem[i], st[p].shmem[j])
                 \/ mems[st'[p].shmem[i].mem].by = p
                       => mems'[st'[p].shmem[i].mem].removed
           /\ \A m \in DOMAIN mems : mems'[m] = mems[m] \/ mems[m].by = p
<1> DEFINE s == st[p]
           i == First(s.shmem, call[p].id)
           k == s.shmem[i].mem
<1>0. /\ TypeInv /\ s \in States /\ s.shmem \in Seq(Segs)
      /\ mems \in Seq(Mems)
      /\ UNCHANGED <<life, thread, conn, sock, link, hist>>
      /\ call[p].at = "lock"
  BY DEF BaseInv, TypeInv, Typed, States, Shmctl, Locked
<1>1. CASE Return(p, s) /\ UNCHANGED mems
  <2>1. SelfEffect(p) /\ st'[p].shmem = s.shmem
    BY <1>0, <1>1, ReturnsSelf DEF SameSelf
  <2>2. TypeInv' /\ MainEffect(p)
    BY <1>0, <1>1, <2>1, QuietStep, StillCounted, FromItself
  <2> QED
    BY <1>1, <2>1, <2>2 DEF SameSegment
<1>2. CASE ~(Return(p, s) /\ UNCHANGED mems)
  <2>1. /\ ashv_find_local_index(s.shmem, call[p].id) # {}
        /\ Return(p, IF s.shmem[i].addr
                     THEN [s EXCEPT !.shmem[i].marked = TRUE]
                     ELSE [s EXCEPT !.shmem =
                                       android_shmem_delete(s.shmem, i)])
        /\ mems' = [mems EXCEPT ![k].removed =
                                   mems[k].removed \/ mems[k].by = p]
    BY <1>2 DEF Shmctl
  <2>2. i \in DOMAIN s.shmem /\ i \in 1..Len(s.shmem)
    BY <1>0, <2>1, FirstFound
  <2>3. k \in DOMAIN mems /\ mems[k] \in Mems
    BY <1>0, <2>2 DEF BaseInv, GoodTables, GoodSegment
  <2> DEFINE r == mems[k].removed \/ mems[k].by = p
             new == [mems[k] EXCEPT !.removed = r]
  <2>4. r \in BOOLEAN
    BY <2>3 DEF Mems
  <2>5. mems' = [mems EXCEPT ![k] = new]
    BY <2>1
  <2> HIDE DEF i, k
  <2>6. new \in Mems /\ new.id = mems[k].id /\ new.key = mems[k].key
        /\ new.by = mems[k].by /\ new.removed = r
    <3> HIDE DEF r
    <3> QED
      BY <2>3, <2>4 DEF Mems
  <2> HIDE DEF new
  <2>7. /\ mems' \in Seq(Mems) /\ DOMAIN mems' = DOMAIN mems
        /\ mems'[k] = new /\ \A m \in DOMAIN mems \ {k} : mems'[m] = mems[m]
    BY <1>0, <2>3, <2>5, <2>6
  <2>8. Grows
    <3> SUFFICES ASSUME NEW m \in DOMAIN mems
                 PROVE  /\ m \in DOMAIN mems'
                        /\ mems'[m].id = mems[m].id
                        /\ mems'[m].key = mems[m].key
                        /\ mems'[m].by = mems[m].by
                        /\ mems[m].removed => mems'[m].removed
      BY DEF Grows
    <3>1. CASE m = k
      BY <2>6, <2>7, <3>1
    <3>2. CASE m # k
      BY <2>7, <3>2
    <3> QED
      BY <3>1, <3>2
  <2>9. PICK table \in Seq(Segs) :
               /\ Return(p, [s EXCEPT !.shmem = table])
               /\ \A m : Holds(s.shmem, m) => Holds(table, m) \/ m = k
               /\ \A j \in DOMAIN table :
                     \/ \E l \in DOMAIN s.shmem :
                           SameSegment(table[j], s.shmem[l])
                     \/ /\ table[j].mem = k /\ table[j].id = s.shmem[i].id
                        /\ table[j].key = s.shmem[i].key
    <3>1. CASE s.shmem[i].addr
      <4> DEFINE seg == [s.shmem[i] EXCEPT !.marked = TRUE]
                 tab == [s.shmem EXCEPT ![i] = seg]
      <4>1. s.shmem[i] \in Segs
        BY <1>0, <2>2
      <4>2. seg \in Segs /\ seg.mem = k /\ seg.id = s.shmem[i].id
            /\ seg.key = s.shmem[i].key
        BY <4>1 DEF Segs, k
      <4>3. Return(p, [s EXCEPT !.shmem = tab])
        BY <2>1, <3>1
      <4> HIDE DEF seg
      <4>4. tab \in Seq(Segs) /\ DOMAIN tab = DOMAIN s.shmem /\ tab[i] = seg
            /\ \A j \in DOMAIN s.shmem \ {i} : tab[j] = s.shmem[j]
        BY <1>0, <2>2, <4>2
      <4> HIDE DEF tab
      <4>5. \A m : Holds(s.shmem, m) => Holds(tab, m) \/ m = k
        BY <4>4 DEF Holds, k
      <4>6. \A j \in DOMAIN tab :
               \/ \E l \in DOMAIN s.shmem : SameSegment(tab[j], s.shmem[l])
               \/ /\ tab[j].mem = k /\ tab[j].id = s.shmem[i].id
                  /\ tab[j].key = s.shmem[i].key
        BY <4>2, <4>4 DEF SameSegment
      <4> QED
        BY <4>3, <4>4, <4>5, <4>6
    <3>2. CASE ~s.shmem[i].addr
      <4> DEFINE tab == android_shmem_delete(s.shmem, i)
      <4>1. Return(p, [s EXCEPT !.shmem = tab])
        BY <2>1, <3>2
      <4>2. /\ tab \in Seq(Segs) /\ From(tab, s.shmem)
            /\ \A m : Holds(s.shmem, m) /\ s.shmem[i].mem # m => Holds(tab, m)
        BY <1>0, <2>2, Deleted DEF android_shmem_delete
      <4> HIDE DEF tab
      <4> QED
        BY <4>1, <4>2 DEF From, k
    <3> QED
      BY <3>1, <3>2
  <2>10. SelfEffect(p) /\ st'[p].shmem = table
    <3> DEFINE t == [s EXCEPT !.shmem = table]
    <3>1. t \in States /\ SameSelf(s, t) /\ t.counter = s.counter
          /\ t.shmem = table
      BY <1>0, TableReplaced
    <3>2. Return(p, t)
      BY <2>9
    <3> HIDE DEF t
    <3> QED
      BY <1>0, <3>1, <3>2, ReturnsSelf
  <2>11. TypeInv'
    BY <1>0, <2>7, <2>10 DEF TypeInv, Typed, SelfEffect
  <2>12. \A j \in DOMAIN table : GoodSegment(table[j], mems')
    <3> SUFFICES ASSUME NEW j \in DOMAIN table
                 PROVE  GoodSegment(table[j], mems')
      OBVIOUS
    <3>1. \A l \in DOMAIN s.shmem : GoodSegment(s.shmem[l], mems')
      BY <2>8, StillGood, FromItself
    <3> QED
      BY <2>2, <2>9, <3>1 DEF SameSegment, GoodSegment, k
  <2>13. conn[p].at = "none"
    BY <1>0 DEF BaseInv, Answered
  <2>14. MainEffect(p)
    BY <1>0, <2>7, <2>8, <2>10, <2>12, <2>13 DEF MainEffect, SelfEffect
  <2>15. mems[k].by = p => mems'[k].removed
    BY <2>6, <2>7
  <2>16. \A m \in DOMAIN mems : mems'[m] = mems[m] \/ mems[m].by = p
    <3> SUFFICES ASSUME mems[k].by # p PROVE mems'[k] = mems[k]
      BY <2>7
    <3>1. r = mems[k].removed
      BY <2>3 DEF Mems
    <3> QED
      BY <2>3, <2>6, <2>7, <3>1 DEF Mems, new
  <2> QED
    BY <2>7, <2>9, <2>10, <2>11, <2>14, <2>15, <2>16
<1> QED
  BY <1>1, <1>2

-----------------------------------------------------------------------------
(* The beginning of a call, as far as the invariants tell.                 *)
BeginEffect(p) ==
    /\ UNCHANGED <<life, conn, link, mems>>
    /\ \A q \in Procs \ {p} :
          st'[q] = st[q] /\ call'[q] = call[q] /\ thread'[q] = thread[q]
    /\ life[p] = "alive" /\ call[p] = Idle /\ hist.calls < MaxCalls
    /\ hist'.calls = hist.calls + 1
    /\ call'[p].at = "lock" /\ call'[p].new = -1
    /\ call'[p].op = "get" => st'[p].listening
    /\ st'[p].setup = p /\ st'[p].counter = st[p].counter
    /\ st[p].setup = p => st'[p].shmem = st[p].shmem
    /\ st'[p].shmem \in {<<>>, st[p].shmem}
    /\ \A s \in SocketIds : sock[s].holders # {} => sock'[s] = sock[s]
    /\ \/ SameSelf(ashv_check_pid(st[p], p), st'[p]) /\ UNCHANGED sock
       \/ /\ ~ashv_check_pid(st[p], p).listening
          /\ st'[p].listening
          /\ sock'[st'[p].localId] = [by |-> p, holders |-> {p}]
          /\ \E i \in 0..(Tries - 1) : st'[p].localId = (p + i) % HalfWord

LEMMA BeginKeepsBase ==
    ASSUME BaseInv, NEW p \in Procs, BeginEffect(p), TypeInv' PROVE BaseInv'
<1> DEFINE s == ashv_check_pid(st[p], p)
<1>0. /\ p # 0 /\ st[p] \in States /\ life[p] = "alive"
      /\ call[p].at = "idle"
  BY SharedMemoryAssumption DEF BaseInv, TypeInv, Typed, BeginEffect, Idle
<1>1. /\ s.setup = p /\ (st[p].setup = p => s = st[p])
      /\ st[p].setup # p => ~s.listening
  BY <1>0, CheckedType DEF BaseInv, Awake
<1> HIDE DEF s
<1>2. Awake'
  <2> SUFFICES ASSUME NEW q \in Procs
               PROVE  /\ life'[q] # "alive" => /\ st'[q] = NoState
                                               /\ call'[q] = Idle
                                               /\ thread'[q] = NoThread
                      /\ call'[q].at # "idle" \/ thread'[q].at # "none"
                            => st'[q].setup = q
                      /\ call'[q].at = "idle" =>
                            call'[q].op = "none" /\ call'[q].new = -1
                      /\ call'[q].op = "get" => st'[q].listening
                      /\ st'[q].setup # 0 => life'[st'[q].setup] # "unborn"
                      /\ st'[q].setup = 0 => ~st'[q].listening
    BY DEF Awake
  <2>1. CASE q = p
    BY <1>0, <2>1 DEF BeginEffect
  <2>2. CASE q # p
    BY <2>2 DEF BeginEffect, BaseInv, Awake
  <2> QED
    BY <2>1, <2>2
<1>3. OwnSocket'
  <2> SUFFICES ASSUME NEW q \in Procs, st'[q].setup = q, st'[q].listening
               PROVE  /\ sock'[st'[q].localId].by = q
                      /\ q \in sock'[st'[q].localId].holders
    BY DEF OwnSocket
  <2>1. CASE q # p
    <3>1. st'[q] = st[q] /\ st[q].localId \in SocketIds
      BY <2>1 DEF BeginEffect, BaseInv, TypeInv, Typed, States
    <3>2. sock[st[q].localId].by = q /\ q \in sock[st[q].localId].holders
      BY <3>1 DEF BaseInv, OwnSocket
    <3> QED
      BY <3>1, <3>2 DEF BeginEffect
  <2>2. CASE q = p /\ SameSelf(s, st'[p]) /\ UNCHANGED sock
    BY <1>1, <2>2 DEF SameSelf, BaseInv, OwnSocket
  <2>3. CASE q = p /\ sock'[st'[p].localId] = [by |-> p, holders |-> {p}]
    BY <2>3
  <2> QED
    BY <2>1, <2>2, <2>3 DEF BeginEffect, s
<1>4. Answered'
  <2> SUFFICES ASSUME NEW q \in Procs
               PROVE  /\ conn'[q].at # "none" => call'[q].at = "wait"
                      /\ conn'[q].at = "answered" =>
                            /\ conn'[q].mem \in DOMAIN mems'
                            /\ mems'[conn'[q].mem].id = call'[q].id
    BY DEF Answered
  <2>1. CASE q = p
    BY <1>0, <2>1 DEF BeginEffect, BaseInv, Answered
  <2>2. CASE q # p
    BY <2>2 DEF BeginEffect, BaseInv, Answered
  <2> QED
    BY <2>1, <2>2
<1>5. GoodTables'
  <2> SUFFICES ASSUME NEW q \in Procs, NEW i \in DOMAIN st'[q].shmem
               PROVE  GoodSegment(st'[q].shmem[i], mems')
    BY DEF GoodTables
  <2>1. CASE st'[q].shmem = <<>>
    BY <2>1
  <2>2. CASE st'[q].shmem = st[q].shmem
    BY <2>2 DEF BeginEffect, BaseInv, GoodTables
  <2> QED
    BY <2>1, <2>2 DEF BeginEffect
<1>6. Created'
  <2>1. ASSUME NEW m \in DOMAIN mems
        PROVE  /\ life'[mems[m].by] # "unborn"
               /\ life'[mems[m].by] = "alive" =>
                     /\ st'[mems[m].by].setup = mems[m].by
                     /\ st'[mems[m].by].listening
                     /\ Numbered(st'[mems[m].by].localId, mems[m].id)
    <3>1. mems[m].by \in Procs
      BY MemType DEF BaseInv
    <3>2. CASE mems[m].by # p
      BY <3>1, <3>2 DEF BeginEffect, BaseInv, Created
    <3>3. CASE mems[m].by = p
      <4>1. st[p].setup = p /\ st[p].listening
            /\ Numbered(st[p].localId, mems[m].id)
        BY <1>0, <3>3 DEF BaseInv, Created
      <4>2. SameSelf(st[p], st'[p])
        BY <1>1, <4>1 DEF BeginEffect, s
      <4> QED
        BY <1>0, <3>3, <4>1, <4>2 DEF BeginEffect, SameSelf
    <3> QED
      BY <3>2, <3>3
  <2>2. \A q \in Procs : call'[q].new # -1
                            => Numbered(st'[q].localId, call'[q].new)
    BY DEF BeginEffect, BaseInv, Created
  <2>3. mems' = mems
    BY DEF BeginEffect
  <2> QED
    BY <2>1, <2>2, <2>3 DEF Created
<1> QED
  BY <1>2, <1>3, <1>4, <1>5, <1>6 DEF BaseInv

LEMMA OtherCallEffect ==
    ASSUME BaseInv, NEW p \in Procs, OtherCall(p)
    PROVE  TypeInv' /\ BeginEffect(p)
<1> DEFINE s == ashv_check_pid(st[p], p)
<1>0. /\ TypeInv /\ st \in [Procs -> States] /\ st[p] \in States
      /\ UNCHANGED <<life, thread, conn, sock, link, mems>>
      /\ st' = [st EXCEPT ![p] = s]
  BY DEF BaseInv, TypeInv, Typed, OtherCall
<1>1. PICK op \in {"at", "rm", "dt"}, id \in Int :
              Begin(p, op, IPC_PRIVATE, id)
  <2>1. \A m \in DOMAIN mems : mems[m].id \in Int
    BY <1>0, MemType
  <2>2. \A seg \in Range(st[p].shmem) : seg.id \in Int
    <3>1. st[p].shmem \in Seq(Segs)
      BY <1>0 DEF States
    <3>2. \A seg \in Range(st[p].shmem) : seg \in Segs
      BY <3>1 DEF Range
    <3> QED
      BY <3>2 DEF Segs
  <2> QED
    BY <2>1, <2>2 DEF OtherCall
<1>2. /\ call' \in [Procs -> Calls] /\ Keyed'
      /\ hist' \in [calls : Nat, misled : BOOLEAN]
      /\ \A q \in Procs \ {p} : call'[q] = call[q]
      /\ call'[p].at = "lock" /\ call'[p].op = op /\ call'[p].new = -1
      /\ hist'.calls = hist.calls + 1
      /\ life[p] = "alive" /\ call[p] = Idle /\ hist.calls < MaxCalls
  <2>1. /\ op \in {"get", "at", "dt", "rm"}
        /\ IPC_PRIVATE \in Keys \cup {IPC_PRIVATE}
    OBVIOUS
  <2> QED
    BY <1>0, <1>1, <2>1, BeginTypes, Zenon
<1>3. /\ s \in States /\ s.setup = p /\ s.counter = st[p].counter
      /\ st[p].setup = p => s = st[p]
      /\ s.shmem \in {<<>>, st[p].shmem}
  BY <1>0, CheckedType
<1> HIDE DEF s
<1>4. st' \in [Procs -> States] /\ st'[p] = s
      /\ \A q \in Procs \ {p} : st'[q] = st[q]
  BY <1>0, <1>3
<1>5. TypeInv'
  BY <1>0, <1>2, <1>4 DEF TypeInv, Typed
<1>6. SameSelf(s, st'[p])
  BY <1>4 DEF SameSelf
<1> QED
  BY <1>0, <1>1, <1>2, <1>3, <1>4, <1>5, <1>6 DEF BeginEffect, s

LEMMA ShmgetEffect ==
    ASSUME BaseInv, NEW p \in Procs, ShmgetStep(p)
    PROVE  TypeInv' /\ BeginEffect(p)
<1> DEFINE s == ashv_check_pid(st[p], p)
<1>0. /\ TypeInv /\ st \in [Procs -> States] /\ st[p] \in States
      /\ thread \in [Procs -> Threads]
      /\ sock \in [SocketIds -> [by : Procs \cup {0}, holders : SUBSET Procs]]
      /\ UNCHANGED <<life, conn, link, mems>>
  BY DEF BaseInv, TypeInv, Typed, ShmgetStep
<1>1. PICK k \in Keys \cup {IPC_PRIVATE} : shmget(p, k)
  BY DEF ShmgetStep
<1>2. /\ call' \in [Procs -> Calls] /\ Keyed'
      /\ hist' \in [calls : Nat, misled : BOOLEAN]
      /\ \A q \in Procs \ {p} : call'[q] = call[q]
      /\ call'[p].at = "lock" /\ call'[p].op = "get" /\ call'[p].new = -1
      /\ hist'.calls = hist.calls + 1
      /\ life[p] = "alive" /\ call[p] = Idle /\ hist.calls < MaxCalls
  <2>1. Begin(p, "get", k, 0)
    BY <1>1 DEF shmget
  <2>2. "get" \in {"get", "at", "dt", "rm"} /\ 0 \in Int
    OBVIOUS
  <2> QED
    BY <1>0, <2>1, <2>2, BeginTypes, Zenon
<1>3. /\ s \in States /\ s.setup = p /\ s.counter = st[p].counter
      /\ st[p].setup = p => s = st[p]
      /\ s.shmem \in {<<>>, st[p].shmem}
  BY <1>0, CheckedType
<1>4. CASE s.listening /\ st' = [st EXCEPT ![p] = s]
           /\ UNCHANGED <<sock, thread>>
  <2> HIDE DEF s
  <2>1. st' \in [Procs -> States] /\ st'[p] = s
        /\ \A q \in Procs \ {p} : st'[q] = st[q]
    BY <1>0, <1>3, <1>4
  <2>2. TypeInv'
    BY <1>0, <1>2, <1>4, <2>1 DEF TypeInv, Typed
  <2>3. SameSelf(s, st'[p])
    BY <2>1 DEF SameSelf
  <2> QED
    BY <1>0, <1>2, <1>3, <1>4, <2>1, <2>2, <2>3 DEF BeginEffect, s
<1>5. CASE ~(s.listening /\ st' = [st EXCEPT ![p] = s]
             /\ UNCHANGED <<sock, thread>>)
  <2>1. ~s.listening /\ thread' = [thread EXCEPT ![p] = Accepting]
    BY <1>1, <1>5 DEF shmget
  <2>2. PICK i \in 0..(Tries - 1) :
               /\ sock[(p + i) % HalfWord].holders = {}
               /\ st' = [st EXCEPT ![p] =
                           [s EXCEPT !.localId = (p + i) % HalfWord,
                                     !.listening = TRUE]]
               /\ sock' = [sock EXCEPT ![(p + i) % HalfWord] =
                             [by |-> p, holders |-> {p}]]
    BY <1>1, <1>5 DEF shmget
  <2> HIDE DEF s
  <2> DEFINE l == (p + i) % HalfWord
             t == [s EXCEPT !.localId = l, !.listening = TRUE]
  <2>3. l \in SocketIds
    <3>1. p \in Nat /\ i \in Nat
      BY <2>2, SharedMemoryAssumption
    <3> QED
      BY <3>1, Halves DEF SocketIds
  <2>4. /\ st' = [st EXCEPT ![p] = t]
        /\ sock' = [sock EXCEPT ![l] = [by |-> p, holders |-> {p}]]
        /\ sock[l].holders = {} /\ \E j \in 0..(Tries - 1) :
                                      l = (p + j) % HalfWord
    BY <2>2
  <2> HIDE DEF l
  <2>5. /\ t \in States /\ t.setup = p /\ t.counter = s.counter
        /\ t.shmem = s.shmem /\ t.listening /\ t.localId = l
    BY <1>3, <2>3 DEF States
  <2> HIDE DEF t
  <2>6. st' \in [Procs -> States] /\ st'[p] = t
        /\ \A q \in Procs \ {p} : st'[q] = st[q]
    BY <1>0, <2>4, <2>5
  <2>7. /\ sock' \in [SocketIds -> [by : Procs \cup {0},
                                    holders : SUBSET Procs]]
        /\ sock'[l] = [by |-> p, holders |-> {p}]
        /\ \A x \in SocketIds : sock[x].holders # {} => sock'[x] = sock[x]
    <3>1. [by |-> p, holders |-> {p}] \in
             [by : Procs \cup {0}, holders : SUBSET Procs]
      OBVIOUS
    <3> QED
      BY <1>0, <2>3, <2>4, <3>1
  <2>8. thread' \in [Procs -> Threads]
        /\ \A q \in Procs \ {p} : thread'[q] = thread[q]
    <3>1. Accepting \in Threads
      BY DEF Accepting, Threads
    <3> QED
      BY <1>0, <2>1, <3>1
  <2>9. TypeInv'
    BY <1>0, <1>2, <2>6, <2>7, <2>8 DEF TypeInv, Typed
  <2> QED
    BY <1>0, <1>2, <1>3, <2>1, <2>4, <2>5, <2>6, <2>7, <2>8, <2>9
       DEF BeginEffect, s
<1> QED
  BY <1>4, <1>5

-----------------------------------------------------------------------------
(* A step of the answering thread.                                         *)
ThreadEffect(p) ==
    /\ UNCHANGED <<life, call, sock, link, mems, hist>>
    /\ thread[p].at # "none"
    /\ \A q \in Procs \ {p} : st'[q] = st[q] /\ thread'[q] = thread[q]
    /\ SameSelf(st[p], st'[p])
    /\ st'[p].counter = st[p].counter /\ st'[p].shmem = st[p].shmem
    /\ \A c \in Procs :
          /\ conn'[c].at # "none" => conn[c].at # "none"
          /\ conn'[c].at = "answered" =>
                \/ conn[c].at = "answered" /\ conn'[c].mem = conn[c].mem
                \/ /\ conn'[c].mem \in DOMAIN mems
                   /\ mems[conn'[c].mem].id = call[c].id

LEMMA ThreadKeepsBase ==
    ASSUME BaseInv, NEW p \in Procs, ThreadEffect(p), TypeInv' PROVE BaseInv'
<1>1. Awake'
  <2> SUFFICES ASSUME NEW q \in Procs
               PROVE  /\ life'[q] # "alive" => /\ st'[q] = NoState
                                               /\ call'[q] = Idle
                                               /\ thread'[q] = NoThread
                      /\ call'[q].at # "idle" \/ thread'[q].at # "none"
                            => st'[q].setup = q
                      /\ call'[q].at = "idle" =>
                            call'[q].op = "none" /\ call'[q].new = -1
                      /\ call'[q].op = "get" => st'[q].listening
                      /\ st'[q].setup # 0 => life'[st'[q].setup] # "unborn"
                      /\ st'[q].setup = 0 => ~st'[q].listening
    BY DEF Awake
  <2>1. CASE q = p
    <3>1. life[p] = "alive"
      BY DEF ThreadEffect, BaseInv, Awake, NoThread
    <3> QED
      BY <2>1, <3>1 DEF ThreadEffect, SameSelf, BaseInv, Awake
  <2>2. CASE q # p
    BY <2>2 DEF ThreadEffect, BaseInv, Awake
  <2> QED
    BY <2>1, <2>2
<1>2. OwnSocket'
  BY DEF ThreadEffect, SameSelf, BaseInv, OwnSocket
<1>3. Answered'
  BY DEF ThreadEffect, BaseInv, Answered
<1>4. \A q \in Procs : st'[q].shmem = st[q].shmem /\ SameSelf(st[q], st'[q])
  BY DEF ThreadEffect, SameSelf
<1>5. GoodTables'
  BY <1>4 DEF ThreadEffect, BaseInv, GoodTables
<1>6. Created'
  <2>1. \A m \in DOMAIN mems : mems[m].by \in Procs
    BY MemType DEF BaseInv
  <2> QED
    BY <1>4, <2>1 DEF ThreadEffect, SameSelf, BaseInv, Created
<1> QED
  BY <1>1, <1>2, <1>3, <1>5, <1>6 DEF BaseInv

LEMMA MutexReplaced ==
    ASSUME TypeInv, NEW p \in Procs, NEW x \in {"free", "main", "thread"},
           st' = [st EXCEPT ![p].mutex = x]
    PROVE  /\ st' \in [Procs -> States]
           /\ \A q \in Procs \ {p} : st'[q] = st[q]
           /\ SameSelf(st[p], st'[p])
           /\ st'[p].counter = st[p].counter /\ st'[p].shmem = st[p].shmem
<1>1. st \in [Procs -> States] /\ st[p] \in States
  BY DEF TypeInv, Typed
<1> DEFINE t == [st[p] EXCEPT !.mutex = x]
<1>2. /\ t \in States /\ SameSelf(st[p], t)
      /\ t.counter = st[p].counter /\ t.shmem = st[p].shmem
  BY <1>1 DEF States, SameSelf
<1>3. st' = [st EXCEPT ![p] = t]
  OBVIOUS
<1> HIDE DEF t
<1> QED
  BY <1>1, <1>2, <1>3

LEMMA AcceptEffect ==
    ASSUME BaseInv, NEW p \in Procs, NEW c \in Procs, Accept(p, c)
    PROVE  TypeInv' /\ ThreadEffect(p)
<1>0. /\ TypeInv /\ conn \in [Procs -> Sockets] /\ conn[c] \in Sockets
      /\ thread \in [Procs -> Threads] /\ conn[c].at = "queued"
      /\ thread[p].at = "accept"
      /\ UNCHANGED <<life, st, call, sock, link, mems, hist>>
  BY DEF BaseInv, TypeInv, Typed, Accept
<1> DEFINE k == [conn[c] EXCEPT !.at = "accepted", !.holders = {p}]
           t == [at |-> "lock", for |-> c]
<1>1. k \in Sockets /\ k.at = "accepted"
  BY <1>0 DEF Sockets
<1>2. conn' = [conn EXCEPT ![c] = k] /\ thread' = [thread EXCEPT ![p] = t]
  BY DEF Accept
<1>3. t \in Threads
  BY DEF Threads
<1> HIDE DEF k, t
<1>4. /\ conn' \in [Procs -> Sockets] /\ conn'[c] = k
      /\ \A q \in Procs \ {c} : conn'[q] = conn[q]
      /\ thread' \in [Procs -> Threads]
      /\ \A q \in Procs \ {p} : thread'[q] = thread[q]
  BY <1>0, <1>1, <1>2, <1>3
<1>5. TypeInv'
  BY <1>0, <1>4 DEF TypeInv, Typed, Keyed
<1> QED
  BY <1>0, <1>1, <1>4, <1>5 DEF ThreadEffect, SameSelf

LEMMA ThreadLocksEffect ==
    ASSUME BaseInv, NEW p \in Procs, ThreadLocks(p)
    PROVE  TypeInv' /\ ThreadEffect(p)
<1>0. /\ TypeInv /\ thread \in [Procs -> Threads] /\ thread[p] \in Threads
      /\ thread[p].at = "lock"
      /\ UNCHANGED <<life, call, conn, sock, link, mems, hist>>
  BY DEF BaseInv, TypeInv, Typed, ThreadLocks
<1> DEFINE t == [thread[p] EXCEPT !.at = "answer"]
<1>1. t \in Threads /\ thread' = [thread EXCEPT ![p] = t]
  BY <1>0 DEF Threads, ThreadLocks
<1> HIDE DEF t
<1>2. thread' \in [Procs -> Threads]
      /\ \A q \in Procs \ {p} : thread'[q] = thread[q]
  BY <1>0, <1>1
<1>3. /\ st' \in [Procs -> States]
      /\ \A q \in Procs \ {p} : st'[q] = st[q]
      /\ SameSelf(st[p], st'[p])
      /\ st'[p].counter = st[p].counter /\ st'[p].shmem = st[p].shmem
  BY <1>0, MutexReplaced DEF ThreadLocks
<1>4. TypeInv'
  BY <1>0, <1>2, <1>3 DEF TypeInv, Typed, Keyed
<1> QED
  BY <1>0, <1>2, <1>3, <1>4 DEF ThreadEffect

LEMMA LetGoType ==
    ASSUME NEW c \in Sockets, NEW p \in Procs
    PROVE  /\ LetGo(c, p) \in Sockets
           /\ LetGo(c, p).at # "none" => c.at # "none"
           /\ LetGo(c, p).at = "answered" =>
                 c.at = "answered" /\ LetGo(c, p).mem = c.mem
<1> DEFINE rest == c.holders \ {p}
           a == [c EXCEPT !.at = "closed", !.holders = {}]
           b == [c EXCEPT !.holders = rest]
<1>1. rest \in SUBSET Procs
  BY DEF Sockets
<1>2. a \in Sockets /\ a.at = "closed"
  BY DEF Sockets
<1>3. b \in Sockets /\ b.at = c.at /\ b.mem = c.mem
  <2> HIDE DEF rest
  <2> QED
    BY <1>1 DEF Sockets
<1>4. (LetGo(c, p) = a /\ c.at = "accepted") \/ LetGo(c, p) = b
  BY DEF LetGo
<1> QED
  BY <1>2, <1>3, <1>4

LEMMA AnswerEffect ==
    ASSUME BaseInv, NEW p \in Procs, Answer(p)
    PROVE  TypeInv' /\ ThreadEffect(p)
<1> DEFINE c == thread[p].for
           found == ashv_find_local_index(st[p].shmem, call[c].id)
           d == Descriptor(st[p].shmem, call[c].id)
           k == [NoConn EXCEPT !.at = "answered", !.mem = d]
<1>0. /\ TypeInv /\ thread \in [Procs -> Threads] /\ st[p] \in States
      /\ thread[p].at = "answer" /\ conn \in [Procs -> Sockets]
      /\ UNCHANGED <<life, call, sock, link, mems, hist>>
      /\ mems \in Seq(Mems) /\ st[p].shmem \in Seq(Segs)
      /\ thread' = [thread EXCEPT ![p] = Accepting]
  BY DEF BaseInv, TypeInv, Typed, States, Answer
<1>1. thread' \in [Procs -> Threads]
      /\ \A q \in Procs \ {p} : thread'[q] = thread[q]
  <2>1. Accepting \in Threads
    BY DEF Accepting, Threads
  <2> QED
    BY <1>0, <2>1
<1>2. /\ st' \in [Procs -> States]
      /\ \A q \in Procs \ {p} : st'[q] = st[q]
      /\ SameSelf(st[p], st'[p])
      /\ st'[p].counter = st[p].counter /\ st'[p].shmem = st[p].shmem
  BY <1>0, MutexReplaced DEF Answer
<1>3. /\ conn' \in [Procs -> Sockets]
      /\ \A q \in Procs :
            /\ conn'[q].at # "none" => conn[q].at # "none"
            /\ conn'[q].at = "answered" =>
                  \/ conn[q].at = "answered" /\ conn'[q].mem = conn[q].mem
                  \/ /\ conn'[q].mem \in DOMAIN mems
                     /\ mems[conn'[q].mem].id = call[q].id
  <2>1. CASE conn' = conn
    BY <1>0, <2>1
  <2>2. CASE c \in Procs /\ conn' = [conn EXCEPT ![c] = LetGo(conn[c], p)]
    <3>1. conn[c] \in Sockets
      BY <1>0, <2>2
    <3> DEFINE l == LetGo(conn[c], p)
    <3>2. /\ l \in Sockets /\ (l.at # "none" => conn[c].at # "none")
          /\ l.at = "answered" =>
                conn[c].at = "answered" /\ l.mem = conn[c].mem
      BY <3>1, LetGoType
    <3> HIDE DEF l, c
    <3>3. conn' = [conn EXCEPT ![c] = l]
      BY <2>2 DEF l
    <3>4. /\ conn' \in [Procs -> Sockets] /\ conn'[c] = l
          /\ \A q \in Procs \ {c} : conn'[q] = conn[q]
      BY <1>0, <2>2, <3>2, <3>3
    <3> QED
      BY <3>2, <3>4
  <2>3. CASE /\ c \in Procs /\ conn[c].at = "accepted" /\ found # {}
             /\ conn' = [conn EXCEPT ![c] = k]
    <3>1. First(st[p].shmem, call[c].id) \in DOMAIN st[p].shmem
          /\ st[p].shmem[First(st[p].shmem, call[c].id)].id = call[c].id
      BY <1>0, <2>3, FirstFound
    <3>2. d \in DOMAIN mems /\ mems[d].id = call[c].id /\ d \in Nat
      BY <1>0, <3>1 DEF Descriptor, BaseInv, GoodTables, GoodSegment
    <3> HIDE DEF d, c
    <3>3. k \in Sockets /\ k.at = "answered" /\ k.mem = d
      <4>1. NoConn \in Sockets
        BY Halves DEF NoConn, Sockets, SocketIds
      <4> QED
        BY <3>2, <4>1 DEF Sockets
    <3>4. conn' = [conn EXCEPT ![c] = k]
      BY <2>3
    <3> HIDE DEF k
    <3>5. /\ conn' \in [Procs -> Sockets] /\ conn'[c] = k
          /\ \A q \in Procs \ {c} : conn'[q] = conn[q]
      BY <1>0, <2>3, <3>3, <3>4
    <3> QED
      BY <2>3, <3>2, <3>3, <3>5
  <2>4. c \notin Procs => \A x : [conn EXCEPT ![c] = x] = conn
    BY <1>0
  <2>5. conn' = IF conn[c].at # "accepted" THEN conn
                ELSE IF found = {}
                     THEN [conn EXCEPT ![c] = LetGo(conn[c], p)]
                     ELSE [conn EXCEPT ![c] = k]
    BY DEF Answer
  <2> QED
    BY <2>1, <2>2, <2>3, <2>4, <2>5
<1>4. TypeInv'
  BY <1>0, <1>1, <1>2, <1>3 DEF TypeInv, Typed, Keyed
<1> QED
  BY <1>0, <1>1, <1>2, <1>3, <1>4 DEF ThreadEffect

-----------------------------------------------------------------------------
(* Processes that come and go.                                             *)
LEMMA ForkTypes ==
    ASSUME BaseInv, NEW p \in Procs, NEW q \in Procs, Fork(p, q) PROVE TypeInv'
<1>0. /\ Typed /\ Keyed /\ UNCHANGED <<call, thread, link, mems, hist>>
  BY DEF BaseInv, TypeInv, Fork
<1>1. life' \in [Procs -> {"unborn", "alive", "dead"}]
      /\ st' \in [Procs -> States]
  BY <1>0 DEF Typed, Fork
<1>2. sock' \in [SocketIds -> [by : Procs \cup {0}, holders : SUBSET Procs]]
  <2> DEFINE S == [by : Procs \cup {0}, holders : SUBSET Procs]
             new(s) == IF p \in sock[s].holders
                       THEN [sock[s] EXCEPT !.holders =
                                               sock[s].holders \cup {q}]
                       ELSE sock[s]
  <2>1. sock' = [s \in SocketIds |-> new(s)]
    BY DEF Fork
  <2>2. \A s \in SocketIds : new(s) \in S
    BY <1>0 DEF Typed
  <2> HIDE DEF new
  <2> QED
    BY <2>1, <2>2
<1>3. conn' \in [Procs -> Sockets]
  <2> DEFINE new(c) == IF p \in conn[c].holders
                       THEN [conn[c] EXCEPT !.holders =
                                               conn[c].holders \cup {q}]
                       ELSE conn[c]
  <2>1. conn' = [c \in Procs |-> new(c)]
    BY DEF Fork
  <2>2. \A c \in Procs : new(c) \in Sockets
    <3> SUFFICES ASSUME NEW c \in Procs PROVE new(c) \in Sockets
      OBVIOUS
    <3>1. conn[c] \in Sockets
      BY <1>0 DEF Typed
    <3> QED
      BY <3>1 DEF Sockets
  <2> HIDE DEF new
  <2> QED
    BY <2>1, <2>2
<1> QED
  BY <1>0, <1>1, <1>2, <1>3 DEF TypeInv, Typed, Keyed

LEMMA ForkKeepsBase ==
    ASSUME BaseInv, NEW p \in Procs, NEW q \in Procs, Fork(p, q)
    PROVE  /\ BaseInv' /\ st'[q].setup # q
           /\ UNCHANGED <<call, thread, link, mems, hist>>
           /\ life[q] = "unborn" /\ life'[q] = "alive"
           /\ \A r \in Procs \ {q} : st'[r] = st[r] /\ life'[r] = life[r]
           /\ st'[q] = st[p] /\ st[p].setup # 0 /\ life[p] = "alive"
<1>1. TypeInv'
  BY ForkTypes
<1>2. /\ UNCHANGED <<call, thread, link, mems, hist>>
      /\ life[q] = "unborn" /\ life'[q] = "alive" /\ life[p] = "alive"
      /\ st[p].setup # 0 /\ st'[q] = st[p]
      /\ \A r \in Procs \ {q} : st'[r] = st[r] /\ life'[r] = life[r]
  BY DEF Fork, BaseInv, TypeInv, Typed
<1>3. st[p].setup # q
  BY <1>2 DEF BaseInv, Awake
<1>4. call[q].at = "idle" /\ call[q].op = "none" /\ call[q].new = -1
      /\ thread[q].at = "none"
  BY <1>2 DEF BaseInv, Awake, Idle, NoThread
<1>5. Awake'
  <2> SUFFICES ASSUME NEW r \in Procs
               PROVE  /\ life'[r] # "alive" => /\ st'[r] = NoState
                                               /\ call'[r] = Idle
                                               /\ thread'[r] = NoThread
                      /\ call'[r].at # "idle" \/ thread'[r].at # "none"
                            => st'[r].setup = r
                      /\ call'[r].at = "idle" =>
                            call'[r].op = "none" /\ call'[r].new = -1
                      /\ call'[r].op = "get" => st'[r].listening
                      /\ st'[r].setup # 0 => life'[st'[r].setup] # "unborn"
                      /\ st'[r].setup = 0 => ~st'[r].listening
    BY DEF Awake
  <2>0. \A x \in Procs : life[x] # "unborn" => life'[x] # "unborn"
    BY <1>2
  <2>1. \A x \in Procs : st[x].setup \in Procs \cup {0}
    BY DEF BaseInv, TypeInv, Typed, States
  <2>2. CASE r = q
    BY <1>2, <1>4, <2>0, <2>1, <2>2 DEF BaseInv, Awake
  <2>3. CASE r # q
    BY <1>2, <2>0, <2>1, <2>3 DEF BaseInv, Awake
  <2> QED
    BY <2>2, <2>3
<1>6. \A s \in SocketIds :
         sock'[s].by = sock[s].by /\ sock[s].holders \subseteq sock'[s].holders
  <2> SUFFICES ASSUME NEW s \in SocketIds
               PROVE  /\ sock'[s].by = sock[s].by
                      /\ sock[s].holders \subseteq sock'[s].holders
    OBVIOUS
  <2>1. sock[s] \in [by : Procs \cup {0}, holders : SUBSET Procs]
    BY DEF BaseInv, TypeInv, Typed
  <2>2. sock'[s] = IF p \in sock[s].holders
                   THEN [sock[s] EXCEPT !.holders = sock[s].holders \cup {q}]
                   ELSE sock[s]
    BY DEF Fork
  <2> QED
    BY <2>1, <2>2
<1>7. OwnSocket'
  <2> SUFFICES ASSUME NEW r \in Procs, st'[r].setup = r, st'[r].listening
               PROVE  /\ sock'[st'[r].localId].by = r
                      /\ r \in sock'[st'[r].localId].holders
    BY DEF OwnSocket
  <2>1. r # q
    BY <1>2, <1>3
  <2>2. st'[r] = st[r] /\ st[r].localId \in SocketIds
    BY <1>2, <2>1 DEF BaseInv, TypeInv, Typed, States
  <2> QED
    BY <1>6, <2>2 DEF BaseInv, OwnSocket
<1>8. \A c \in Procs : conn'[c].at = conn[c].at /\ conn'[c].mem = conn[c].mem
  <2> SUFFICES ASSUME NEW c \in Procs
               PROVE  conn'[c].at = conn[c].at /\ conn'[c].mem = conn[c].mem
    OBVIOUS
  <2>1. conn[c] \in Sockets
    BY DEF BaseInv, TypeInv, Typed
  <2>2. conn'[c] = IF p \in conn[c].holders
                   THEN [conn[c] EXCEPT !.holders = conn[c].holders \cup {q}]
                   ELSE conn[c]
    BY DEF Fork
  <2> QED
    BY <2>1, <2>2 DEF Sockets
<1>9. Answered'
  BY <1>2, <1>8 DEF BaseInv, Answered
<1>10. GoodTables'
  BY <1>2 DEF BaseInv, GoodTables
<1>11. Created'
  <2>1. \A m \in DOMAIN mems : mems[m].by \in Procs /\ mems[m].by # q
    BY <1>2, MemType DEF BaseInv, Created
  <2> QED
    BY <1>2, <1>4, <2>1 DEF BaseInv, Created
<1> QED
  BY <1>1, <1>2, <1>3, <1>5, <1>7, <1>9, <1>10, <1>11 DEF BaseInv

LEMMA DieTypes ==
    ASSUME BaseInv, NEW p \in Procs, Die(p)
    PROVE  /\ TypeInv'
           /\ \A c \in Procs :
                 /\ conn'[c].at # "none" => conn[c].at # "none" /\ c # p
                 /\ conn'[c].at = "answered" =>
                       conn[c].at = "answered" /\ conn'[c].mem = conn[c].mem
           /\ \A s \in SocketIds :
                 /\ sock[s].by # p => sock'[s].by = sock[s].by
                 /\ sock'[s].holders = sock[s].holders \ {p}
           /\ st'[p] = NoState /\ call'[p] = Idle /\ thread'[p] = NoThread
           /\ life'[p] = "dead"
           /\ \A q \in Procs \ {p} :
                 st'[q] = st[q] /\ call'[q] = call[q] /\ thread'[q] = thread[q]
                 /\ life'[q] = life[q]
           /\ UNCHANGED <<link, mems, hist>>
<1>0. Typed /\ Keyed /\ UNCHANGED <<link, mems, hist>>
  BY DEF BaseInv, TypeInv, Die
<1>1. /\ NoState \in States /\ NoThread \in Threads /\ Idle \in Calls
      /\ Idle.at = "idle" /\ Idle.op = "none"
  BY IdleType, Halves DEF NoState, States, SocketIds, NoThread, Threads, Idle
<1>2. /\ life' \in [Procs -> {"unborn", "alive", "dead"}]
      /\ st' \in [Procs -> States] /\ call' \in [Procs -> Calls]
      /\ thread' \in [Procs -> Threads]
      /\ st'[p] = NoState /\ call'[p] = Idle /\ thread'[p] = NoThread
      /\ life'[p] = "dead"
      /\ \A q \in Procs \ {p} :
            st'[q] = st[q] /\ call'[q] = call[q] /\ thread'[q] = thread[q]
            /\ life'[q] = life[q]
  BY <1>0, <1>1 DEF Typed, Die
<1>3. /\ sock' \in [SocketIds -> [by : Procs \cup {0}, holders : SUBSET Procs]]
      /\ \A s \in SocketIds :
            /\ sock[s].by # p => sock'[s].by = sock[s].by
            /\ sock'[s].holders = sock[s].holders \ {p}
  BY <1>0 DEF Typed, Die
<1>4. ASSUME NEW c \in Procs
      PROVE  /\ conn'[c] \in Sockets
             /\ conn'[c].at # "none" => conn[c].at # "none" /\ c # p
             /\ conn'[c].at = "answered" =>
                   conn[c].at = "answered" /\ conn'[c].mem = conn[c].mem
  <2>1. NoConn \in Sockets /\ NoConn.at = "none"
    BY Halves DEF NoConn, Sockets, SocketIds
  <2>2. conn[c] \in Sockets
    BY <1>0 DEF Typed
  <2> DEFINE k == [conn[c] EXCEPT !.at = "closed"]
  <2>3. k \in Sockets /\ k.at = "closed"
    BY <2>2 DEF Sockets
  <2>4. \/ c = p /\ conn'[c] = NoConn
        \/ c # p /\ conn[c].at = "queued" /\ conn'[c] = k
        \/ c # p /\ conn'[c] = LetGo(conn[c], p)
    BY DEF Die
  <2> HIDE DEF k
  <2> QED
    BY <2>1, <2>2, <2>3, <2>4, LetGoType
<1>5. conn' \in [Procs -> Sockets]
  <2> DEFINE new(c) == IF c = p THEN NoConn
                       ELSE IF conn[c].at = "queued"
                               /\ sock'[conn[c].to].holders = {}
                       THEN [conn[c] EXCEPT !.at = "closed"]
                       ELSE LetGo(conn[c], p)
  <2>1. conn' = [c \in Procs |-> new(c)]
    BY DEF Die
  <2> HIDE DEF new
  <2> QED
    BY <1>4, <2>1
<1>6. Keyed'
  BY <1>0, <1>1, <1>2 DEF Keyed
<1>7. TypeInv'
  BY <1>0, <1>2, <1>3, <1>5, <1>6 DEF TypeInv, Typed
<1> QED
  BY <1>0, <1>2, <1>3, <1>4, <1>7

LEMMA DieKeepsBase ==
    ASSUME BaseInv, NEW p \in Procs, Die(p) PROVE BaseInv'
<1>0. /\ TypeInv'
      /\ \A c \in Procs :
            /\ conn'[c].at # "none" => conn[c].at # "none" /\ c # p
            /\ conn'[c].at = "answered" =>
                  conn[c].at = "answered" /\ conn'[c].mem = conn[c].mem
      /\ \A s \in SocketIds :
            /\ sock[s].by # p => sock'[s].by = sock[s].by
            /\ sock'[s].holders = sock[s].holders \ {p}
      /\ st'[p] = NoState /\ call'[p] = Idle /\ thread'[p] = NoThread
      /\ life'[p] = "dead"
      /\ \A q \in Procs \ {p} :
            st'[q] = st[q] /\ call'[q] = call[q] /\ thread'[q] = thread[q]
            /\ life'[q] = life[q]
      /\ UNCHANGED <<link, mems, hist>>
  BY DieTypes
<1>1. /\ NoState.setup = 0 /\ ~NoState.listening /\ NoState.shmem = <<>>
      /\ Idle.at = "idle" /\ Idle.op = "none" /\ Idle.new = -1
      /\ NoThread.at = "none" /\ p # 0
  BY SharedMemoryAssumption DEF NoState, Idle, NoThread
<1>2. Awake'
  <2> SUFFICES ASSUME NEW q \in Procs
               PROVE  /\ life'[q] # "alive" => /\ st'[q] = NoState
                                               /\ call'[q] = Idle
                                               /\ thread'[q] = NoThread
                      /\ call'[q].at # "idle" \/ thread'[q].at # "none"
                            => st'[q].setup = q
                      /\ call'[q].at = "idle" =>
                            call'[q].op = "none" /\ call'[q].new = -1
                      /\ call'[q].op = "get" => st'[q].listening
                      /\ st'[q].setup # 0 => life'[st'[q].setup] # "unborn"
                      /\ st'[q].setup = 0 => ~st'[q].listening
    BY DEF Awake
  <2>0. \A x \in Procs : life[x] # "unborn" => life'[x] # "unborn"
    BY <1>0
  <2>1. \A x \in Procs : st[x].setup \in Procs \cup {0}
    BY DEF BaseInv, TypeInv, Typed, States
  <2>2. CASE q = p
    BY <1>0, <1>1, <2>2
  <2>3. CASE q # p
    BY <1>0, <2>0, <2>1, <2>3 DEF BaseInv, Awake
  <2> QED
    BY <2>2, <2>3
<1>3. OwnSocket'
  <2> SUFFICES ASSUME NEW q \in Procs, st'[q].setup = q, st'[q].listening
               PROVE  /\ sock'[st'[q].localId].by = q
                      /\ q \in sock'[st'[q].localId].holders
    BY DEF OwnSocket
  <2>1. q # p
    BY <1>0, <1>1
  <2>2. st'[q] = st[q] /\ st[q].localId \in SocketIds
    BY <1>0, <2>1 DEF BaseInv, TypeInv, Typed, States
  <2>3. sock[st[q].localId].by = q /\ q \in sock[st[q].localId].holders
    BY <2>2 DEF BaseInv, OwnSocket
  <2> QED
    BY <1>0, <2>1, <2>2, <2>3
<1>4. Answered'
  BY <1>0 DEF BaseInv, Answered
<1>5. GoodTables'
  BY <1>0, <1>1 DEF BaseInv, GoodTables
<1>6. Created'
  <2>1. \A m \in DOMAIN mems : mems[m].by \in Procs
    BY MemType DEF BaseInv
  <2> QED
    BY <1>0, <1>1, <2>1 DEF BaseInv, Created
<1> QED
  BY <1>0, <1>2, <1>3, <1>4, <1>5, <1>6 DEF BaseInv

LEMMA NextKeepsBase == BaseInv /\ [Next]_vars => BaseInv'
<1> SUFFICES ASSUME BaseInv, [Next]_vars PROVE BaseInv'
  OBVIOUS
<1>1. CASE UNCHANGED vars \/ Directory
  BY <1>1 DEF vars, Directory, BaseInv, TypeInv, Typed, Keyed, Awake, OwnSocket, Answered,
              GoodTables, Created
<1>2. ASSUME NEW p \in Procs,
             \/ ShmgetStep(p) \/ OtherCall(p) \/ MainStep(p) \/ ThreadStep(p)
             \/ Die(p) \/ \E q \in Procs : Fork(p, q)
      PROVE  BaseInv'
  <2>1. CASE ShmgetStep(p) \/ OtherCall(p)
    BY <2>1, ShmgetEffect, OtherCallEffect, BeginKeepsBase
  <2>2. CASE MainStep(p)
    BY <2>2, ReadLinkEffect, ReceiveEffect, UnlinkEffect, SymlinkEffect,
       CreateEffect, ShmatEffect, ShmdtEffect, ShmctlEffect, MainKeepsBase
       DEF MainStep
  <2>3. CASE ThreadStep(p)
    BY <2>3, AcceptEffect, ThreadLocksEffect, AnswerEffect, ThreadKeepsBase
       DEF ThreadStep
  <2>4. CASE Die(p)
    BY <2>4, DieKeepsBase
  <2>5. CASE \E q \in Procs : Fork(p, q)
    BY <2>5, ForkKeepsBase
  <2> QED
    BY <1>2, <2>1, <2>2, <2>3, <2>4, <2>5
<1> QED
  BY <1>1, <1>2 DEF Next

-----------------------------------------------------------------------------
(* A segment stays with its creator: he has it in his table until it is    *)
(* removed, and what is marked for removal was removed by him.  shmdt      *)
(* forgets a segment whose identifier does not carry the own number, which *)
(* a negative identifier does not.                                         *)
Marked ==
    \A p \in Procs : \A i \in DOMAIN st[p].shmem :
       LET m == st[p].shmem[i].mem
       IN  st[p].shmem[i].marked /\ mems[m].by = p => mems[m].removed

Held ==
    \A m \in DOMAIN mems :
       life[mems[m].by] = "alive" /\ ~mems[m].removed /\ mems[m].id >= 0
          => Holds(st[mems[m].by].shmem, m)

KeptInv == Marked /\ Held

KeepEffect(p) ==
    /\ \A i \in DOMAIN st'[p].shmem :
          LET m == st'[p].shmem[i].mem
          IN  st'[p].shmem[i].marked /\ mems'[m].by = p => mems'[m].removed
    /\ \A m \in DOMAIN mems' :
          mems'[m].by = p /\ ~mems'[m].removed /\ mems'[m].id >= 0
             => Holds(st'[p].shmem, m)

LEMMA InitKept == Init => KeptInv
<1> SUFFICES ASSUME Init PROVE KeptInv
  OBVIOUS
<1>1. mems = <<>> /\ \A p \in Procs : st[p] = NoState
  BY DEF Init
<1>2. NoState.shmem = <<>> /\ ~NoState.listening
  BY DEF NoState
<1> QED
  BY <1>1, <1>2 DEF KeptInv, Marked, Held

LEMMA MainKeepsSegments ==
    ASSUME BaseInv, KeptInv, NEW p \in Procs, MainEffect(p), KeepEffect(p)
    PROVE  KeptInv'
<1>1. Marked'
  <2> SUFFICES ASSUME NEW q \in Procs, NEW i \in DOMAIN st'[q].shmem,
                      st'[q].shmem[i].marked,
                      mems'[st'[q].shmem[i].mem].by = q
               PROVE  mems'[st'[q].shmem[i].mem].removed
    BY DEF Marked
  <2>1. CASE q = p
    BY <2>1 DEF KeepEffect
  <2>2. CASE q # p
    <3>1. st'[q] = st[q]
      BY <2>2 DEF MainEffect, Others
    <3>2. st[q].shmem[i].mem \in DOMAIN mems
      BY <3>1 DEF BaseInv, GoodTables, GoodSegment
    <3> QED
      BY <3>1, <3>2 DEF KeptInv, Marked, MainEffect, Grows
  <2> QED
    BY <2>1, <2>2
<1>2. Held'
  <2> SUFFICES ASSUME NEW m \in DOMAIN mems',
                      life'[mems'[m].by] = "alive", ~mems'[m].removed,
                      mems'[m].id >= 0
               PROVE  Holds(st'[mems'[m].by].shmem, m)
    BY DEF Held
  <2>1. CASE mems'[m].by = p
    BY <2>1 DEF KeepEffect
  <2>2. CASE mems'[m].by # p
    <3>1. m \in DOMAIN mems
      BY <2>2 DEF MainEffect
    <3>2. mems'[m].by = mems[m].by /\ ~mems[m].removed
          /\ mems'[m].id = mems[m].id /\ mems[m].by \in Procs /\ life' = life
      BY <3>1, MemType DEF BaseInv, MainEffect, Grows
    <3> QED
      BY <2>2, <3>1, <3>2 DEF KeptInv, Held, MainEffect, Others
  <2> QED
    BY <2>1, <2>2
<1> QED
  BY <1>1, <1>2 DEF KeptInv

(* The calling thread keeps what it has not removed.                       *)
LEMMA CallerKeepsSegments ==
    ASSUME BaseInv, KeptInv, NEW p \in Procs, MainStep(p) PROVE KeptInv'
<1>0. ASSUME MainEffect(p) PROVE life[p] = "alive"
  BY <1>0 DEF MainEffect, BaseInv, Awake, Idle
<1>1. ASSUME MainEffect(p), Stays(p) PROVE KeptInv'
  <2>1. KeepEffect(p)
    BY <1>0, <1>1
       DEF KeepEffect, Stays, From, SameSegment, KeptInv, Marked, Held
  <2> QED
    BY <1>1, <2>1, MainKeepsSegments
<1>2. CASE ReadLink(p) \/ Unlink(p) \/ Symlink(p) \/ Shmat(p)
  BY <1>1, <1>2, ReadLinkEffect, UnlinkEffect, SymlinkEffect, ShmatEffect
<1>3. CASE Receive(p)
  <2>1. /\ MainEffect(p) /\ mems' = mems
        /\ \A m : Holds(st[p].shmem, m) => Holds(st'[p].shmem, m)
        /\ \A i \in DOMAIN st'[p].shmem : st'[p].shmem[i].marked =>
              \E j \in DOMAIN st[p].shmem :
                 SameSegment(st'[p].shmem[i], st[p].shmem[j])
    BY <1>3, ReceiveEffect
  <2>2. KeepEffect(p)
    BY <1>0, <2>1 DEF KeepEffect, SameSegment, KeptInv, Marked, Held
  <2> QED
    BY <2>1, <2>2, MainKeepsSegments
<1>4. CASE Create(p)
  <2>1. /\ MainEffect(p)
        /\ \A m : Holds(st[p].shmem, m) => Holds(st'[p].shmem, m)
        /\ \A m \in DOMAIN mems' \ DOMAIN mems : Holds(st'[p].shmem, m)
        /\ \A m \in DOMAIN mems : mems'[m] = mems[m]
        /\ \A i \in DOMAIN st'[p].shmem : st'[p].shmem[i].marked =>
              i \in DOMAIN st[p].shmem /\ st'[p].shmem[i] = st[p].shmem[i]
    BY <1>4, CreateEffect
  <2>2. KeepEffect(p)
    <3>1. ASSUME NEW i \in DOMAIN st'[p].shmem, st'[p].shmem[i].marked,
                 mems'[st'[p].shmem[i].mem].by = p
          PROVE  mems'[st'[p].shmem[i].mem].removed
      <4>1. i \in DOMAIN st[p].shmem /\ st'[p].shmem[i] = st[p].shmem[i]
        BY <2>1, <3>1
      <4>2. st[p].shmem[i].mem \in DOMAIN mems
        BY <4>1 DEF BaseInv, GoodTables, GoodSegment
      <4> QED
        BY <2>1, <3>1, <4>1, <4>2 DEF KeptInv, Marked
    <3>2. ASSUME NEW m \in DOMAIN mems', mems'[m].by = p, ~mems'[m].removed,
                 mems'[m].id >= 0
          PROVE  Holds(st'[p].shmem, m)
      <4>1. CASE m \in DOMAIN mems
        BY <1>0, <2>1, <3>2, <4>1 DEF KeptInv, Held
      <4>2. CASE m \notin DOMAIN mems
        BY <2>1, <4>2
      <4> QED
        BY <4>1, <4>2
    <3> QED
      BY <3>1, <3>2 DEF KeepEffect
  <2> QED
    BY <2>1, <2>2, MainKeepsSegments
<1>5. CASE Shmdt(p)
  <2>1. /\ MainEffect(p) /\ mems' = mems
        /\ From(st'[p].shmem, st[p].shmem)
        /\ \A m : Holds(st[p].shmem, m) =>
              \/ Holds(st'[p].shmem, m)
              \/ \E i \in DOMAIN st[p].shmem :
                    /\ st[p].shmem[i].mem = m
                    /\ \/ st[p].shmem[i].marked
                       \/ ashv_socket_id_from_shmid(st[p].shmem[i].id)
                             # st[p].localId
    BY <1>5, ShmdtEffect
  <2>2. ASSUME NEW m \in DOMAIN mems, mems[m].by = p, ~mems[m].removed,
               mems[m].id >= 0
        PROVE  Holds(st'[p].shmem, m)
    <3>1. Holds(st[p].shmem, m)
      BY <1>0, <2>1, <2>2 DEF KeptInv, Held
    <3>2. ashv_socket_id_from_shmid(mems[m].id) = st[p].localId
      <4>1. st[p].listening /\ Numbered(st[p].localId, mems[m].id)
        BY <1>0, <2>1, <2>2 DEF BaseInv, Created
      <4>2. st[p].localId \in SocketIds
        BY DEF BaseInv, TypeInv, Typed, States
      <4> QED
        BY <2>2, <4>1, <4>2, OwnNumber DEF Numbered
    <3>3. ASSUME NEW i \in DOMAIN st[p].shmem, st[p].shmem[i].mem = m
          PROVE  ~st[p].shmem[i].marked /\ st[p].shmem[i].id = mems[m].id
      BY <2>2, <3>3
         DEF KeptInv, Marked, BaseInv, GoodTables, GoodSegment
    <3> QED
      BY <2>1, <3>1, <3>2, <3>3
  <2>3. KeepEffect(p)
    BY <2>1, <2>2 DEF KeepEffect, From, SameSegment, KeptInv, Marked
  <2> QED
    BY <2>1, <2>3, MainKeepsSegments
<1>6. CASE Shmctl(p)
  <2>1. /\ MainEffect(p) /\ DOMAIN mems' = DOMAIN mems
        /\ \A m \in DOMAIN mems : mems[m].by = p /\ Holds(st[p].shmem, m) =>
              Holds(st'[p].shmem, m) \/ mems'[m].removed
        /\ \A i \in DOMAIN st'[p].shmem :
              \/ \E j \in DOMAIN st[p].shmem :
                    SameSegment(st'[p].shmem[i], st[p].shmem[j])
              \/ mems[st'[p].shmem[i].mem].by = p
                    => mems'[st'[p].shmem[i].mem].removed
    BY <1>6, ShmctlEffect
  <2>2. \A m \in DOMAIN mems : mems'[m].by = mems[m].by
                               /\ mems'[m].id = mems[m].id
                               /\ (mems[m].removed => mems'[m].removed)
    BY <2>1 DEF MainEffect, Grows
  <2>3. ASSUME NEW i \in DOMAIN st'[p].shmem, st'[p].shmem[i].marked,
               mems'[st'[p].shmem[i].mem].by = p
        PROVE  mems'[st'[p].shmem[i].mem].removed
    <3>1. st'[p].shmem[i].mem \in DOMAIN mems
      BY <2>1 DEF MainEffect, GoodSegment
    <3> QED
      BY <2>1, <2>2, <2>3, <3>1 DEF SameSegment, KeptInv, Marked
  <2>4. ASSUME NEW m \in DOMAIN mems', mems'[m].by = p, ~mems'[m].removed,
               mems'[m].id >= 0
        PROVE  Holds(st'[p].shmem, m)
    BY <1>0, <2>1, <2>2, <2>4 DEF KeptInv, Held
  <2>5. KeepEffect(p)
    BY <2>3, <2>4 DEF KeepEffect
  <2> QED
    BY <2>1, <2>5, MainKeepsSegments
<1> QED
  BY <1>2, <1>3, <1>4, <1>5, <1>6 DEF MainStep

LEMMA NextKeepsSegments == BaseInv /\ KeptInv /\ [Next]_vars => KeptInv'
<1> SUFFICES ASSUME BaseInv, KeptInv, [Next]_vars PROVE KeptInv'
  OBVIOUS
<1>0. \A m \in DOMAIN mems : mems[m].by \in Procs
  BY MemType DEF BaseInv
<1>1. CASE UNCHANGED vars \/ Directory
  BY <1>1 DEF vars, Directory, KeptInv, Marked, Held
<1>2. ASSUME NEW p \in Procs, BeginEffect(p) PROVE KeptInv'
  <2>1. UNCHANGED <<life, mems>> /\ \A q \in Procs \ {p} : st'[q] = st[q]
    BY <1>2 DEF BeginEffect
  <2>2. Marked'
    <3> SUFFICES ASSUME NEW q \in Procs, NEW i \in DOMAIN st'[q].shmem,
                        st'[q].shmem[i].marked,
                        mems[st'[q].shmem[i].mem].by = q
                 PROVE  mems[st'[q].shmem[i].mem].removed
      BY <2>1 DEF Marked
    <3>1. st'[q].shmem = st[q].shmem
      BY <1>2, <2>1 DEF BeginEffect
    <3> QED
      BY <3>1 DEF KeptInv, Marked
  <2>3. Held'
    <3> SUFFICES ASSUME NEW m \in DOMAIN mems, life[mems[m].by] = "alive",
                        ~mems[m].removed, mems[m].id >= 0
                 PROVE  Holds(st'[mems[m].by].shmem, m)
      BY <2>1 DEF Held
    <3>1. st[mems[m].by].setup = mems[m].by
      BY DEF BaseInv, Created
    <3>2. st'[mems[m].by].shmem = st[mems[m].by].shmem
      BY <1>0, <1>2, <2>1, <3>1 DEF BeginEffect
    <3> QED
      BY <3>2 DEF KeptInv, Held
  <2> QED
    BY <2>2, <2>3 DEF KeptInv
<1>3. ASSUME NEW p \in Procs, ThreadEffect(p) PROVE KeptInv'
  <2>1. /\ UNCHANGED <<life, mems>>
        /\ \A q \in Procs : st'[q].shmem = st[q].shmem
    BY <1>3 DEF ThreadEffect
  <2> QED
    BY <1>0, <2>1 DEF KeptInv, Marked, Held
<1>4. ASSUME NEW p \in Procs, Die(p) PROVE KeptInv'
  <2>1. /\ mems' = mems /\ st'[p] = NoState /\ life'[p] = "dead"
        /\ \A q \in Procs \ {p} : st'[q] = st[q] /\ life'[q] = life[q]
    BY <1>4, DieTypes
  <2>2. NoState.shmem = <<>> /\ ~NoState.listening
    BY DEF NoState
  <2> QED
    BY <1>0, <2>1, <2>2 DEF KeptInv, Marked, Held
<1>5. ASSUME NEW p \in Procs, NEW q \in Procs, Fork(p, q) PROVE KeptInv'
  <2>1. /\ mems' = mems /\ life[q] = "unborn" /\ st'[q] = st[p]
        /\ \A r \in Procs \ {q} : st'[r] = st[r] /\ life'[r] = life[r]
    BY <1>5, ForkKeepsBase
  <2>2. \A m \in DOMAIN mems : mems[m].by # q
    BY <2>1 DEF BaseInv, Created
  <2>3. \A i \in DOMAIN st[p].shmem : st[p].shmem[i].mem \in DOMAIN mems
    BY DEF BaseInv, GoodTables, GoodSegment
  <2>4. Marked'
    BY <2>1, <2>2, <2>3 DEF KeptInv, Marked
  <2>5. Held'
    BY <1>0, <2>1, <2>2 DEF KeptInv, Held
  <2> QED
    BY <2>4, <2>5 DEF KeptInv
<1>6. ASSUME NEW p \in Procs,
             \/ ShmgetStep(p) \/ OtherCall(p) \/ MainStep(p) \/ ThreadStep(p)
             \/ Die(p) \/ \E q \in Procs : Fork(p, q)
      PROVE  KeptInv'
  <2>1. CASE ShmgetStep(p) \/ OtherCall(p)
    BY <1>2, <2>1, ShmgetEffect, OtherCallEffect
  <2>2. CASE MainStep(p)
    BY <2>2, CallerKeepsSegments
  <2>3. CASE ThreadStep(p)
    BY <1>3, <2>3, AcceptEffect, ThreadLocksEffect, AnswerEffect
       DEF ThreadStep
  <2>4. CASE Die(p) \/ \E q \in Procs : Fork(p, q)
    BY <1>4, <1>5, <2>4
  <2> QED
    BY <1>6, <2>1, <2>2, <2>3, <2>4
<1> QED
  BY <1>1, <1>6 DEF Next

(* The table a process would use is the one it has, once it made a call.   *)
LEMMA OwnTable ==
    ASSUME BaseInv, NEW p \in Procs, st[p].setup = p
    PROVE  Table(p) = st[p].shmem
BY CheckedType DEF BaseInv, TypeInv, Typed, Table

(* A creator keeps a segment until he removes it: what shmdt, shmctl of    *)
(* another identifier, the answering thread, a fork or the death of others *)
(* do does not take it from his table (shmem.c).  The property is about    *)
(* the segments whose identifier is not negative, whatever the numbers of  *)
(* the other processes are.                                                *)
THEOREM SegmentsAreKept == Spec => []KeptUntilRemoved
<1>1. BaseInv /\ KeptInv => KeptUntilRemoved
  <2> SUFFICES ASSUME BaseInv, KeptInv, NEW m \in DOMAIN mems,
                      mems[m].by \in Living, ~mems[m].removed,
                      mems[m].id >= 0
               PROVE  \E i \in DOMAIN Table(mems[m].by) :
                         Table(mems[m].by)[i].mem = m
    BY DEF KeptUntilRemoved
  <2>1. mems[m].by \in Procs /\ life[mems[m].by] = "alive"
    BY DEF Living
  <2>2. st[mems[m].by].setup = mems[m].by
    BY <2>1 DEF BaseInv, Created
  <2>3. Table(mems[m].by) = st[mems[m].by].shmem
    BY <2>1, <2>2, OwnTable
  <2> QED
    BY <2>1, <2>3 DEF KeptInv, Held, Holds
<1>2. Init => BaseInv /\ KeptInv
  BY InitBase, InitKept
<1>3. (BaseInv /\ KeptInv) /\ [Next]_vars => (BaseInv /\ KeptInv)'
  BY NextKeepsBase, NextKeepsSegments
<1> QED
  BY <1>1, <1>2, <1>3, PTL DEF Spec

-----------------------------------------------------------------------------
(* Identifiers are not issued twice while the counter does not wrap: every *)
(* call draws at most one number, so no process is beyond the calls made,  *)
(* and what a creator has issued is behind his counter.                    *)
NoWrap == MaxCalls < HalfWord \div 2

Counters ==
    /\ hist.calls <= MaxCalls
    /\ \A p \in Procs :
          /\ st[p].counter <= hist.calls
          /\ call[p].at # "idle" /\ call[p].new = -1
                => st[p].counter < hist.calls
          /\ call[p].new # -1 =>
                call[p].new = ashv_shmid_from_counter(st[p].localId,
                                                      st[p].counter)

IssuedBy(p, id) ==
    \E c \in Nat : /\ c <= st[p].counter
                   /\ call[p].new # -1 => c < st[p].counter
                   /\ id = ashv_shmid_from_counter(st[p].localId, c)

Issued ==
    \A m \in DOMAIN mems :
       life[mems[m].by] = "alive" => IssuedBy(mems[m].by, mems[m].id)

Distinct ==
    \A m, n \in DOMAIN mems :
       m # n /\ mems[m].by = mems[n].by /\ life[mems[m].by] = "alive"
          => mems[m].id # mems[n].id

CountInv == Counters /\ Issued /\ Distinct

LEMMA NotFailure ==
    ASSUME NEW s \in SocketIds, NEW c \in Nat, c < HalfWord \div 2
    PROVE  ashv_shmid_from_counter(s, c) # -1
<1> DEFINE n == s * HalfWord + c
           w == HalfWord * HalfWord
<1>1. n \in Nat /\ n + 1 < w /\ w \in Int
  BY Square, Halves
<1>2. ashv_shmid_from_counter(s, c) \in {n, n - w}
  BY DEF ashv_shmid_from_counter
<1> HIDE DEF n, w
<1> QED
  BY <1>1, <1>2

LEMMA InitCounts == Init => CountInv
<1> SUFFICES ASSUME Init PROVE CountInv
  OBVIOUS
<1>1. /\ mems = <<>> /\ hist.calls = 0
      /\ \A p \in Procs : st[p] = NoState /\ call[p] = Idle
  BY DEF Init
<1>2. NoState.counter = 0 /\ Idle.at = "idle" /\ Idle.new = -1
  BY DEF NoState, Idle
<1>3. MaxCalls \in Nat
  BY SharedMemoryAssumption
<1> QED
  BY <1>1, <1>2, <1>3 DEF CountInv, Counters, Issued, Distinct

(* A segment that a step creates has the number the step draws.            *)
CountEffect(p) ==
    /\ \A m, k \in DOMAIN mems' \ DOMAIN mems : m = k
    /\ \A m \in DOMAIN mems' \ DOMAIN mems :
          /\ mems'[m].id = Number(p).id /\ mems'[m].by = p
          /\ st'[p].counter = Number(p).counter /\ call'[p].new = -1

LEMMA MainKeepsCounts ==
    ASSUME NoWrap, BaseInv, CountInv, NEW p \in Procs, MainEffect(p),
           CountEffect(p)
    PROVE  CountInv'
<1> DEFINE h == HalfWord \div 2
           c == st[p].counter
           l == st[p].localId
           id(x) == ashv_shmid_from_counter(l, x)
<1>0. /\ c \in Nat /\ l \in SocketIds /\ h \in Nat /\ hist.calls \in Nat
      /\ MaxCalls \in Nat /\ MaxCalls < h /\ hist.calls <= MaxCalls
      /\ c <= hist.calls /\ life[p] = "alive" /\ call[p].at # "idle"
  BY SharedMemoryAssumption, Halves
     DEF NoWrap, BaseInv, TypeInv, Typed, States, CountInv, Counters,
         MainEffect, Awake, Idle
<1>1. st'[p].localId = l /\ hist'.calls = hist.calls /\ life' = life
  BY DEF MainEffect, SameSelf
<1>2. \/ /\ st'[p].counter = c
         /\ \/ call'[p].new = call[p].new
            \/ call'[p].new = -1 /\ call'[p].at = "idle"
      \/ /\ call[p].new = -1 /\ c < hist.calls /\ st'[p].counter = c + 1
         /\ \/ call'[p].new = -1 /\ call'[p].at = "idle"
            \/ call'[p].new = id(c + 1) /\ call'[p].new # -1
  <2>1. CASE /\ st'[p].counter = c
             /\ call'[p].new \in {call[p].new, -1}
             /\ call'[p].new = call[p].new \/ call'[p].at = "idle"
    <3>1. \/ call'[p].new = call[p].new
          \/ call'[p].new = -1 /\ call'[p].at = "idle"
      BY <2>1
    <3> HIDE DEF c, id
    <3> QED
      BY <2>1, <3>1
  <2>2. CASE /\ call[p].new = -1
             /\ st'[p].counter = (c + 1) % h
             /\ \/ call'[p].new = -1 /\ call'[p].at = "idle"
                \/ call'[p].new = id(st'[p].counter)
    <3>1. c < hist.calls
      BY <1>0, <2>2 DEF CountInv, Counters
    <3>2. c + 1 < h /\ c + 1 \in Nat
      BY <1>0, <3>1
    <3> HIDE DEF h
    <3>3. (c + 1) % h = c + 1
      BY <1>0, <3>2
    <3>4. id(c + 1) # -1
      BY <1>0, <3>2, NotFailure DEF h
    <3> HIDE DEF id
    <3> QED
      BY <2>2, <3>1, <3>3, <3>4
  <2> QED
    BY <2>1, <2>2 DEF MainEffect, Drawn
<1>3. /\ st'[p].counter \in Nat /\ st'[p].counter < h
      /\ st'[p].counter <= hist.calls /\ c <= st'[p].counter
  BY <1>0, <1>2
<1>4. ASSUME NEW q \in Procs
      PROVE  /\ st'[q].counter <= hist'.calls
             /\ call'[q].at # "idle" /\ call'[q].new = -1
                   => st'[q].counter < hist'.calls
             /\ call'[q].new # -1 =>
                   call'[q].new = ashv_shmid_from_counter(st'[q].localId,
                                                          st'[q].counter)
  <2>1. CASE q # p
    BY <1>1, <2>1 DEF MainEffect, Others, CountInv, Counters
  <2>2. CASE q = p
    <3>1. call[p].new # -1 => call[p].new = id(c)
      BY DEF CountInv, Counters
    <3>2. call[p].new = -1 => c < hist.calls
      BY <1>0 DEF CountInv, Counters
    <3> HIDE DEF id, c, l
    <3>3. call'[p].new # -1 => call'[p].new = id(st'[p].counter)
      BY <1>2, <3>1
    <3>4. call'[p].at # "idle" /\ call'[p].new = -1
             => st'[p].counter < hist.calls
      BY <1>2, <3>2
    <3> QED
      BY <1>1, <1>3, <2>2, <3>3, <3>4 DEF id
  <2> QED
    BY <2>1, <2>2
<1>5. Counters'
  BY <1>0, <1>1, <1>4 DEF Counters
<1>6. ASSUME NEW m \in DOMAIN mems, mems[m].by = p
      PROVE  \E x \in Nat : /\ x <= st'[p].counter
                            /\ call'[p].new # -1 => x < st'[p].counter
                            /\ DOMAIN mems' \ DOMAIN mems # {}
                                  => x < st'[p].counter
                            /\ mems[m].id = id(x)
  <2>1. PICK x \in Nat : /\ x <= c /\ (call[p].new # -1 => x < c)
                         /\ mems[m].id = id(x)
    BY <1>0, <1>6 DEF CountInv, Issued, IssuedBy
  <2> HIDE DEF id
  <2>2. call'[p].new # -1 => x < st'[p].counter
    BY <1>0, <1>2, <2>1
  <2>3. x < st'[p].counter \/ (st'[p].counter = c /\ call[p].new = -1)
    BY <1>0, <1>2, <2>1
  <2>4. DOMAIN mems' \ DOMAIN mems # {} =>
           ~(st'[p].counter = c /\ call[p].new = -1)
    <3> SUFFICES ASSUME NEW k \in DOMAIN mems' \ DOMAIN mems,
                        st'[p].counter = c, call[p].new = -1
                 PROVE  FALSE
      OBVIOUS
    <3>1. c = (c + 1) % h
      BY NumberIs DEF CountEffect
    <3>2. c < hist.calls
      BY <1>0 DEF CountInv, Counters
    <3>3. c + 1 < h /\ c + 1 \in Nat
      BY <1>0, <3>2
    <3> HIDE DEF h, c
    <3> QED
      BY <1>0, <3>1, <3>3
  <2> QED
    BY <1>3, <2>1, <2>2, <2>3, <2>4
<1>7. ASSUME NEW m \in DOMAIN mems' \ DOMAIN mems
      PROVE  /\ mems'[m].by = p /\ call'[p].new = -1
             /\ mems'[m].id = id(st'[p].counter)
  <2>1. /\ mems'[m].id = Number(p).id /\ mems'[m].by = p
        /\ st'[p].counter = Number(p).counter /\ call'[p].new = -1
    BY DEF CountEffect
  <2>2. call[p].new # -1 => call[p].new = id(c)
    BY DEF CountInv, Counters
  <2>3. Number(p).id = id(Number(p).counter)
    BY <2>2, NumberIs
  <2> QED
    BY <2>1, <2>3
<1>8. \A m \in DOMAIN mems :
         /\ m \in DOMAIN mems' /\ mems'[m].id = mems[m].id
         /\ mems'[m].by = mems[m].by /\ mems[m].by \in Procs
  BY MemType DEF BaseInv, MainEffect, Grows
<1>9. Issued'
  <2> SUFFICES ASSUME NEW m \in DOMAIN mems', life'[mems'[m].by] = "alive"
               PROVE  \E x \in Nat :
                        /\ x <= st'[mems'[m].by].counter
                        /\ call'[mems'[m].by].new # -1 =>
                              x < st'[mems'[m].by].counter
                        /\ mems'[m].id = ashv_shmid_from_counter(
                                            st'[mems'[m].by].localId, x)
    BY DEF Issued, IssuedBy
  <2>1. CASE m \notin DOMAIN mems
    BY <1>1, <1>3, <1>7, <2>1
  <2>2. CASE m \in DOMAIN mems /\ mems[m].by = p
    BY <1>1, <1>6, <1>8, <2>2
  <2>3. CASE m \in DOMAIN mems /\ mems[m].by # p
    <3>1. IssuedBy(mems[m].by, mems[m].id)
      BY <1>1, <1>8, <2>3 DEF CountInv, Issued
    <3> QED
      BY <1>8, <2>3, <3>1 DEF IssuedBy, MainEffect, Others
  <2> QED
    BY <2>1, <2>2, <2>3
<1>10. ASSUME NEW m \in DOMAIN mems, NEW n \in DOMAIN mems' \ DOMAIN mems,
              mems[m].by = p
       PROVE  mems[m].id # mems'[n].id
  <2>1. PICK x \in Nat : x < st'[p].counter /\ mems[m].id = id(x)
    BY <1>6, <1>10
  <2>2. x < h
    BY <1>0, <1>3, <2>1
  <2>3. id(x) # id(st'[p].counter)
    BY <1>0, <1>3, <2>1, <2>2, SameId
  <2> QED
    BY <1>7, <2>1, <2>3
<1>11. Distinct'
  <2> SUFFICES ASSUME NEW m \in DOMAIN mems', NEW n \in DOMAIN mems', m # n,
                      mems'[m].by = mems'[n].by,
                      life'[mems'[m].by] = "alive"
               PROVE  mems'[m].id # mems'[n].id
    BY DEF Distinct
  <2>1. CASE m \in DOMAIN mems /\ n \in DOMAIN mems
    BY <1>1, <1>8, <2>1 DEF CountInv, Distinct
  <2>2. CASE m \in DOMAIN mems /\ n \notin DOMAIN mems
    BY <1>7, <1>8, <1>10, <2>2
  <2>3. CASE m \notin DOMAIN mems /\ n \in DOMAIN mems
    BY <1>7, <1>8, <1>10, <2>3
  <2>4. CASE m \notin DOMAIN mems /\ n \notin DOMAIN mems
    BY <2>4 DEF CountEffect
  <2> QED
    BY <2>1, <2>2, <2>3, <2>4
<1> QED
  BY <1>5, <1>9, <1>11 DEF CountInv

LEMMA NextKeepsCounts ==
    NoWrap /\ BaseInv /\ CountInv /\ [Next]_vars => CountInv'
<1> SUFFICES ASSUME NoWrap, BaseInv, CountInv, [Next]_vars PROVE CountInv'
  OBVIOUS
<1>0. /\ \A m \in DOMAIN mems : mems[m].by \in Procs
      /\ \A p \in Procs : st[p].counter \in Nat
      /\ hist.calls \in Nat /\ MaxCalls \in Nat
  BY MemType, SharedMemoryAssumption DEF BaseInv, TypeInv, Typed, States
<1>1. CASE UNCHANGED vars \/ Directory
  BY <1>1 DEF vars, Directory, CountInv, Counters, Issued, IssuedBy, Distinct
<1>2. ASSUME NEW p \in Procs, BeginEffect(p) PROVE CountInv'
  <2>1. /\ UNCHANGED <<life, mems>>
        /\ \A q \in Procs \ {p} : st'[q] = st[q] /\ call'[q] = call[q]
        /\ st'[p].counter = st[p].counter /\ call'[p].new = -1
        /\ hist'.calls = hist.calls + 1 /\ hist.calls < MaxCalls
    BY <1>2 DEF BeginEffect
  <2>2. \A q \in Procs : st[q].counter <= hist.calls
    BY DEF CountInv, Counters
  <2>3. Counters'
    <3> SUFFICES ASSUME NEW q \in Procs
                 PROVE  /\ st'[q].counter <= hist'.calls
                        /\ st'[q].counter < hist'.calls
                        /\ call'[q].new # -1 =>
                              call'[q].new = ashv_shmid_from_counter(
                                                st'[q].localId,
                                                st'[q].counter)
      BY <1>0, <2>1 DEF Counters
    <3>1. st'[q].counter = st[q].counter
      BY <2>1
    <3>2. st'[q].counter <= hist'.calls /\ st'[q].counter < hist'.calls
      BY <1>0, <2>1, <2>2, <3>1
    <3>3. call'[q].new # -1 => q # p
      BY <2>1
    <3> QED
      BY <2>1, <3>2, <3>3 DEF CountInv, Counters
  <2>4. ASSUME NEW m \in DOMAIN mems, mems[m].by = p, life[p] = "alive"
        PROVE  st'[p].localId = st[p].localId
    <3>1. st[p].setup = p /\ st[p].listening
      BY <2>4 DEF BaseInv, Created
    <3>2. ashv_check_pid(st[p], p) = st[p]
      BY <3>1, CheckedType DEF BaseInv, TypeInv, Typed
    <3> QED
      BY <1>2, <3>1, <3>2 DEF BeginEffect, SameSelf
  <2>5. Issued'
    <3> SUFFICES ASSUME NEW m \in DOMAIN mems, life[mems[m].by] = "alive"
                 PROVE  IssuedBy(mems[m].by, mems[m].id)'
      BY <2>1 DEF Issued
    <3>1. IssuedBy(mems[m].by, mems[m].id)
      BY DEF CountInv, Issued
    <3>2. CASE mems[m].by = p
      BY <2>1, <2>4, <3>1, <3>2 DEF IssuedBy
    <3>3. CASE mems[m].by # p
      BY <1>0, <2>1, <3>1, <3>3 DEF IssuedBy
    <3> QED
      BY <3>2, <3>3
  <2>6. Distinct'
    BY <2>1 DEF CountInv, Distinct
  <2> QED
    BY <2>3, <2>5, <2>6 DEF CountInv
<1>3. ASSUME NEW p \in Procs, ThreadEffect(p) PROVE CountInv'
  <2>1. /\ UNCHANGED <<life, call, mems, hist>>
        /\ \A q \in Procs : /\ st'[q].counter = st[q].counter
                            /\ st'[q].localId = st[q].localId
    BY <1>3 DEF ThreadEffect, SameSelf
  <2> QED
    BY <1>0, <2>1 DEF CountInv, Counters, Issued, IssuedBy, Distinct
<1>4. ASSUME NEW p \in Procs, Die(p) PROVE CountInv'
  <2>1. /\ UNCHANGED <<mems, hist>> /\ st'[p] = NoState /\ call'[p] = Idle
        /\ life'[p] = "dead"
        /\ \A q \in Procs \ {p} :
              st'[q] = st[q] /\ call'[q] = call[q] /\ life'[q] = life[q]
    BY <1>4, DieTypes
  <2>2. NoState.counter = 0 /\ Idle.at = "idle" /\ Idle.new = -1
    BY DEF NoState, Idle
  <2>3. Counters'
    BY <1>0, <2>1, <2>2 DEF CountInv, Counters
  <2>4. Issued' /\ Distinct'
    BY <1>0, <2>1 DEF CountInv, Issued, IssuedBy, Distinct
  <2> QED
    BY <2>3, <2>4 DEF CountInv
<1>5. ASSUME NEW p \in Procs, NEW q \in Procs, Fork(p, q) PROVE CountInv'
  <2>1. /\ UNCHANGED <<call, mems, hist>> /\ life[q] = "unborn"
        /\ st'[q] = st[p]
        /\ \A r \in Procs \ {q} : st'[r] = st[r] /\ life'[r] = life[r]
    BY <1>5, ForkKeepsBase
  <2>2. call[q].at = "idle" /\ call[q].new = -1
    BY <2>1 DEF BaseInv, Awake, Idle
  <2>3. \A m \in DOMAIN mems : mems[m].by # q
    BY <2>1 DEF BaseInv, Created
  <2>4. Counters'
    BY <2>1, <2>2 DEF CountInv, Counters
  <2>5. Issued' /\ Distinct'
    BY <1>0, <2>1, <2>3 DEF CountInv, Issued, IssuedBy, Distinct
  <2> QED
    BY <2>4, <2>5 DEF CountInv
<1>6. ASSUME NEW p \in Procs, MainStep(p) PROVE CountInv'
  <2>1. MainEffect(p)
    BY <1>6, ReadLinkEffect, ReceiveEffect, UnlinkEffect, SymlinkEffect,
       CreateEffect, ShmatEffect, ShmdtEffect, ShmctlEffect DEF MainStep
  <2>2. CASE DOMAIN mems' = DOMAIN mems
    BY <2>1, <2>2, MainKeepsCounts DEF CountEffect
  <2>3. CASE Create(p)
    <3>1. CountEffect(p)
      BY <2>3, CreateEffect DEF CountEffect
    <3> QED
      BY <2>1, <3>1, MainKeepsCounts
  <2>4. DOMAIN mems' = DOMAIN mems \/ Create(p)
    BY <1>6, ReadLinkEffect, ReceiveEffect, UnlinkEffect, SymlinkEffect,
       ShmatEffect, ShmdtEffect, ShmctlEffect DEF MainStep, Stays
  <2> QED
    BY <2>2, <2>3, <2>4
<1>7. ASSUME NEW p \in Procs,
             \/ ShmgetStep(p) \/ OtherCall(p) \/ MainStep(p) \/ ThreadStep(p)
             \/ Die(p) \/ \E q \in Procs : Fork(p, q)
      PROVE  CountInv'
  <2>1. CASE ShmgetStep(p) \/ OtherCall(p)
    BY <1>2, <2>1, ShmgetEffect, OtherCallEffect
  <2>2. CASE MainStep(p)
    BY <1>6, <2>2
  <2>3. CASE ThreadStep(p)
    BY <1>3, <2>3, AcceptEffect, ThreadLocksEffect, AnswerEffect
       DEF ThreadStep
  <2>4. CASE Die(p) \/ \E q \in Procs : Fork(p, q)
    BY <1>4, <1>5, <2>4
  <2> QED
    BY <1>7, <2>1, <2>2, <2>3, <2>4
<1> QED
  BY <1>1, <1>7 DEF Next

(* Two living creators have two sockets, hence different identifiers.      *)
LEMMA CreatorsDiffer ==
    ASSUME NoWrap, BaseInv, CountInv, NEW m \in DOMAIN mems,
           NEW n \in DOMAIN mems, mems[m].by # mems[n].by,
           life[mems[m].by] = "alive", life[mems[n].by] = "alive"
    PROVE  mems[m].id # mems[n].id
<1> DEFINE p == mems[m].by
           q == mems[n].by
<1>1. p \in Procs /\ q \in Procs
  BY MemType DEF BaseInv
<1>2. st[p].setup = p /\ st[p].listening /\ st[q].setup = q /\ st[q].listening
  BY DEF BaseInv, Created
<1> HIDE DEF p, q
<1>3. st[p].localId # st[q].localId
  <2>1. sock[st[p].localId].by = p /\ sock[st[q].localId].by = q
    BY <1>1, <1>2 DEF BaseInv, OwnSocket
  <2> QED
    BY <2>1 DEF p, q
<1>4. /\ st[p].localId \in SocketIds /\ st[q].localId \in SocketIds
      /\ st[p].counter \in Nat /\ st[q].counter \in Nat
      /\ hist.calls \in Nat /\ MaxCalls \in Nat /\ HalfWord \div 2 \in Nat
  BY <1>1, Halves, SharedMemoryAssumption
     DEF BaseInv, TypeInv, Typed, States
<1>5. st[p].counter < HalfWord \div 2 /\ st[q].counter < HalfWord \div 2
  BY <1>1, <1>4 DEF NoWrap, CountInv, Counters
<1>6. PICK c \in Nat : /\ c <= st[p].counter
                       /\ mems[m].id =
                             ashv_shmid_from_counter(st[p].localId, c)
  BY DEF p, CountInv, Issued, IssuedBy
<1>7. PICK d \in Nat : /\ d <= st[q].counter
                       /\ mems[n].id =
                             ashv_shmid_from_counter(st[q].localId, d)
  BY DEF q, CountInv, Issued, IssuedBy
<1>8. c < HalfWord \div 2 /\ d < HalfWord \div 2
  BY <1>4, <1>5, <1>6, <1>7
<1> QED
  BY <1>3, <1>4, <1>6, <1>7, <1>8, SameId

(* Whoever asks for an identifier is given the memory created under it,    *)
(* and no two segments of living creators share an identifier (shmem.c),   *)
(* through forks, deaths and reused socket numbers, as long as fewer calls *)
(* are made than there are counter values.                                 *)
THEOREM MemoryIsRight == NoWrap => (Spec => []RightMemory)
<1> SUFFICES ASSUME NoWrap PROVE Spec => []RightMemory
  OBVIOUS
<1>1. BaseInv /\ CountInv => RightMemory
  <2> SUFFICES ASSUME BaseInv, CountInv PROVE RightMemory
    OBVIOUS
  <2>1. ASSUME NEW p \in Living, NEW i \in DOMAIN Table(p)
        PROVE  /\ Table(p)[i].id = mems[Table(p)[i].mem].id
               /\ Table(p)[i].key = mems[Table(p)[i].mem].key
    <3>1. p \in Procs /\ st[p] \in States
      BY DEF Living, BaseInv, TypeInv, Typed
    <3>2. Table(p) = st[p].shmem \/ Table(p) = <<>>
      BY <3>1, CheckedType DEF Table
    <3>3. Table(p) = st[p].shmem
      BY <3>2
    <3> QED
      BY <3>1, <3>3 DEF BaseInv, GoodTables, GoodSegment
  <2>2. ASSUME NEW m \in DOMAIN mems, NEW n \in DOMAIN mems, m # n,
               mems[m].id = mems[n].id
        PROVE  ~({mems[m].by, mems[n].by} \subseteq Living)
    <3> SUFFICES ASSUME mems[m].by \in Living, mems[n].by \in Living
                 PROVE  FALSE
      OBVIOUS
    <3>1. life[mems[m].by] = "alive" /\ life[mems[n].by] = "alive"
      BY DEF Living
    <3>2. mems[m].by # mems[n].by
      BY <2>2, <3>1 DEF CountInv, Distinct
    <3> QED
      BY <2>2, <3>1, <3>2, CreatorsDiffer
  <2> QED
    BY <2>1, <2>2 DEF RightMemory
<1>2. Init => BaseInv /\ CountInv
  BY InitBase, InitCounts
<1>3. (BaseInv /\ CountInv) /\ [Next]_vars => (BaseInv /\ CountInv)'
  BY NextKeepsBase, NextKeepsCounts
<1> QED
  BY <1>1, <1>2, <1>3, PTL DEF Spec

-----------------------------------------------------------------------------
(* A key has one owner.  Whoever takes a key over has been refused by the  *)
(* one who answers for the identifier in the link; that this was a living  *)
(* creator of the segment, and had it, takes the other invariants and some *)
(* facts about who serves whom.                                            *)
MutexHeld ==
    \A p \in Procs :
       /\ call[p].at \notin {"idle", "lock"} => st[p].mutex = "main"
       /\ thread[p].at = "answer" => st[p].mutex = "thread"

OneSocket ==
    \A s \in SocketIds : sock[s].by # 0 =>
       /\ st[sock[s].by].setup = sock[s].by /\ st[sock[s].by].listening
       /\ st[sock[s].by].localId = s

Serves(p, c) == thread[p].at \in {"lock", "answer"} /\ thread[p].for = c

Served ==
    \A p \in Procs :
       /\ thread[p].at # "none" => st[p].listening
       /\ thread[p].at \in {"lock", "answer"} => thread[p].for \in Procs
       /\ \A c \in Procs : Serves(p, c) /\ life[c] # "dead" =>
             /\ conn[c].at = "accepted" /\ p \in conn[c].holders
             /\ conn[c].to = st[p].localId

Asked ==
    \A p \in Procs :
       /\ conn[p].at \in {"queued", "accepted"} =>
             conn[p].to = ashv_socket_id_from_shmid(call[p].id)
       /\ call[p].at = "create" => call[p].new # -1
       /\ call[p].new # NoLink

Linkable == \A m \in DOMAIN mems : mems[m].id # NoLink

ServeInv == MutexHeld /\ OneSocket /\ Served /\ Asked /\ Linkable

Linked == \A k \in Keys : \A id \in Int : Owned(k, id) => link[k] = id

OneOwner ==
    \A k \in Keys :
       /\ \A m, n \in DOMAIN mems : InUse(m, k) /\ InUse(n, k) => m = n
       /\ \A p, q \in Procs : Creating(p, k) /\ Creating(q, k) => p = q
       /\ \A m \in DOMAIN mems, p \in Procs : ~(InUse(m, k) /\ Creating(p, k))

(* The answer will not come, and the connection be closed instead.         *)
GivenUp(p) ==
    \/ conn[p].at = "closed"
    \/ conn[p].at = "accepted" /\ \A q \in Procs : ~Serves(q, p)

Stale ==
    \A p \in Procs, k \in Keys, id \in Int :
       /\ call[p].op = "get" /\ call[p].key = k /\ call[p].id = id
       /\ call[p].at = "unlink" \/ GivenUp(p)
       => ~Owned(k, id)

KeyInv == ~hist.misled => Linked /\ OneOwner /\ Stale

(* How the calling thread leaves the mutex, its connection and its call.   *)
Settles(p) ==
    /\ call'[p].at = "idle" \/ st'[p].mutex = "main"
    /\ conn'[p].at = "queued" =>
          conn'[p].to = ashv_socket_id_from_shmid(call'[p].id)

(* A link is only given up when its owner did not have the segment, or     *)
(* there is no owner, or an error misled the caller.                       *)
GivesUp(p) ==
    call'[p].at = "unlink" =>
       \/ /\ conn[p].at = "closed" /\ call[p].op = "get"
          /\ call'[p].id = call[p].id /\ call'[p].key = call[p].key
       \/ LET s == ashv_socket_id_from_shmid(call'[p].id)
          IN  ~(s \in SocketIds /\ sock[s].holders # {})
       \/ Owned(call'[p].key, call'[p].id) => hist'.misled

LEMMA ReturnSettles ==
    ASSUME TypeInv, NEW p \in Procs, NEW s, Return(p, s)
    PROVE  call'[p].at = "idle"
BY DEF TypeInv, Typed, Return, Idle

LEMMA MainMutex ==
    ASSUME TypeInv, NEW p \in Procs, st' = [st EXCEPT ![p].mutex = "main"]
    PROVE  st'[p].mutex = "main"
<1>1. st \in [Procs -> States] /\ st[p] \in States
  BY DEF TypeInv, Typed
<1> QED
  BY <1>1 DEF States

LEMMA RefusedSettles ==
    ASSUME TypeInv, NEW p \in Procs, NEW id, Refused(p, id)
    PROVE  /\ call'[p].at = "idle" \/ st'[p].mutex = "main"
           /\ \/ call'[p].at = "idle"
              \/ /\ call'[p].at = "unlink" /\ call[p].op = "get"
                 /\ call'[p].id = id /\ call'[p].key = call[p].key
<1>1. CASE call[p].op = "get"
  <2>1. call \in [Procs -> Calls] /\ call[p] \in Calls
    BY DEF TypeInv, Typed
  <2>2. call' = [call EXCEPT ![p] = [call[p] EXCEPT !.at = "unlink",
                                                    !.id = id]]
    BY <1>1 DEF Refused
  <2>3. call'[p] = [call[p] EXCEPT !.at = "unlink", !.id = id]
    BY <2>1, <2>2
  <2>4. call'[p].at = "unlink" /\ call'[p].id = id
        /\ call'[p].key = call[p].key
    BY <2>1, <2>3 DEF Calls
  <2> QED
    BY <1>1, <2>4, MainMutex DEF Refused
<1>2. CASE call[p].op # "get"
  BY <1>2, ReturnSettles DEF Refused
<1> QED
  BY <1>1, <1>2

LEMMA AskSettles ==
    ASSUME BaseInv, NEW p \in Procs, NEW id, Ask(p, id), conn[p].at = "none"
    PROVE  Settles(p) /\ GivesUp(p) /\ call'[p].at # "create"
<1> DEFINE s == ashv_socket_id_from_shmid(id)
<1>0. /\ TypeInv /\ call \in [Procs -> Calls] /\ call[p] \in Calls
      /\ conn \in [Procs -> Sockets]
  BY DEF BaseInv, TypeInv, Typed
<1>1. CASE /\ Refused(p, id) /\ UNCHANGED conn
           /\ Misled(p, id, s \in SocketIds /\ sock[s].holders # {})
  <2>1. /\ call'[p].at = "idle" \/ st'[p].mutex = "main"
        /\ \/ call'[p].at = "idle"
           \/ /\ call'[p].at = "unlink" /\ call[p].op = "get"
              /\ call'[p].id = id /\ call'[p].key = call[p].key
    BY <1>0, <1>1, RefusedSettles
  <2>2. /\ s \in SocketIds /\ sock[s].holders # {} /\ call[p].op = "get"
        /\ Owned(call[p].key, id)
        => hist'.misled
    BY <1>0, <1>1, MisledEffect
  <2> QED
    BY <1>1, <2>1, <2>2 DEF Settles, GivesUp
<1>2. CASE /\ conn' = [conn EXCEPT ![p] = [NoConn EXCEPT !.at = "queued",
                                                         !.to = s]]
           /\ call' = [call EXCEPT ![p].at = "wait", ![p].id = id]
           /\ st' = [st EXCEPT ![p].mutex = "main"]
  <2>1. conn'[p] = [NoConn EXCEPT !.at = "queued", !.to = s]
    BY <1>0, <1>2
  <2>2. conn'[p].to = s
    <3> HIDE DEF s
    <3> QED
      BY <2>1 DEF NoConn
  <2>3. call'[p] = [call[p] EXCEPT !.at = "wait", !.id = id]
    BY <1>0, <1>2
  <2>4. call'[p].at = "wait" /\ call'[p].id = id
    BY <1>0, <2>3 DEF Calls
  <2>5. st'[p].mutex = "main"
    BY <1>0, <1>2, MainMutex
  <2> QED
    BY <2>2, <2>4, <2>5 DEF Settles, GivesUp
<1> QED
  BY <1>1, <1>2 DEF Ask

LEMMA CallerSettles ==
    ASSUME BaseInv, MutexHeld, NEW p \in Procs, MainStep(p)
    PROVE  /\ Settles(p) /\ GivesUp(p)
           /\ conn[p].at \notin {"queued", "accepted"}
           /\ thread[p].at # "answer"
           /\ call'[p].at = "create" => Symlink(p)
<1>0. /\ TypeInv /\ call \in [Procs -> Calls] /\ call[p] \in Calls
      /\ conn \in [Procs -> Sockets] /\ st \in [Procs -> States]
  BY DEF BaseInv, TypeInv, Typed
<1>1. /\ \/ call[p].at \in {"wait", "unlink", "symlink", "readlink", "create"}
         \/ call[p].at = "lock" /\ st[p].mutex = "free"
      /\ call[p].at = "wait" => Receive(p)
  BY DEF MainStep, ReadLink, Receive, Unlink, Symlink, Create, Shmat, Shmdt,
         Shmctl, Locked
<1>2. thread[p].at # "answer"
  BY <1>1 DEF MutexHeld
<1>3. conn[p].at \notin {"queued", "accepted"}
  <2>1. CASE call[p].at = "wait"
    BY <1>1, <2>1 DEF Receive
  <2>2. CASE call[p].at # "wait"
    BY <2>2 DEF BaseInv, Answered
  <2> QED
    BY <2>1, <2>2
<1>4. ASSUME call[p].at # "wait", UNCHANGED conn, call'[p].at # "unlink",
             call'[p].at = "idle" \/ st'[p].mutex = "main"
      PROVE  Settles(p) /\ GivesUp(p)
  BY <1>4 DEF Settles, GivesUp, BaseInv, Answered
<1>5. CASE ReadLink(p)
  <2>1. call[p].at \in {"lock", "readlink"}
    BY <1>5 DEF ReadLink, Locked
  <2>2. conn[p].at = "none"
    BY <2>1 DEF BaseInv, Answered
  <2>3. CASE Return(p, st[p]) /\ UNCHANGED conn
    <3>1. call'[p].at = "idle"
      BY <1>0, <2>3, ReturnSettles
    <3> QED
      BY <1>2, <1>3, <1>4, <2>1, <2>3, <3>1
  <2>4. CASE Ask(p, link[call[p].key])
    BY <1>2, <1>3, <2>2, <2>4, AskSettles
  <2>5. CASE GoOn(p, "symlink") /\ UNCHANGED conn
    <3>1. call' = [call EXCEPT ![p] = [call[p] EXCEPT !.at = "symlink"]]
      BY <2>5 DEF GoOn
    <3>2. call'[p].at = "symlink"
      BY <1>0, <3>1 DEF Calls
    <3>3. st'[p].mutex = "main"
      BY <1>0, <2>5, MainMutex DEF GoOn
    <3> QED
      BY <1>2, <1>3, <1>4, <2>1, <2>5, <3>2, <3>3
  <2> QED
    BY <1>5, <2>3, <2>4, <2>5 DEF ReadLink
<1>6. CASE Receive(p)
  <2>1. call[p].at = "wait" /\ conn' = [conn EXCEPT ![p] = NoConn]
    BY <1>6 DEF Receive
  <2>2. conn'[p].at = "none"
    BY <1>0, <2>1 DEF NoConn
  <2>3. CASE \E s : Return(p, s)
    <3>1. call'[p].at = "idle"
      BY <1>0, <2>3, ReturnSettles
    <3> QED
      BY <1>2, <1>3, <2>2, <3>1 DEF Settles, GivesUp
  <2>4. CASE /\ conn[p].at \in {"answered", "closed"}
             /\ Refused(p, call[p].id)
             /\ Misled(p, call[p].id, conn[p].at = "answered")
    <3>2. /\ conn[p].at = "answered" /\ call[p].op = "get"
          /\ Owned(call[p].key, call[p].id)
          => hist'.misled
      BY <1>0, <2>4, MisledEffect
    <3>1. /\ call'[p].at = "idle" \/ st'[p].mutex = "main"
          /\ \/ call'[p].at = "idle"
             \/ /\ call'[p].at = "unlink" /\ call[p].op = "get"
                /\ call'[p].id = call[p].id /\ call'[p].key = call[p].key
      BY <1>0, <2>4, RefusedSettles
    <3> QED
      BY <1>2, <1>3, <2>2, <2>4, <3>1, <3>2 DEF Settles, GivesUp
  <2> QED
    BY <1>6, <2>3, <2>4 DEF Receive
<1>7. CASE Unlink(p)
  <2>1. call[p].at = "unlink" /\ UNCHANGED conn /\ GoOn(p, "symlink")
    BY <1>7 DEF Unlink
  <2>2. call' = [call EXCEPT ![p] = [call[p] EXCEPT !.at = "symlink"]]
    BY <2>1 DEF GoOn
  <2>3. call'[p].at = "symlink"
    BY <1>0, <2>2 DEF Calls
  <2>4. st'[p].mutex = "main"
    BY <1>0, <2>1, MainMutex DEF GoOn
  <2> QED
    BY <1>2, <1>3, <1>4, <2>1, <2>3, <2>4
<1>8. CASE Symlink(p)
  <2>1. call[p].at = "symlink" /\ UNCHANGED conn
    BY <1>8 DEF Symlink
  <2>2. st[p].mutex = "main" /\ st[p] \in States
    BY <1>0, <2>1 DEF MutexHeld
  <2>3. st' = [st EXCEPT ![p] = [st[p] EXCEPT !.counter = Number(p).counter]]
    BY <1>8 DEF Symlink
  <2>4. st'[p] = [st[p] EXCEPT !.counter = Number(p).counter]
    BY <1>0, <2>3
  <2>5. st'[p].mutex = "main"
    BY <2>2, <2>4 DEF States
  <2>6. PICK at \in {"create", "readlink"} :
               call' = [call EXCEPT ![p] = [call[p] EXCEPT !.at = at,
                                                     !.new = Number(p).id]]
    BY <1>8 DEF Symlink
  <2>7. call'[p].at # "unlink"
    <3>1. call'[p] = [call[p] EXCEPT !.at = at, !.new = Number(p).id]
      BY <1>0, <2>6
    <3> QED
      BY <1>0, <2>6, <3>1 DEF Calls
  <2> QED
    BY <1>2, <1>3, <1>4, <1>8, <2>1, <2>5, <2>7
<1>9. CASE Shmat(p)
  <2>1. call[p].at = "lock" /\ conn[p].at = "none"
    BY <1>9 DEF Shmat, Locked, BaseInv, Answered
  <2>2. CASE Ask(p, call[p].id)
    BY <1>2, <1>3, <2>1, <2>2, AskSettles
  <2>3. CASE (\E s : Return(p, s)) /\ UNCHANGED conn
    <3>1. call'[p].at = "idle"
      BY <1>0, <2>3, ReturnSettles
    <3> QED
      BY <1>2, <1>3, <1>4, <2>1, <2>3, <3>1
  <2> QED
    BY <1>9, <2>2, <2>3 DEF Shmat
<1>10. CASE Create(p) \/ Shmdt(p) \/ Shmctl(p)
  <2>1. call[p].at # "wait" /\ UNCHANGED conn
    BY <1>10 DEF Create, Shmdt, Shmctl, Locked
  <2>2. \E s : Return(p, s)
    BY <1>10 DEF Create, Shmdt, Shmctl
  <2>3. call'[p].at = "idle"
    BY <1>0, <2>2, ReturnSettles
  <2> QED
    BY <1>2, <1>3, <1>4, <2>1, <2>3
<1> QED
  BY <1>5, <1>6, <1>7, <1>8, <1>9, <1>10 DEF MainStep

(* No number is 0: the counter is at least 1 when it has been drawn from,  *)
(* as long as it does not wrap.                                            *)
LEMMA NumberIsNoFailure ==
    ASSUME NoWrap, BaseInv, CountInv, Asked, NEW p \in Procs,
           call[p].at # "idle"
    PROVE  Number(p).id # NoLink /\ Number(p).id # -1
<1> DEFINE h == HalfWord \div 2
           c == st[p].counter
           l == st[p].localId
<1>0. /\ c \in Nat /\ l \in SocketIds /\ h \in Nat /\ hist.calls \in Nat
      /\ MaxCalls \in Nat /\ MaxCalls < h /\ hist.calls <= MaxCalls
      /\ c <= hist.calls
  BY SharedMemoryAssumption, Halves
     DEF NoWrap, BaseInv, TypeInv, Typed, States, CountInv, Counters
<1>1. CASE call[p].new # -1
  BY <1>1, NumberIs DEF Asked
<1>2. CASE call[p].new = -1
  <2>1. c < hist.calls
    BY <1>2 DEF CountInv, Counters
  <2>2. c + 1 < h /\ c + 1 \in Nat
    BY <1>0, <2>1
  <2>3. (c + 1) % h = c + 1
    <3> HIDE DEF h, c
    <3> QED
      BY <1>0, <2>2
  <2>4. Number(p).id = ashv_shmid_from_counter(l, c + 1)
    BY <1>2, <2>3, NumberIs
  <2>5. ashv_shmid_from_counter(l, c + 1) # 0
    <3> DEFINE n == l * HalfWord + (c + 1)
               w == HalfWord * HalfWord
    <3>1. n \in Nat /\ n + 1 < w /\ w \in Int
      BY <1>0, <2>2, Square, Halves
    <3>2. n # 0
      <4>1. l * HalfWord \in Nat
        BY <1>0, Halves DEF SocketIds
      <4> QED
        BY <1>0, <4>1
    <3>3. ashv_shmid_from_counter(l, c + 1) \in {n, n - w}
      BY DEF ashv_shmid_from_counter
    <3> HIDE DEF n, w
    <3> QED
      BY <3>1, <3>2, <3>3
  <2>6. ashv_shmid_from_counter(l, c + 1) # -1
    BY <1>0, <2>2, NotFailure
  <2> QED
    BY <2>4, <2>5, <2>6 DEF NoLink
<1> QED
  BY <1>1, <1>2

LEMMA InitServes == Init => ServeInv
<1> SUFFICES ASSUME Init PROVE ServeInv
  OBVIOUS
<1>1. /\ mems = <<>>
      /\ \A p \in Procs : /\ call[p] = Idle /\ thread[p] = NoThread
                          /\ conn[p] = NoConn
      /\ \A s \in SocketIds : sock[s].by = 0
  BY DEF Init
<1>2. /\ Idle.at = "idle" /\ Idle.new = -1 /\ NoThread.at = "none"
      /\ NoConn.at = "none"
  BY DEF Idle, NoThread, NoConn
<1>3. MutexHeld /\ OneSocket
  BY <1>1, <1>2 DEF MutexHeld, OneSocket
<1>4. Served
  BY <1>1, <1>2 DEF Served, Serves
<1>5. Asked /\ Linkable
  BY <1>1, <1>2 DEF Asked, Linkable, NoLink
<1> QED
  BY <1>3, <1>4, <1>5 DEF ServeInv

LEMMA MainStepEffect ==
    ASSUME BaseInv, NEW p \in Procs, MainStep(p)
    PROVE  TypeInv' /\ MainEffect(p)
BY ReadLinkEffect, ReceiveEffect, UnlinkEffect, SymlinkEffect, CreateEffect,
   ShmatEffect, ShmdtEffect, ShmctlEffect DEF MainStep

(* Only Create makes segments, of the key of the call.                     *)
LEMMA NewSegments ==
    ASSUME BaseInv, NEW p \in Procs, MainStep(p), DOMAIN mems' # DOMAIN mems
    PROVE  /\ Create(p)
           /\ \A m \in DOMAIN mems' \ DOMAIN mems :
                 /\ mems'[m].id = Number(p).id
                 /\ mems'[m].key = call[p].key
           /\ \A m, n \in DOMAIN mems' \ DOMAIN mems : m = n
           /\ \A m \in DOMAIN mems : mems'[m] = mems[m]
<1>1. Create(p)
  BY ReadLinkEffect, ReceiveEffect, UnlinkEffect, SymlinkEffect,
     ShmatEffect, ShmdtEffect, ShmctlEffect DEF MainStep, Stays
<1>2. mems \in Seq(Mems)
  BY DEF BaseInv, TypeInv, Typed
<1> DEFINE new == [id |-> Number(p).id, key |-> call[p].key, by |-> p,
                   removed |-> FALSE]
<1>3. mems' = Append(mems, new)
  BY <1>1 DEF Create
<1>4. new.key = call[p].key
  OBVIOUS
<1> HIDE DEF new
<1>5. \A m \in DOMAIN mems' \ DOMAIN mems : mems'[m] = new
  BY <1>2, <1>3
<1> QED
  BY <1>1, <1>4, <1>5, CreateEffect

LEMMA SymlinkMakes ==
    ASSUME BaseInv, NEW p \in Procs, Symlink(p)
    PROVE  /\ call'[p].new = Number(p).id /\ call'[p].key = call[p].key
           /\ call[p].key \in Keys /\ call'[p].at \in {"create", "readlink"}
           /\ call'[p].at = "create" =>
                 /\ link[call[p].key] = NoLink
                 /\ link' = [link EXCEPT ![call[p].key] = Number(p).id]
                 /\ hist'.misled = (hist.misled
                                   \/ AskedFor(call[p].key, Number(p).id))
           /\ call'[p].at = "readlink" => UNCHANGED <<link, hist>>
<1> DEFINE n == Number(p)
           a == hist.misled \/ AskedFor(call[p].key, n.id)
<1>0. /\ call \in [Procs -> Calls] /\ call[p] \in Calls /\ Keyed
      /\ hist \in [calls : Nat, misled : BOOLEAN] /\ call[p].at = "symlink"
  BY DEF BaseInv, TypeInv, Typed, Symlink
<1>1. call[p].key \in Keys
  BY <1>0 DEF Keyed
<1>2. \/ /\ LinkMade(p)
         /\ link' = [link EXCEPT ![call[p].key] = n.id]
         /\ hist' = [hist EXCEPT !.misled = a]
         /\ call' = [call EXCEPT ![p] = [call[p] EXCEPT !.at = "create",
                                                        !.new = n.id]]
      \/ /\ call' = [call EXCEPT ![p] = [call[p] EXCEPT !.at = "readlink",
                                                        !.new = n.id]]
         /\ UNCHANGED <<link, hist>>
  BY DEF Symlink
<1> HIDE DEF n, a
<1>3. CASE /\ LinkMade(p)
           /\ link' = [link EXCEPT ![call[p].key] = n.id]
           /\ hist' = [hist EXCEPT !.misled = a]
           /\ call' = [call EXCEPT ![p] = [call[p] EXCEPT !.at = "create",
                                                          !.new = n.id]]
  <2>1. call'[p] = [call[p] EXCEPT !.at = "create", !.new = n.id]
    BY <1>0, <1>3
  <2>2. call'[p].at = "create" /\ call'[p].new = n.id
        /\ call'[p].key = call[p].key
    BY <1>0, <2>1 DEF Calls
  <2>3. hist'.misled = a
    BY <1>0, <1>3
  <2> QED
    BY <1>1, <1>3, <2>2, <2>3 DEF LinkMade, n, a
<1>4. CASE /\ call' = [call EXCEPT ![p] = [call[p] EXCEPT !.at = "readlink",
                                                          !.new = n.id]]
           /\ UNCHANGED <<link, hist>>
  <2>1. call'[p] = [call[p] EXCEPT !.at = "readlink", !.new = n.id]
    BY <1>0, <1>4
  <2>2. call'[p].at = "readlink" /\ call'[p].new = n.id
        /\ call'[p].key = call[p].key
    BY <1>0, <2>1 DEF Calls
  <2> QED
    BY <1>1, <1>4, <2>2 DEF n
<1> QED
  BY <1>2, <1>3, <1>4

LEMMA MainKeepsServing ==
    ASSUME NoWrap, BaseInv, CountInv, ServeInv, NEW p \in Procs, MainStep(p)
    PROVE  ServeInv'
<1>1. MainEffect(p)
  BY MainStepEffect
<1>2. /\ Settles(p) /\ conn[p].at \notin {"queued", "accepted"}
      /\ thread[p].at # "answer" /\ (call'[p].at = "create" => Symlink(p))
  BY CallerSettles DEF ServeInv
<1>3. call[p].at # "idle" /\ life[p] = "alive"
  BY <1>1 DEF MainEffect, BaseInv, Awake, Idle
<1>4. Number(p).id # NoLink /\ Number(p).id # -1
  BY <1>3, NumberIsNoFailure DEF ServeInv
<1>5. MutexHeld'
  BY <1>1, <1>2 DEF Settles, MutexHeld, ServeInv, MainEffect, Others
<1>6. OneSocket'
  <2>1. \A s \in SocketIds : sock[s].by \in Procs \cup {0}
    BY DEF BaseInv, TypeInv, Typed
  <2> QED
    BY <1>1, <2>1 DEF OneSocket, ServeInv, MainEffect, Others, SameSelf
<1>7. Served'
  <2> SUFFICES ASSUME NEW q \in Procs
               PROVE  /\ thread[q].at # "none" => st'[q].listening
                      /\ thread[q].at \in {"lock", "answer"}
                            => thread[q].for \in Procs
                      /\ \A c \in Procs : Serves(q, c) /\ life[c] # "dead" =>
                            /\ conn'[c].at = "accepted"
                            /\ q \in conn'[c].holders
                            /\ conn'[c].to = st'[q].localId
    BY <1>1 DEF Served, Serves, MainEffect
  <2>1. SameSelf(st[q], st'[q])
    BY <1>1 DEF MainEffect, Others, SameSelf
  <2>2. ASSUME NEW c \in Procs, Serves(q, c), life[c] # "dead"
        PROVE  /\ conn'[c].at = "accepted" /\ q \in conn'[c].holders
               /\ conn'[c].to = st'[q].localId
    <3>1. conn[c].at = "accepted" /\ q \in conn[c].holders
          /\ conn[c].to = st[q].localId
      BY <2>2 DEF ServeInv, Served
    <3>2. c # p
      BY <1>2, <3>1
    <3> QED
      BY <1>1, <2>1, <3>1, <3>2 DEF MainEffect, SameSelf
  <2> QED
    BY <2>1, <2>2 DEF ServeInv, Served, SameSelf
<1>8. call'[p].new # NoLink
  <2>1. call[p].new # NoLink /\ -1 # NoLink
    BY DEF ServeInv, Asked, NoLink
  <2>2. CASE call'[p].new \in {call[p].new, -1}
    BY <2>1, <2>2
  <2>3. CASE /\ call[p].new = -1
             /\ st'[p].counter = (st[p].counter + 1) % (HalfWord \div 2)
             /\ call'[p].new = ashv_shmid_from_counter(st[p].localId,
                                                       st'[p].counter)
    BY <1>4, <2>3, NumberIs
  <2> QED
    BY <1>1, <2>2, <2>3 DEF MainEffect, Drawn
<1>9. call'[p].at = "create" => call'[p].new # -1
  BY <1>2, <1>4, SymlinkMakes
<1>10. conn'[p].at # "accepted"
  BY <1>1 DEF MainEffect
<1>11. Asked'
  BY <1>1, <1>2, <1>8, <1>9, <1>10
     DEF Asked, ServeInv, Settles, MainEffect, Others
<1>12. Linkable'
  <2>1. CASE DOMAIN mems' = DOMAIN mems
    BY <1>1, <2>1 DEF ServeInv, Linkable, MainEffect, Grows
  <2>2. CASE DOMAIN mems' # DOMAIN mems
    BY <1>4, <2>2, NewSegments DEF ServeInv, Linkable
  <2> QED
    BY <2>1, <2>2
<1> QED
  BY <1>5, <1>6, <1>7, <1>11, <1>12 DEF ServeInv

(* The beginning of a call leaves a thread that answers alone.             *)
LEMMA BeginStarts ==
    ASSUME BaseInv, NEW p \in Procs, ShmgetStep(p) \/ OtherCall(p)
    PROVE  /\ \/ thread'[p] = thread[p]
              \/ /\ thread'[p] = Accepting /\ st'[p].listening
                 /\ ~ashv_check_pid(st[p], p).listening
           /\ st[p].setup = p => st'[p].mutex = st[p].mutex
           /\ \A s \in SocketIds :
                 \/ sock'[s] = sock[s]
                 \/ /\ s = st'[p].localId /\ st'[p].listening
                    /\ sock'[s].by = p
           /\ hist'.misled = hist.misled
<1> DEFINE s == ashv_check_pid(st[p], p)
<1>0. /\ TypeInv /\ st \in [Procs -> States] /\ st[p] \in States
      /\ thread \in [Procs -> Threads]
      /\ sock \in [SocketIds -> [by : Procs \cup {0}, holders : SUBSET Procs]]
      /\ hist \in [calls : Nat, misled : BOOLEAN]
  BY DEF BaseInv, TypeInv, Typed
<1>1. s \in States /\ (st[p].setup = p => s = st[p])
  BY <1>0, CheckedType
<1>2. hist'.misled = hist.misled
  <2>1. hist' = [hist EXCEPT !.calls = hist.calls + 1]
    BY DEF ShmgetStep, shmget, OtherCall, Begin
  <2> QED
    BY <1>0, <2>1
<1>3. CASE st' = [st EXCEPT ![p] = s] /\ UNCHANGED <<sock, thread>>
  <2> HIDE DEF s
  <2>1. st'[p] = s
    BY <1>0, <1>3
  <2> QED
    BY <1>1, <1>2, <1>3, <2>1
<1>4. CASE ~(st' = [st EXCEPT ![p] = s] /\ UNCHANGED <<sock, thread>>)
  <2>1. PICK k \in Keys \cup {IPC_PRIVATE} : shmget(p, k)
    BY <1>4 DEF ShmgetStep, OtherCall
  <2>2. ~s.listening /\ thread' = [thread EXCEPT ![p] = Accepting]
    BY <1>4, <2>1 DEF shmget
  <2>3. PICK i \in 0..(Tries - 1) :
               /\ st' = [st EXCEPT ![p] =
                           [s EXCEPT !.localId = (p + i) % HalfWord,
                                     !.listening = TRUE]]
               /\ sock' = [sock EXCEPT ![(p + i) % HalfWord] =
                             [by |-> p, holders |-> {p}]]
    BY <1>4, <2>1 DEF shmget
  <2> DEFINE l == (p + i) % HalfWord
             t == [s EXCEPT !.localId = l, !.listening = TRUE]
  <2>4. /\ st' = [st EXCEPT ![p] = t]
        /\ sock' = [sock EXCEPT ![l] = [by |-> p, holders |-> {p}]]
    BY <2>3
  <2> HIDE DEF l, s
  <2>5. t.localId = l /\ t.listening /\ t.mutex = s.mutex
    BY <1>1 DEF States
  <2> HIDE DEF t
  <2>6. st'[p] = t /\ thread'[p] = Accepting
    BY <1>0, <2>2, <2>4
  <2>7. \A x \in SocketIds : sock'[x] = sock[x] \/ (x = l /\ sock'[x].by = p)
    BY <1>0, <2>4
  <2> QED
    BY <1>1, <1>2, <2>2, <2>5, <2>6, <2>7 DEF s
<1> QED
  BY <1>3, <1>4

LEMMA BeginKeepsServing ==
    ASSUME BaseInv, ServeInv, NEW p \in Procs, ShmgetStep(p) \/ OtherCall(p)
    PROVE  /\ ServeInv'
           /\ \A q, c \in Procs : Serves(q, c)' <=> Serves(q, c)
<1>1. BeginEffect(p)
  BY ShmgetEffect, OtherCallEffect
<1>2. /\ \/ thread'[p] = thread[p]
         \/ /\ thread'[p] = Accepting /\ st'[p].listening
            /\ ~ashv_check_pid(st[p], p).listening
      /\ st[p].setup = p => st'[p].mutex = st[p].mutex
      /\ \A s \in SocketIds :
            \/ sock'[s] = sock[s]
            \/ s = st'[p].localId /\ st'[p].listening /\ sock'[s].by = p
  BY BeginStarts
<1>3. /\ UNCHANGED <<life, conn, link, mems>>
      /\ \A q \in Procs \ {p} :
            st'[q] = st[q] /\ call'[q] = call[q] /\ thread'[q] = thread[q]
      /\ life[p] = "alive" /\ call[p].at = "idle"
      /\ call'[p].at = "lock" /\ call'[p].new = -1
      /\ st'[p].setup = p
      /\ \/ SameSelf(ashv_check_pid(st[p], p), st'[p])
         \/ ~ashv_check_pid(st[p], p).listening
  BY <1>1 DEF BeginEffect, Idle
<1>4. st[p].setup = p => ashv_check_pid(st[p], p) = st[p]
  BY CheckedType DEF BaseInv, TypeInv, Typed
<1>5. Accepting.at = "accept"
  BY DEF Accepting
<1>6. thread[p].at # "none" =>
         /\ st[p].setup = p /\ st[p].listening /\ thread'[p] = thread[p]
         /\ SameSelf(st[p], st'[p]) /\ st'[p].mutex = st[p].mutex
  BY <1>2, <1>3, <1>4 DEF BaseInv, Awake, ServeInv, Served
<1>7. \A q, c \in Procs : Serves(q, c)' <=> Serves(q, c)
  BY <1>2, <1>3, <1>5, <1>6 DEF Serves
<1>8. MutexHeld'
  BY <1>2, <1>3, <1>5, <1>6 DEF MutexHeld, ServeInv
<1>9. OneSocket'
  <2> SUFFICES ASSUME NEW s \in SocketIds, sock'[s].by # 0
               PROVE  /\ st'[sock'[s].by].setup = sock'[s].by
                      /\ st'[sock'[s].by].listening
                      /\ st'[sock'[s].by].localId = s
    BY DEF OneSocket
  <2>1. CASE s = st'[p].localId /\ st'[p].listening /\ sock'[s].by = p
    BY <1>3, <2>1
  <2>2. CASE sock'[s] = sock[s]
    <3>1. sock[s].by \in Procs
      BY <2>2 DEF BaseInv, TypeInv, Typed
    <3>2. /\ st[sock[s].by].setup = sock[s].by /\ st[sock[s].by].listening
          /\ st[sock[s].by].localId = s
      BY <2>2 DEF ServeInv, OneSocket
    <3>3. CASE sock[s].by = p
      BY <1>3, <1>4, <2>2, <3>2, <3>3 DEF SameSelf
    <3>4. CASE sock[s].by # p
      BY <1>3, <2>2, <3>1, <3>2, <3>4
    <3> QED
      BY <3>3, <3>4
  <2> QED
    BY <1>2, <2>1, <2>2
<1>10. Served'
  <2> SUFFICES ASSUME NEW q \in Procs
               PROVE  /\ thread'[q].at # "none" => st'[q].listening
                      /\ thread'[q].at \in {"lock", "answer"}
                            => thread'[q].for \in Procs
                      /\ \A c \in Procs : Serves(q, c)' /\ life[c] # "dead" =>
                            /\ conn[c].at = "accepted"
                            /\ q \in conn[c].holders
                            /\ conn[c].to = st'[q].localId
    BY <1>3 DEF Served
  <2>1. CASE q # p
    BY <1>3, <1>7, <2>1 DEF ServeInv, Served
  <2>2. CASE q = p /\ thread[p].at = "none"
    BY <1>2, <1>5, <2>2 DEF Serves
  <2>3. CASE q = p /\ thread[p].at # "none"
    BY <1>6, <1>7, <2>3 DEF ServeInv, Served, SameSelf
  <2> QED
    BY <2>1, <2>2, <2>3
<1>11. Asked'
  <2>1. conn[p].at = "none"
    BY <1>3 DEF BaseInv, Answered
  <2> QED
    BY <1>3, <2>1 DEF Asked, ServeInv, NoLink
<1>12. Linkable'
  BY <1>3 DEF Linkable, ServeInv
<1> QED
  BY <1>7, <1>8, <1>9, <1>10, <1>11, <1>12 DEF ServeInv

LEMMA OwnSocketsDiffer ==
    ASSUME BaseInv, NEW p \in Procs, NEW q \in Procs,
           st[p].setup = p, st[p].listening, st[q].setup = q, st[q].listening,
           st[p].localId = st[q].localId
    PROVE  p = q
BY DEF BaseInv, OwnSocket

LEMMA ServerListens ==
    ASSUME BaseInv, ServeInv, NEW p \in Procs, thread[p].at # "none"
    PROVE  st[p].setup = p /\ st[p].listening
BY DEF BaseInv, Awake, ServeInv, Served

LEMMA OneServer ==
    ASSUME BaseInv, ServeInv, NEW p \in Procs, NEW q \in Procs,
           NEW c \in Procs, Serves(p, c), Serves(q, c), life[c] # "dead"
    PROVE  p = q
<1>1. st[p].localId = conn[c].to /\ st[q].localId = conn[c].to
  BY DEF ServeInv, Served
<1>2. thread[p].at # "none" /\ thread[q].at # "none"
  BY DEF Serves
<1> QED
  BY <1>1, <1>2, ServerListens, OwnSocketsDiffer

(* Whoever waits on a connection is alive.                                 *)
LEMMA WaiterLives ==
    ASSUME BaseInv, NEW c \in Procs, conn[c].at # "none"
    PROVE  life[c] = "alive" /\ call[c].at = "wait"
BY DEF BaseInv, Answered, Awake, Idle

LEMMA AcceptKeepsServing ==
    ASSUME BaseInv, ServeInv, NEW p \in Procs, NEW c \in Procs, Accept(p, c)
    PROVE  /\ ServeInv'
           /\ Serves(p, c)' /\ conn'[c].at = "accepted"
           /\ \A q \in Procs \ {c} : conn'[q] = conn[q]
           /\ \A q, d \in Procs : d # c => (Serves(q, d)' <=> Serves(q, d))
<1>0. /\ conn \in [Procs -> Sockets] /\ conn[c] \in Sockets
      /\ thread \in [Procs -> Threads] /\ conn[c].at = "queued"
      /\ thread[p].at = "accept" /\ sock[conn[c].to].by = p /\ p # 0
      /\ conn[c].to \in SocketIds
      /\ UNCHANGED <<life, st, call, sock, link, mems, hist>>
  BY SharedMemoryAssumption DEF BaseInv, TypeInv, Typed, Accept, Sockets
<1> DEFINE k == [conn[c] EXCEPT !.at = "accepted", !.holders = {p}]
           t == [at |-> "lock", for |-> c]
<1>1. k.at = "accepted" /\ k.holders = {p} /\ k.to = conn[c].to
  BY <1>0 DEF Sockets
<1>2. conn' = [conn EXCEPT ![c] = k] /\ thread' = [thread EXCEPT ![p] = t]
  BY DEF Accept
<1>3. t.at = "lock" /\ t.for = c
  OBVIOUS
<1> HIDE DEF k, t
<1>4. /\ conn'[c] = k /\ thread'[p] = t
      /\ \A q \in Procs \ {c} : conn'[q] = conn[q]
      /\ \A q \in Procs \ {p} : thread'[q] = thread[q]
  BY <1>0, <1>2
<1>5. Serves(p, c)' /\ \A q, d \in Procs : d # c =>
                          (Serves(q, d)' <=> Serves(q, d))
  BY <1>0, <1>3, <1>4 DEF Serves
<1>6. conn[c].to = st[p].localId
  BY <1>0 DEF ServeInv, OneSocket
<1>7. \A q \in Procs : Serves(q, c)' => q = p
  <2>1. life[c] = "alive"
    BY <1>0, WaiterLives
  <2>2. \A q \in Procs : ~Serves(q, c)
    BY <1>0, <2>1 DEF ServeInv, Served
  <2> QED
    BY <1>4, <2>2 DEF Serves
<1>8. MutexHeld'
  BY <1>0, <1>3, <1>4 DEF MutexHeld, ServeInv
<1>9. OneSocket' /\ Linkable'
  BY <1>0 DEF OneSocket, Linkable, ServeInv
<1>10. Served'
  <2> SUFFICES ASSUME NEW q \in Procs
               PROVE  /\ thread'[q].at # "none" => st[q].listening
                      /\ thread'[q].at \in {"lock", "answer"}
                            => thread'[q].for \in Procs
                      /\ \A d \in Procs : Serves(q, d)' /\ life[d] # "dead" =>
                            /\ conn'[d].at = "accepted"
                            /\ q \in conn'[d].holders
                            /\ conn'[d].to = st[q].localId
    BY <1>0 DEF Served
  <2>1. /\ thread'[q].at # "none" => thread[q].at # "none"
        /\ thread'[q].at \in {"lock", "answer"} => thread'[q].for \in Procs
    BY <1>0, <1>3, <1>4 DEF ServeInv, Served
  <2>2. ASSUME NEW d \in Procs, Serves(q, d)', life[d] # "dead"
        PROVE  /\ conn'[d].at = "accepted" /\ q \in conn'[d].holders
               /\ conn'[d].to = st[q].localId
    <3>1. CASE d = c
      BY <1>1, <1>4, <1>6, <1>7, <2>2, <3>1
    <3>2. CASE d # c
      BY <1>4, <1>5, <2>2, <3>2 DEF ServeInv, Served
    <3> QED
      BY <3>1, <3>2
  <2> QED
    BY <2>1, <2>2 DEF ServeInv, Served
<1>11. Asked'
  BY <1>0, <1>1, <1>4 DEF Asked, ServeInv
<1> QED
  BY <1>1, <1>4, <1>5, <1>8, <1>9, <1>10, <1>11 DEF ServeInv

LEMMA LocksKeepsServing ==
    ASSUME BaseInv, ServeInv, NEW p \in Procs, ThreadLocks(p)
    PROVE  /\ ServeInv' /\ conn' = conn
           /\ \A q, d \in Procs : Serves(q, d)' <=> Serves(q, d)
<1>0. /\ TypeInv /\ thread \in [Procs -> Threads] /\ thread[p] \in Threads
      /\ thread[p].at = "lock" /\ st[p].mutex = "free"
      /\ st \in [Procs -> States] /\ st[p] \in States
      /\ UNCHANGED <<life, call, conn, sock, link, mems, hist>>
  BY DEF BaseInv, TypeInv, Typed, ThreadLocks
<1> DEFINE t == [thread[p] EXCEPT !.at = "answer"]
<1>1. /\ thread' = [thread EXCEPT ![p] = t]
      /\ t.at = "answer" /\ t.for = thread[p].for
  BY <1>0 DEF Threads, ThreadLocks
<1> HIDE DEF t
<1>2. thread'[p] = t /\ \A q \in Procs \ {p} : thread'[q] = thread[q]
  BY <1>0, <1>1
<1>3. \A q \in Procs : SameSelf(st[q], st'[q])
                       /\ (q # p => st'[q] = st[q])
  BY <1>0, MutexReplaced DEF ThreadLocks, SameSelf
<1>4. st'[p].mutex = "thread"
  <2>1. st' = [st EXCEPT ![p] = [st[p] EXCEPT !.mutex = "thread"]]
    BY DEF ThreadLocks
  <2> QED
    BY <1>0, <2>1 DEF States
<1>5. \A q, d \in Procs : Serves(q, d)' <=> Serves(q, d)
  BY <1>0, <1>1, <1>2 DEF Serves
<1>6. MutexHeld'
  BY <1>0, <1>1, <1>2, <1>3, <1>4 DEF MutexHeld, ServeInv
<1>7. OneSocket' /\ Linkable'
  <2>1. \A s \in SocketIds : sock[s].by \in Procs \cup {0}
    BY DEF BaseInv, TypeInv, Typed
  <2> QED
    BY <1>0, <1>3, <2>1 DEF OneSocket, Linkable, ServeInv, SameSelf
<1>8. Served'
  BY <1>0, <1>1, <1>2, <1>3, <1>5 DEF ServeInv, Served, SameSelf
<1>9. Asked'
  BY <1>0 DEF Asked, ServeInv
<1> QED
  BY <1>0, <1>5, <1>6, <1>7, <1>8, <1>9 DEF ServeInv

LEMMA LetGoKeeps ==
    ASSUME NEW c \in Sockets, NEW p \in Procs
    PROVE  /\ LetGo(c, p).to = c.to
           /\ \/ LetGo(c, p).at = c.at
              \/ /\ LetGo(c, p).at = "closed"
                 /\ c.at = "accepted" /\ c.holders = {p}
           /\ \A r \in c.holders \ {p} : r \in LetGo(c, p).holders
<1> DEFINE rest == c.holders \ {p}
           a == [c EXCEPT !.at = "closed", !.holders = {}]
           b == [c EXCEPT !.holders = rest]
<1>1. a.at = "closed" /\ a.to = c.to
  BY DEF Sockets
<1>2. b.at = c.at /\ b.to = c.to /\ b.holders = rest
  <2> HIDE DEF rest
  <2> QED
    BY DEF Sockets
<1>3. \/ /\ LetGo(c, p) = a /\ c.at = "accepted" /\ c.holders # {}
         /\ rest = {}
      \/ LetGo(c, p) = b
  BY DEF LetGo
<1> HIDE DEF a, b
<1>4. rest = {} /\ c.holders # {} => c.holders = {p}
  OBVIOUS
<1> QED
  BY <1>1, <1>2, <1>3, <1>4

(* The answer ends one connection, of which nobody else is in charge.      *)
LEMMA AnswerKeepsServing ==
    ASSUME BaseInv, ServeInv, NEW p \in Procs, Answer(p)
    PROVE  /\ ServeInv'
           /\ \A q \in Procs \ {thread[p].for} : conn'[q] = conn[q]
           /\ \A q, d \in Procs : d # thread[p].for =>
                 (Serves(q, d)' <=> Serves(q, d))
           /\ conn[thread[p].for].at # "accepted" => conn' = conn
           /\ conn[thread[p].for].at = "accepted"
              /\ ashv_find_local_index(st[p].shmem, call[thread[p].for].id)
                    # {}
                 => conn'[thread[p].for].at = "answered"
<1> DEFINE c == thread[p].for
           found == ashv_find_local_index(st[p].shmem, call[c].id)
           d == Descriptor(st[p].shmem, call[c].id)
           k == [NoConn EXCEPT !.at = "answered", !.mem = d]
<1>0. /\ TypeInv /\ thread \in [Procs -> Threads]
      /\ thread[p].at = "answer" /\ conn \in [Procs -> Sockets]
      /\ UNCHANGED <<life, call, sock, link, mems, hist>>
      /\ thread' = [thread EXCEPT ![p] = Accepting]
      /\ st \in [Procs -> States] /\ st[p] \in States
  BY DEF BaseInv, TypeInv, Typed, Answer
<1>1. c \in Procs /\ Serves(p, c) /\ conn[c] \in Sockets
  BY <1>0 DEF ServeInv, Served, Serves
<1>2. Accepting.at = "accept"
  BY DEF Accepting
<1>3. thread'[p] = Accepting /\ \A q \in Procs \ {p} : thread'[q] = thread[q]
  BY <1>0
<1>4. \A q \in Procs : SameSelf(st[q], st'[q])
                       /\ (q # p => st'[q] = st[q])
  BY <1>0, MutexReplaced DEF Answer, SameSelf
<1>5. /\ conn[c].at # "accepted" => conn' = conn
      /\ conn[c].at = "accepted" /\ found = {} =>
            conn' = [conn EXCEPT ![c] = LetGo(conn[c], p)]
      /\ conn[c].at = "accepted" /\ found # {} => conn' = [conn EXCEPT ![c] = k]
  BY DEF Answer
<1>6. k.at = "answered"
  <2> HIDE DEF d
  <2> QED
    BY DEF NoConn
<1> HIDE DEF k
<1>7. /\ \A q \in Procs \ {c} : conn'[q] = conn[q]
      /\ conn[c].at = "accepted" /\ found # {} => conn'[c] = k
      /\ conn[c].at = "accepted" /\ found = {} =>
            conn'[c] = LetGo(conn[c], p)
  <2> HIDE DEF c, found
  <2> QED
    BY <1>0, <1>1, <1>5
<1>8. \A q, x \in Procs : /\ x # c => (Serves(q, x)' <=> Serves(q, x))
                          /\ Serves(q, x)' => q # p /\ Serves(q, x)
  BY <1>1, <1>2, <1>3 DEF Serves
<1>9. MutexHeld'
  <2>1. call[p].at \in {"idle", "lock"}
    BY <1>0 DEF ServeInv, MutexHeld
  <2> QED
    BY <1>0, <1>2, <1>3, <1>4, <2>1 DEF MutexHeld, ServeInv
<1>10. OneSocket' /\ Linkable'
  <2>1. \A s \in SocketIds : sock[s].by \in Procs \cup {0}
    BY DEF BaseInv, TypeInv, Typed
  <2> QED
    BY <1>0, <1>4, <2>1 DEF OneSocket, Linkable, ServeInv, SameSelf
<1>11. Served'
  <2> SUFFICES ASSUME NEW q \in Procs
               PROVE  /\ thread'[q].at # "none" => st[q].listening
                      /\ thread'[q].at \in {"lock", "answer"}
                            => thread'[q].for \in Procs
                      /\ \A x \in Procs : Serves(q, x)' /\ life[x] # "dead" =>
                            /\ conn'[x].at = "accepted"
                            /\ q \in conn'[x].holders
                            /\ conn'[x].to = st[q].localId
    BY <1>0, <1>4 DEF Served, SameSelf
  <2>1. /\ thread'[q].at # "none" => thread[q].at # "none"
        /\ thread'[q].at \in {"lock", "answer"} => thread'[q].for \in Procs
    BY <1>0, <1>2, <1>3 DEF ServeInv, Served
  <2>2. ASSUME NEW x \in Procs, Serves(q, x)', life[x] # "dead"
        PROVE  /\ conn'[x].at = "accepted" /\ q \in conn'[x].holders
               /\ conn'[x].to = st[q].localId
    <3>1. q # p /\ Serves(q, x)
      BY <1>8, <2>2
    <3>2. x # c
      BY <1>1, <2>2, <3>1, OneServer
    <3> QED
      BY <1>7, <2>2, <3>1, <3>2 DEF ServeInv, Served
  <2> QED
    BY <2>1, <2>2 DEF ServeInv, Served
<1>12. Asked'
  <2>1. conn'[c].at \in {"queued", "accepted"} =>
           conn[c].at \in {"queued", "accepted"} /\ conn'[c].to = conn[c].to
    BY <1>1, <1>5, <1>6, <1>7, LetGoKeeps
  <2> QED
    BY <1>0, <1>7, <2>1 DEF Asked, ServeInv
<1> QED
  BY <1>5, <1>6, <1>7, <1>8, <1>9, <1>10, <1>11, <1>12 DEF ServeInv

(* What the death of p does to the connection of another process.          *)
LEMMA DieCloses ==
    ASSUME BaseInv, NEW p \in Procs, Die(p), NEW c \in Procs, c # p
    PROVE  /\ conn'[c].to = conn[c].to
           /\ \/ conn'[c].at = conn[c].at
              \/ /\ conn'[c].at = "closed"
                 /\ conn[c].at = "queued" /\ sock'[conn[c].to].holders = {}
              \/ /\ conn'[c].at = "closed"
                 /\ conn[c].at = "accepted" /\ conn[c].holders = {p}
           /\ \A r \in conn[c].holders \ {p} : r \in conn'[c].holders
<1>1. conn[c] \in Sockets
  BY DEF BaseInv, TypeInv, Typed
<1> DEFINE k == [conn[c] EXCEPT !.at = "closed"]
<1>2. k.to = conn[c].to /\ k.at = "closed" /\ k.holders = conn[c].holders
  BY <1>1 DEF Sockets
<1>3. \/ /\ conn[c].at = "queued" /\ sock'[conn[c].to].holders = {}
         /\ conn'[c] = k
      \/ conn'[c] = LetGo(conn[c], p)
  BY DEF Die
<1> HIDE DEF k
<1> QED
  BY <1>1, <1>2, <1>3, LetGoKeeps

LEMMA DieKeepsServing ==
    ASSUME BaseInv, ServeInv, NEW p \in Procs, Die(p)
    PROVE  /\ ServeInv'
           /\ \A q, d \in Procs : Serves(q, d)' <=> q # p /\ Serves(q, d)
<1>0. /\ \A c \in Procs : conn'[c].at # "none" => c # p
      /\ \A s \in SocketIds : sock[s].by # p => sock'[s].by = sock[s].by
      /\ st'[p] = NoState /\ call'[p] = Idle /\ thread'[p] = NoThread
      /\ life'[p] = "dead"
      /\ \A q \in Procs \ {p} :
            st'[q] = st[q] /\ call'[q] = call[q] /\ thread'[q] = thread[q]
            /\ life'[q] = life[q]
      /\ UNCHANGED <<link, mems, hist>>
  BY DieTypes
<1>1. /\ Idle.at = "idle" /\ Idle.new = -1 /\ NoThread.at = "none"
      /\ -1 # NoLink
  BY DEF Idle, NoThread, NoLink
<1>2. \A s \in SocketIds : sock'[s].by # 0 => sock[s].by # p
                                              /\ sock'[s].by = sock[s].by
  <2> SUFFICES ASSUME NEW s \in SocketIds, sock'[s].by # 0
               PROVE  sock[s].by # p /\ sock'[s].by = sock[s].by
    OBVIOUS
  <2> DEFINE b == IF sock[s].by = p THEN 0 ELSE sock[s].by
             h == sock[s].holders \ {p}
  <2>1. sock'[s] = [by |-> b, holders |-> h]
    BY DEF Die
  <2>2. sock'[s].by = b
    <3> HIDE DEF b, h
    <3> QED
      BY <2>1
  <2> QED
    BY <2>2
<1>3. \A q, d \in Procs : Serves(q, d)' <=> q # p /\ Serves(q, d)
  BY <1>0, <1>1 DEF Serves
<1>4. MutexHeld'
  BY <1>0, <1>1 DEF MutexHeld, ServeInv
<1>5. OneSocket' /\ Linkable'
  <2>1. \A s \in SocketIds : sock[s].by \in Procs \cup {0}
    BY DEF BaseInv, TypeInv, Typed
  <2> QED
    BY <1>0, <1>2, <2>1 DEF OneSocket, Linkable, ServeInv
<1>6. Served'
  <2> SUFFICES ASSUME NEW q \in Procs
               PROVE  /\ thread'[q].at # "none" => st'[q].listening
                      /\ thread'[q].at \in {"lock", "answer"}
                            => thread'[q].for \in Procs
                      /\ \A d \in Procs : Serves(q, d)' /\ life'[d] # "dead" =>
                            /\ conn'[d].at = "accepted"
                            /\ q \in conn'[d].holders
                            /\ conn'[d].to = st'[q].localId
    BY DEF Served
  <2>1. CASE q = p
    BY <1>0, <1>1, <1>3, <2>1
  <2>2. CASE q # p
    <3>1. ASSUME NEW d \in Procs, Serves(q, d)', life'[d] # "dead"
          PROVE  /\ conn'[d].at = "accepted" /\ q \in conn'[d].holders
                 /\ conn'[d].to = st'[q].localId
      <4>1. d # p /\ Serves(q, d) /\ life[d] # "dead"
        BY <1>0, <1>3, <3>1
      <4>2. conn[d].at = "accepted" /\ q \in conn[d].holders
            /\ conn[d].to = st[q].localId
        BY <4>1 DEF ServeInv, Served
      <4>3. q \in conn[d].holders \ {p}
        BY <2>2, <4>2
      <4>4. conn'[d].at = "accepted" /\ conn'[d].to = conn[d].to
            /\ q \in conn'[d].holders
        BY <4>1, <4>2, <4>3, DieCloses
      <4> QED
        BY <1>0, <2>2, <4>2, <4>4
    <3> QED
      BY <1>0, <2>2, <3>1 DEF ServeInv, Served
  <2> QED
    BY <2>1, <2>2
<1>7. Asked'
  <2> SUFFICES ASSUME NEW q \in Procs
               PROVE  /\ conn'[q].at \in {"queued", "accepted"} =>
                            conn'[q].to = ashv_socket_id_from_shmid(call'[q].id)
                      /\ call'[q].at = "create" => call'[q].new # -1
                      /\ call'[q].new # NoLink
    BY DEF Asked
  <2>1. CASE q = p
    BY <1>0, <1>1, <2>1
  <2>2. CASE q # p
    BY <1>0, <2>2, DieCloses DEF ServeInv, Asked
  <2> QED
    BY <2>1, <2>2
<1> QED
  BY <1>3, <1>4, <1>5, <1>6, <1>7 DEF ServeInv

LEMMA ForkKeepsServing ==
    ASSUME BaseInv, ServeInv, NEW p \in Procs, NEW q \in Procs, Fork(p, q)
    PROVE  /\ ServeInv' /\ thread' = thread
           /\ \A c \in Procs : conn'[c].at = conn[c].at
<1>0. /\ UNCHANGED <<call, thread, link, mems, hist>>
      /\ life[q] = "unborn" /\ life'[q] = "alive"
      /\ \A r \in Procs \ {q} : st'[r] = st[r] /\ life'[r] = life[r]
  BY ForkKeepsBase
<1>1. /\ call[q].at = "idle" /\ thread[q].at = "none" /\ st[q].setup = 0
      /\ q # 0
  BY <1>0, SharedMemoryAssumption
     DEF BaseInv, Awake, Idle, NoThread, NoState
<1>2. \A c \in Procs : /\ conn'[c].at = conn[c].at
                       /\ conn'[c].to = conn[c].to
                       /\ conn[c].holders \subseteq conn'[c].holders
  <2> SUFFICES ASSUME NEW c \in Procs
               PROVE  /\ conn'[c].at = conn[c].at
                      /\ conn'[c].to = conn[c].to
                      /\ conn[c].holders \subseteq conn'[c].holders
    OBVIOUS
  <2>1. conn[c] \in Sockets
    BY DEF BaseInv, TypeInv, Typed
  <2>2. conn'[c] = IF p \in conn[c].holders
                   THEN [conn[c] EXCEPT !.holders = conn[c].holders \cup {q}]
                   ELSE conn[c]
    BY DEF Fork
  <2> QED
    BY <2>1, <2>2 DEF Sockets
<1>3. \A s \in SocketIds : sock'[s].by = sock[s].by
  <2> SUFFICES ASSUME NEW s \in SocketIds PROVE sock'[s].by = sock[s].by
    OBVIOUS
  <2>1. sock[s] \in [by : Procs \cup {0}, holders : SUBSET Procs]
    BY DEF BaseInv, TypeInv, Typed
  <2>2. sock'[s] = IF p \in sock[s].holders
                   THEN [sock[s] EXCEPT !.holders = sock[s].holders \cup {q}]
                   ELSE sock[s]
    BY DEF Fork
  <2> QED
    BY <2>1, <2>2
<1>4. MutexHeld'
  BY <1>0, <1>1 DEF MutexHeld, ServeInv
<1>5. OneSocket' /\ Linkable'
  <2>1. \A s \in SocketIds : sock[s].by \in Procs \cup {0}
    BY DEF BaseInv, TypeInv, Typed
  <2>2. \A s \in SocketIds : sock[s].by # q
    BY <1>1 DEF OneSocket, ServeInv
  <2> QED
    BY <1>0, <1>3, <2>1, <2>2 DEF OneSocket, Linkable, ServeInv
<1>6. Served'
  <2> SUFFICES ASSUME NEW r \in Procs
               PROVE  /\ thread[r].at # "none" => st'[r].listening
                      /\ thread[r].at \in {"lock", "answer"}
                            => thread[r].for \in Procs
                      /\ \A c \in Procs : Serves(r, c) /\ life'[c] # "dead" =>
                            /\ conn'[c].at = "accepted"
                            /\ r \in conn'[c].holders
                            /\ conn'[c].to = st'[r].localId
    BY <1>0 DEF Served, Serves
  <2>1. CASE r = q
    BY <1>1, <2>1 DEF Serves
  <2>2. CASE r # q
    <3>1. \A c \in Procs : life'[c] # "dead" => life[c] # "dead"
      BY <1>0
    <3> QED
      BY <1>0, <1>2, <2>2, <3>1 DEF ServeInv, Served
  <2> QED
    BY <2>1, <2>2
<1>7. Asked'
  BY <1>0, <1>2 DEF Asked, ServeInv
<1> QED
  BY <1>0, <1>2, <1>4, <1>5, <1>6, <1>7 DEF ServeInv

LEMMA NextKeepsServing ==
    NoWrap /\ BaseInv /\ CountInv /\ ServeInv /\ [Next]_vars => ServeInv'
<1> SUFFICES ASSUME NoWrap, BaseInv, CountInv, ServeInv, [Next]_vars
             PROVE  ServeInv'
  OBVIOUS
<1>1. CASE UNCHANGED vars \/ Directory
  BY <1>1 DEF vars, Directory, ServeInv, MutexHeld, OneSocket, Served, Serves,
              Asked, Linkable
<1>2. ASSUME NEW p \in Procs,
             \/ ShmgetStep(p) \/ OtherCall(p) \/ MainStep(p) \/ ThreadStep(p)
             \/ Die(p) \/ \E q \in Procs : Fork(p, q)
      PROVE  ServeInv'
  <2>1. CASE ShmgetStep(p) \/ OtherCall(p)
    BY <2>1, BeginKeepsServing
  <2>2. CASE MainStep(p)
    BY <2>2, MainKeepsServing
  <2>3. CASE ThreadStep(p)
    BY <2>3, AcceptKeepsServing, LocksKeepsServing, AnswerKeepsServing
       DEF ThreadStep
  <2>4. CASE Die(p) \/ \E q \in Procs : Fork(p, q)
    BY <2>4, DieKeepsServing, ForkKeepsServing
  <2> QED
    BY <1>2, <2>1, <2>2, <2>3, <2>4
<1> QED
  BY <1>1, <1>2 DEF Next

-----------------------------------------------------------------------------
OwnedBy(r, k, id) ==
    \/ \E m \in DOMAIN mems : /\ InUse(m, k) /\ mems[m].id = id
                              /\ mems[m].by = r
    \/ Creating(r, k) /\ call[r].new = id

(* The owner of a key listens on the socket that its identifier names.     *)
LEMMA OwnerListens ==
    ASSUME BaseInv, KeptInv, ServeInv, NEW r \in Procs, NEW k \in Keys,
           NEW id, OwnedBy(r, k, id)
    PROVE  /\ life[r] = "alive" /\ st[r].setup = r /\ st[r].listening
           /\ st[r].localId = ashv_socket_id_from_shmid(id)
           /\ st[r].localId \in SocketIds
           /\ r \in sock[st[r].localId].holders
           /\ id # NoLink /\ id \in Int
<1>1. /\ life[r] = "alive" /\ st[r].setup = r /\ st[r].listening
      /\ Numbered(st[r].localId, id) /\ id # NoLink /\ id \in Int
      /\ id >= 0
  <2>1. CASE \E m \in DOMAIN mems : /\ InUse(m, k) /\ mems[m].id = id
                                    /\ mems[m].by = r
    <3>1. PICK m \in DOMAIN mems : /\ InUse(m, k) /\ mems[m].id = id
                                   /\ mems[m].by = r
      BY <2>1
    <3> QED
      BY <3>1, MemType DEF InUse, BaseInv, Created, ServeInv, Linkable
  <2>2. CASE Creating(r, k) /\ call[r].new = id
    <3>1. call[r].at = "create"
      BY <2>2 DEF Creating
    <3>2. life[r] = "alive" /\ st[r].setup = r
      BY <3>1 DEF BaseInv, Awake, Idle
    <3>3. st[r].listening
      BY <3>1 DEF BaseInv, TypeInv, Keyed, Awake
    <3>4. call[r].new # -1 /\ call[r].new # NoLink
      BY <3>1 DEF ServeInv, Asked
    <3>5. call[r].new \in Int
      BY DEF BaseInv, TypeInv, Typed, Calls
    <3> QED
      BY <2>2, <3>2, <3>3, <3>4, <3>5 DEF BaseInv, Created, Creating
  <2> QED
    BY <2>1, <2>2 DEF OwnedBy
<1>2. st[r].localId \in SocketIds
  BY DEF BaseInv, TypeInv, Typed, States
<1>3. st[r].localId = ashv_socket_id_from_shmid(id)
  BY <1>1, <1>2, OwnNumber DEF Numbered
<1> QED
  BY <1>1, <1>2, <1>3 DEF BaseInv, OwnSocket

LEMMA SomebodyOwns ==
    ASSUME BaseInv, NEW k, NEW id, Owned(k, id)
    PROVE  \E r \in Procs : OwnedBy(r, k, id)
BY MemType DEF BaseInv, Owned, OwnedBy

(* Whoever serves a process that asks for the segment of a key owns the    *)
(* key, if anybody does.                                                   *)
LEMMA ServerOwns ==
    ASSUME BaseInv, KeptInv, ServeInv, NEW p \in Procs, NEW c \in Procs,
           Serves(p, c), conn[c].at = "accepted", NEW k \in Keys,
           NEW r \in Procs, OwnedBy(r, k, call[c].id)
    PROVE  r = p
<1>1. life[c] # "dead"
  BY WaiterLives
<1>2. st[p].localId = ashv_socket_id_from_shmid(call[c].id)
  BY <1>1 DEF ServeInv, Served, Asked
<1>3. st[p].setup = p /\ st[p].listening
  BY ServerListens DEF Serves
<1>4. /\ st[r].setup = r /\ st[r].listening
      /\ st[r].localId = ashv_socket_id_from_shmid(call[c].id)
  BY OwnerListens
<1> QED
  BY <1>2, <1>3, <1>4, OwnSocketsDiffer

(* Steps that make no new owner.                                           *)
NoNewOwner ==
    /\ \A m \in DOMAIN mems' :
          /\ mems'[m].key \in Keys /\ ~mems'[m].removed /\ mems'[m].id >= 0
          /\ life'[mems'[m].by] = "alive"
          => /\ m \in DOMAIN mems /\ ~mems[m].removed
             /\ life[mems[m].by] = "alive" /\ mems'[m].by = mems[m].by
             /\ mems'[m].key = mems[m].key /\ mems'[m].id = mems[m].id
    /\ \A p \in Procs : call'[p].at = "create" =>
          /\ call[p].at = "create" /\ call'[p].key = call[p].key
          /\ call'[p].new = call[p].new

LEMMA FewerOwners ==
    ASSUME NoNewOwner, NEW k \in Keys
    PROVE  /\ \A id, r : OwnedBy(r, k, id)' /\ r \in Procs
                            => OwnedBy(r, k, id)
           /\ \A id : Owned(k, id)' => Owned(k, id)
           /\ \A m \in DOMAIN mems' : InUse(m, k)' =>
                 m \in DOMAIN mems /\ InUse(m, k)
           /\ \A p \in Procs : Creating(p, k)' => Creating(p, k)
<1>1. \A m \in DOMAIN mems' : InUse(m, k)' =>
         /\ m \in DOMAIN mems /\ InUse(m, k) /\ mems'[m].id = mems[m].id
         /\ mems'[m].by = mems[m].by
  BY DEF InUse, NoNewOwner
<1>2. \A p \in Procs : Creating(p, k)' =>
         Creating(p, k) /\ call'[p].new = call[p].new
  BY DEF Creating, NoNewOwner
<1>3. \A id : Owned(k, id)' => Owned(k, id)
  BY <1>1, <1>2 DEF Owned
<1>4. \A id, r : OwnedBy(r, k, id)' /\ r \in Procs => OwnedBy(r, k, id)
  BY <1>1, <1>2 DEF OwnedBy
<1> QED
  BY <1>1, <1>2, <1>3, <1>4

LEMMA FewerStillOne ==
    ASSUME NoNewOwner, OneOwner PROVE OneOwner'
<1> SUFFICES ASSUME NEW k \in Keys
             PROVE  /\ \A m, n \in DOMAIN mems' :
                          InUse(m, k)' /\ InUse(n, k)' => m = n
                    /\ \A p, q \in Procs :
                          Creating(p, k)' /\ Creating(q, k)' => p = q
                    /\ \A m \in DOMAIN mems', p \in Procs :
                          ~(InUse(m, k)' /\ Creating(p, k)')
  BY DEF OneOwner
<1>1. /\ \A m \in DOMAIN mems' : InUse(m, k)' =>
            m \in DOMAIN mems /\ InUse(m, k)
      /\ \A p \in Procs : Creating(p, k)' => Creating(p, k)
  BY FewerOwners
<1> QED
  BY <1>1 DEF OneOwner

LEMMA FewerStillLinked ==
    ASSUME NoNewOwner, Linked, link' = link PROVE Linked'
BY FewerOwners DEF Linked

(* The calling thread only takes over a key that has no owner.             *)
LEMMA MainKeepsStale ==
    ASSUME BaseInv, KeptInv, ServeInv, Stale, NEW p \in Procs, MainStep(p),
           ~hist'.misled,
           \A k \in Keys : \A id : Owned(k, id)' => Owned(k, id)
    PROVE  Stale'
<1>1. MainEffect(p) /\ TypeInv'
  BY MainStepEffect
<1>2. GivesUp(p)
  BY CallerSettles DEF ServeInv
<1> SUFFICES ASSUME NEW q \in Procs, NEW k \in Keys, NEW id \in Int,
                    call'[q].op = "get", call'[q].key = k, call'[q].id = id,
                    call'[q].at = "unlink" \/ GivenUp(q)'
             PROVE  ~Owned(k, id)'
  BY DEF Stale
<1> SUFFICES ~Owned(k, id)
  OBVIOUS
<1>3. CASE q # p
  <2>1. call'[q] = call[q] /\ conn'[q] = conn[q] /\ thread' = thread
    BY <1>1, <1>3 DEF MainEffect, Others
  <2>2. GivenUp(q)' => GivenUp(q)
    BY <2>1 DEF GivenUp, Serves
  <2> QED
    BY <2>1, <2>2 DEF Stale
<1>4. CASE q = p
  <2>1. call'[p].at = "unlink"
    BY <1>1, <1>4 DEF MainEffect, GivenUp
  <2>2. CASE /\ conn[p].at = "closed" /\ call[p].op = "get"
             /\ call'[p].id = call[p].id /\ call'[p].key = call[p].key
    BY <1>4, <2>2 DEF Stale, GivenUp
  <2>3. CASE ~(/\ ashv_socket_id_from_shmid(id) \in SocketIds
               /\ sock[ashv_socket_id_from_shmid(id)].holders # {})
    <3> SUFFICES ASSUME Owned(k, id) PROVE FALSE
      OBVIOUS
    <3>1. PICK r \in Procs : OwnedBy(r, k, id)
      BY SomebodyOwns
    <3>2. /\ st[r].localId = ashv_socket_id_from_shmid(id)
          /\ st[r].localId \in SocketIds
          /\ r \in sock[st[r].localId].holders
      BY <3>1, OwnerListens
    <3> QED
      BY <2>3, <3>2
  <2>4. CASE Owned(call'[p].key, call'[p].id) => hist'.misled
    BY <1>4, <2>4
  <2> QED
    BY <1>2, <1>4, <2>1, <2>2, <2>3, <2>4 DEF GivesUp
<1> QED
  BY <1>3, <1>4

LEMMA QuietMain ==
    ASSUME BaseInv, NEW p \in Procs, MainEffect(p), call'[p].at # "create",
           \A m \in DOMAIN mems' \ DOMAIN mems :
              ~(mems'[m].key \in Keys /\ mems'[m].id >= 0)
    PROVE  NoNewOwner
<1>1. ASSUME NEW m \in DOMAIN mems', mems'[m].key \in Keys,
             ~mems'[m].removed, mems'[m].id >= 0,
             life'[mems'[m].by] = "alive"
      PROVE  /\ m \in DOMAIN mems /\ ~mems[m].removed
             /\ life[mems[m].by] = "alive" /\ mems'[m].by = mems[m].by
             /\ mems'[m].key = mems[m].key /\ mems'[m].id = mems[m].id
  BY <1>1 DEF MainEffect, Grows
<1>2. ASSUME NEW q \in Procs, call'[q].at = "create"
      PROVE  /\ call[q].at = "create" /\ call'[q].key = call[q].key
             /\ call'[q].new = call[q].new
  BY <1>2 DEF MainEffect, Others
<1> QED
  BY <1>1, <1>2 DEF NoNewOwner

LEMMA UnlinkKeepsKeys ==
    ASSUME BaseInv, KeptInv, ServeInv, KeyInv, NEW p \in Procs, Unlink(p)
    PROVE  KeyInv'
<1> DEFINE k == call[p].key
<1>0. /\ TypeInv /\ hist \in [calls : Nat, misled : BOOLEAN]
      /\ link \in [Keys -> Int] /\ call[p].at = "unlink" /\ Keyed
      /\ call \in [Procs -> Calls] /\ call[p] \in Calls
  BY DEF BaseInv, TypeInv, Typed, Unlink
<1>1. k \in Keys /\ call[p].op = "get"
  BY <1>0 DEF Keyed
<1>2. \/ /\ hist'.misled = (hist.misled \/ link[k] \notin {NoLink, call[p].id})
         /\ link' = [link EXCEPT ![k] = NoLink]
      \/ UNCHANGED <<link, hist>>
  <2> DEFINE r == hist.misled \/ link[k] \notin {NoLink, call[p].id}
  <2>1. \/ hist' = [hist EXCEPT !.misled = r] /\ link' = [link EXCEPT ![k] = NoLink]
        \/ UNCHANGED <<link, hist>>
    BY DEF Unlink
  <2> HIDE DEF r
  <2> QED
    BY <1>0, <2>1 DEF r
<1> SUFFICES ASSUME ~hist'.misled PROVE Linked' /\ OneOwner' /\ Stale'
  BY DEF KeyInv
<1>3. Linked /\ OneOwner /\ Stale
      /\ (link' # link => link[k] \in {NoLink, call[p].id})
  BY <1>2 DEF KeyInv
<1>4. MainStep(p) /\ MainEffect(p) /\ mems' = mems
  BY UnlinkEffect DEF MainStep, Unlink
<1>5. call'[p].at = "symlink"
  <2>1. call' = [call EXCEPT ![p] = [call[p] EXCEPT !.at = "symlink"]]
    BY DEF Unlink, GoOn
  <2> QED
    BY <1>0, <2>1 DEF Calls
<1>6. NoNewOwner
  BY <1>4, <1>5, QuietMain
<1>7. link' # link => \A id : ~Owned(k, id)
  <2> SUFFICES ASSUME link' # link, NEW id, Owned(k, id) PROVE FALSE
    OBVIOUS
  <2>1. PICK r \in Procs : OwnedBy(r, k, id)
    BY SomebodyOwns
  <2>2. id # NoLink /\ id \in Int
    BY <1>1, <2>1, OwnerListens
  <2>3. link[k] = id
    BY <1>1, <1>3, <2>2 DEF Linked
  <2>4. id = call[p].id
    BY <1>3, <2>2, <2>3
  <2> QED
    BY <1>0, <1>1, <1>3, <2>2, <2>4 DEF Stale
<1>8. \A x \in Keys \ {k} : link'[x] = link[x]
  BY <1>0, <1>1, <1>2
<1>9. Linked'
  <2> SUFFICES ASSUME NEW x \in Keys, NEW id \in Int, Owned(x, id)'
               PROVE  link'[x] = id
    BY DEF Linked
  <2>1. Owned(x, id)
    BY <1>6, FewerOwners
  <2>2. x # k \/ link' = link
    BY <1>7, <2>1
  <2> QED
    BY <1>3, <1>8, <2>1, <2>2 DEF Linked
<1>10. OneOwner'
  BY <1>3, <1>6, FewerStillOne
<1>11. Stale'
  BY <1>3, <1>4, <1>6, FewerOwners, MainKeepsStale
<1> QED
  BY <1>9, <1>10, <1>11

(* A key is taken only when it has no link, hence no owner, and nobody     *)
(* is about to give the new identifier up.                                 *)
LEMMA SymlinkKeepsKeys ==
    ASSUME BaseInv, KeptInv, ServeInv, KeyInv, NEW p \in Procs, Symlink(p)
    PROVE  KeyInv'
<1>7. PICK k \in Keys : k = call[p].key
  BY SymlinkMakes
<1>8. PICK new \in Int : new = Number(p).id
  BY NumberIs
<1>0. /\ hist.misled \in BOOLEAN /\ link \in [Keys -> Int]
      /\ \A q \in Procs : call[q].op = "get" /\ call[q].at = "wait"
                             => call[q].key \in Keys
  BY DEF BaseInv, TypeInv, Typed, Keyed
<1>1. /\ call'[p].new = new /\ call'[p].key = k
      /\ k \in Keys /\ call'[p].at \in {"create", "readlink"}
      /\ call'[p].at = "create" =>
            /\ link[k] = NoLink /\ link' = [link EXCEPT ![k] = new]
            /\ hist'.misled = (hist.misled \/ AskedFor(k, new))
      /\ call'[p].at = "readlink" => UNCHANGED <<link, hist>>
  BY <1>7, <1>8, SymlinkMakes
<1>2. MainStep(p) /\ MainEffect(p) /\ mems' = mems /\ UNCHANGED <<life, thread>>
  BY SymlinkEffect DEF MainStep, Symlink
<1>3. UNCHANGED conn /\ call[p].at = "symlink"
  BY DEF Symlink
<1> SUFFICES ASSUME ~hist'.misled PROVE Linked' /\ OneOwner' /\ Stale'
  BY DEF KeyInv
<1>4. Linked /\ OneOwner /\ Stale
  BY <1>0, <1>1 DEF KeyInv
<1>5. CASE call'[p].at = "readlink"
  <2>1. NoNewOwner
    BY <1>2, <1>5, QuietMain
  <2>2. Linked' /\ OneOwner'
    BY <1>1, <1>4, <1>5, <2>1, FewerStillLinked, FewerStillOne
  <2>3. Stale'
    BY <1>2, <1>4, <2>1, FewerOwners, MainKeepsStale
  <2> QED
    BY <2>2, <2>3
<1>6. CASE call'[p].at = "create"
  <2>1. \A id : ~Owned(k, id)
    <3> SUFFICES ASSUME NEW id, Owned(k, id) PROVE FALSE
      OBVIOUS
    <3>1. PICK r \in Procs : OwnedBy(r, k, id)
      BY SomebodyOwns
    <3>2. id # NoLink /\ id \in Int
      BY <1>1, <3>1, OwnerListens
    <3> QED
      BY <1>1, <1>4, <1>6, <3>2 DEF Linked
  <2>2. \A q \in Procs \ {p} : call'[q] = call[q]
    BY <1>2 DEF MainEffect, Others
  <2>3. \A m \in DOMAIN mems, x \in Keys : InUse(m, x)' <=> InUse(m, x)
    BY <1>2 DEF InUse
  <2>4. /\ \A q \in Procs, x \in Keys :
              q # p \/ x # k => (Creating(q, x)' => Creating(q, x))
        /\ \A q \in Procs, x \in Keys : Creating(q, x)' /\ q = p => x = k
    BY <1>1, <2>2 DEF Creating
  <2>5. \A q \in Procs : ~Creating(q, k)
    BY <2>1 DEF Owned
  <2>6. \A m \in DOMAIN mems : ~InUse(m, k)
    BY <2>1 DEF Owned
  <2>7. \A x \in Keys \ {k} : \A id : Owned(x, id)' => Owned(x, id)
    BY <1>2, <2>2, <2>3, <2>4 DEF Owned
  <2>8. \A id : Owned(k, id)' => id = new
    BY <1>1, <1>2, <2>3, <2>4, <2>5, <2>6 DEF Owned
  <2>9. link'[k] = new /\ \A x \in Keys \ {k} : link'[x] = link[x]
    BY <1>0, <1>1, <1>6
  <2>10. Linked'
    BY <1>4, <2>7, <2>8, <2>9 DEF Linked
  <2>11. OneOwner'
    <3> SUFFICES ASSUME NEW x \in Keys
                 PROVE  /\ \A m, n \in DOMAIN mems :
                              InUse(m, x)' /\ InUse(n, x)' => m = n
                        /\ \A q, r \in Procs :
                              Creating(q, x)' /\ Creating(r, x)' => q = r
                        /\ \A m \in DOMAIN mems, q \in Procs :
                              ~(InUse(m, x)' /\ Creating(q, x)')
      BY <1>2 DEF OneOwner
    <3>1. CASE x = k
      BY <2>3, <2>4, <2>5, <2>6, <3>1
    <3>2. CASE x # k
      BY <1>4, <2>3, <2>4, <3>2 DEF OneOwner
    <3> QED
      BY <3>1, <3>2
  <2>12. ~AskedFor(k, new)
    BY <1>1, <1>6
  <2>13. Stale'
    <3> SUFFICES ASSUME NEW q \in Procs, NEW x \in Keys, NEW id \in Int,
                        call'[q].op = "get", call'[q].key = x,
                        call'[q].id = id,
                        call'[q].at = "unlink" \/ GivenUp(q)'
                 PROVE  ~Owned(x, id)'
      BY DEF Stale
    <3>1. conn[p].at = "none"
      BY <1>3 DEF BaseInv, Answered
    <3>2. q # p
      BY <1>3, <1>6, <3>1 DEF GivenUp
    <3>3. call'[q] = call[q] /\ (GivenUp(q)' => GivenUp(q))
      BY <1>2, <1>3, <2>2, <3>2 DEF GivenUp, Serves
    <3>4. ~Owned(x, id)
      BY <1>4, <3>3 DEF Stale
    <3>5. GivenUp(q) => call[q].at = "wait"
      BY DEF GivenUp, BaseInv, Answered
    <3>6. ~(x = k /\ id = new)
      BY <2>12, <3>3, <3>5 DEF AskedFor
    <3> QED
      BY <2>7, <2>8, <3>4, <3>6
  <2> QED
    BY <2>10, <2>11, <2>13
<1> QED
  BY <1>1, <1>5, <1>6

(* The segment takes over from the process that was creating it.           *)
LEMMA CreateKeepsKeys ==
    ASSUME BaseInv, KeptInv, ServeInv, KeyInv, NEW p \in Procs, Create(p)
    PROVE  KeyInv'
<1> DEFINE k == call[p].key
<1>0. UNCHANGED <<life, thread, conn, link, hist>> /\ \E s : Return(p, s)
  BY DEF Create
<1>1. MainStep(p) /\ MainEffect(p)
  BY CreateEffect DEF MainStep
<1>2. call'[p].at = "idle"
  BY <1>0, ReturnSettles DEF BaseInv
<1> SUFFICES ASSUME ~hist'.misled PROVE Linked' /\ OneOwner' /\ Stale'
  BY DEF KeyInv
<1>3. Linked /\ OneOwner /\ Stale
  BY <1>0 DEF KeyInv
<1>4. CASE NoNewOwner
  <2>1. Linked' /\ OneOwner'
    BY <1>0, <1>3, <1>4, FewerStillLinked, FewerStillOne
  <2>2. Stale'
    BY <1>1, <1>3, <1>4, FewerOwners, MainKeepsStale
  <2> QED
    BY <2>1, <2>2
<1>5. CASE ~NoNewOwner
  <2>1. PICK new \in DOMAIN mems' \ DOMAIN mems :
               mems'[new].key \in Keys /\ mems'[new].id >= 0
    BY <1>1, <1>2, <1>5, QuietMain
  <2>2. /\ \A m \in DOMAIN mems' \ DOMAIN mems : m = new
        /\ mems'[new].id = Number(p).id /\ mems'[new].key = k
        /\ \A m \in DOMAIN mems : mems'[m] = mems[m] /\ m \in DOMAIN mems'
    BY <1>1, <2>1, NewSegments DEF MainEffect, Grows
  <2>3. k \in Keys /\ k # IPC_PRIVATE
    BY <2>1, <2>2, SharedMemoryAssumption
  <2>4. call[p].at = "create"
    BY <2>3 DEF Create
  <2>5. mems'[new].id = call[p].new
    BY <2>2, <2>4, NumberIs DEF ServeInv, Asked
  <2>6. Creating(p, k)
    BY <2>1, <2>4, <2>5 DEF Creating
  <2> HIDE DEF k
  <2>7. \A q \in Procs, x \in Keys : Creating(q, x)' =>
           Creating(q, x) /\ q # p /\ call'[q] = call[q]
    BY <1>1, <1>2 DEF Creating, MainEffect, Others
  <2>8. \A m \in DOMAIN mems', x \in Keys : InUse(m, x)' =>
           \/ m = new /\ x = k
           \/ m \in DOMAIN mems /\ InUse(m, x) /\ mems'[m] = mems[m]
    BY <1>0, <2>2 DEF InUse
  <2>9. \A x \in Keys : \A id : Owned(x, id)' => Owned(x, id)
    BY <2>5, <2>6, <2>7, <2>8 DEF Owned
  <2>10. Linked'
    BY <1>0, <1>3, <2>9 DEF Linked
  <2>11. OneOwner'
    <3> SUFFICES ASSUME NEW x \in Keys
                 PROVE  /\ \A m, n \in DOMAIN mems' :
                              InUse(m, x)' /\ InUse(n, x)' => m = n
                        /\ \A q, r \in Procs :
                              Creating(q, x)' /\ Creating(r, x)' => q = r
                        /\ \A m \in DOMAIN mems', q \in Procs :
                              ~(InUse(m, x)' /\ Creating(q, x)')
      BY DEF OneOwner
    <3>1. CASE x = k
      <4>1. \A m \in DOMAIN mems : ~InUse(m, k)
        BY <1>3, <2>3, <2>6 DEF OneOwner
      <4>2. \A q \in Procs : Creating(q, k) => q = p
        BY <1>3, <2>3, <2>6 DEF OneOwner
      <4> QED
        BY <2>7, <2>8, <3>1, <4>1, <4>2
    <3>2. CASE x # k
      BY <1>3, <2>7, <2>8, <3>2 DEF OneOwner
    <3> QED
      BY <3>1, <3>2
  <2>12. Stale'
    BY <1>1, <1>3, <2>9, MainKeepsStale
  <2> QED
    BY <2>10, <2>11, <2>12
<1> QED
  BY <1>4, <1>5

LEMMA MainKeepsKeys ==
    ASSUME BaseInv, KeptInv, ServeInv, KeyInv, NEW p \in Procs, MainStep(p)
    PROVE  KeyInv'
<1>1. CASE Unlink(p) \/ Symlink(p) \/ Create(p)
  BY <1>1, UnlinkKeepsKeys, SymlinkKeepsKeys, CreateKeepsKeys
<1>2. CASE ~(Unlink(p) \/ Symlink(p) \/ Create(p))
  <2>1. link' = link /\ (hist.misled => hist'.misled)
    <3>1. \/ UNCHANGED hist
          \/ \E id, error : Misled(p, id, error)
      BY <1>2 DEF MainStep, ReadLink, Receive, Shmat, Shmdt, Shmctl, Ask
    <3>2. hist.misled => hist'.misled
      BY <3>1, MisledEffect DEF Counted, BaseInv
    <3> QED
      BY <1>2, <3>2 DEF MainStep, ReadLink, Receive, Shmat, Shmdt, Shmctl
  <2>2. MainEffect(p) /\ call'[p].at # "create" /\ DOMAIN mems' = DOMAIN mems
    BY <1>2, MainStepEffect, CallerSettles, NewSegments DEF ServeInv
  <2>3. NoNewOwner
    BY <2>2, QuietMain
  <2> SUFFICES ASSUME ~hist'.misled PROVE Linked' /\ OneOwner' /\ Stale'
    BY DEF KeyInv
  <2>4. Linked /\ OneOwner /\ Stale
    BY <2>1 DEF KeyInv
  <2>5. Linked' /\ OneOwner'
    BY <2>1, <2>3, <2>4, FewerStillLinked, FewerStillOne
  <2>6. Stale'
    BY <2>3, <2>4, FewerOwners, MainKeepsStale
  <2> QED
    BY <2>5, <2>6
<1> QED
  BY <1>1, <1>2

(* A step of somebody else: what is given up has no owner afterwards.      *)
LEMMA OthersKeepKeys ==
    ASSUME KeyInv, NoNewOwner, link' = link, hist'.misled = hist.misled,
           Stale => Stale'
    PROVE  KeyInv'
BY FewerStillLinked, FewerStillOne DEF KeyInv

LEMMA BeginKeepsKeys ==
    ASSUME BaseInv, ServeInv, KeyInv, NEW p \in Procs,
           ShmgetStep(p) \/ OtherCall(p)
    PROVE  KeyInv'
<1>1. /\ UNCHANGED <<life, conn, link, mems>>
      /\ \A q \in Procs \ {p} : call'[q] = call[q]
      /\ call'[p].at = "lock" /\ call[p].at = "idle"
  <2>1. BeginEffect(p)
    BY ShmgetEffect, OtherCallEffect
  <2>2. call[p] = Idle /\ Idle.at = "idle"
    BY <2>1 DEF BeginEffect, Idle
  <2> QED
    BY <2>1, <2>2 DEF BeginEffect
<1>2. hist'.misled = hist.misled
  BY BeginStarts
<1>3. \A q, c \in Procs : Serves(q, c)' <=> Serves(q, c)
  BY BeginKeepsServing
<1>4. NoNewOwner
  BY <1>1 DEF NoNewOwner
<1>5. Stale => Stale'
  <2> SUFFICES ASSUME Stale,
                      NEW q \in Procs, NEW k \in Keys, NEW id \in Int,
                      call'[q].op = "get", call'[q].key = k, call'[q].id = id,
                      call'[q].at = "unlink" \/ GivenUp(q)'
               PROVE  ~Owned(k, id)'
    BY DEF Stale
  <2>1. conn[p].at = "none"
    BY <1>1 DEF BaseInv, Answered
  <2>2. q # p
    BY <1>1, <2>1 DEF GivenUp
  <2>3. GivenUp(q)' => GivenUp(q)
    BY <1>1, <1>3 DEF GivenUp
  <2> QED
    BY <1>1, <1>4, <2>2, <2>3, FewerOwners DEF Stale
<1> QED
  BY <1>1, <1>2, <1>4, <1>5, OthersKeepKeys

(* The answering thread closes a connection without an answer only when it *)
(* does not have the segment, and then nobody has.                         *)
LEMMA ThreadKeepsKeys ==
    ASSUME BaseInv, KeptInv, ServeInv, KeyInv, NEW p \in Procs, ThreadStep(p)
    PROVE  KeyInv'
<1>1. UNCHANGED <<life, call, link, mems, hist>>
  BY DEF ThreadStep, Accept, ThreadLocks, Answer
<1>2. NoNewOwner
  BY <1>1 DEF NoNewOwner
<1> SUFFICES ASSUME Stale,
                    NEW q \in Procs, NEW k \in Keys, NEW id \in Int,
                    call[q].op = "get", call[q].key = k, call[q].id = id,
                    call[q].at = "unlink" \/ GivenUp(q)'
             PROVE  ~Owned(k, id)
  <2>1. ASSUME Stale,
               \A q \in Procs, k \in Keys, id \in Int :
                  /\ call[q].op = "get" /\ call[q].key = k /\ call[q].id = id
                  /\ call[q].at = "unlink" \/ GivenUp(q)'
                  => ~Owned(k, id)
        PROVE  Stale'
    BY <1>1, <1>2, <2>1, FewerOwners DEF Stale
  <2> QED
    BY <1>1, <1>2, <2>1, OthersKeepKeys
<1>3. ASSUME GivenUp(q) \/ call[q].at = "unlink" PROVE ~Owned(k, id)
  BY <1>3 DEF Stale
<1>4. CASE \E c \in Procs : Accept(p, c)
  <2>1. PICK c \in Procs : Accept(p, c)
    BY <1>4
  <2>2. /\ Serves(p, c)' /\ conn'[c].at = "accepted"
        /\ \A r \in Procs \ {c} : conn'[r] = conn[r]
        /\ \A r, d \in Procs : d # c => (Serves(r, d)' <=> Serves(r, d))
    BY <2>1, AcceptKeepsServing
  <2>3. GivenUp(q)' => GivenUp(q)
    BY <2>2 DEF GivenUp
  <2> QED
    BY <1>3, <2>3
<1>5. CASE ThreadLocks(p)
  <2>1. GivenUp(q)' => GivenUp(q)
    BY <1>5, LocksKeepsServing DEF GivenUp
  <2> QED
    BY <1>3, <2>1
<1>6. CASE Answer(p)
  <2> DEFINE c == thread[p].for
             found == ashv_find_local_index(st[p].shmem, call[c].id)
  <2>1. /\ \A r \in Procs \ {c} : conn'[r] = conn[r]
        /\ \A r, d \in Procs : d # c => (Serves(r, d)' <=> Serves(r, d))
        /\ conn[c].at # "accepted" => conn' = conn
        /\ conn[c].at = "accepted" /\ found # {} => conn'[c].at = "answered"
    BY <1>6, AnswerKeepsServing
  <2>2. thread[p].at = "answer" /\ Serves(p, c)
    BY <1>6 DEF Answer, Serves
  <2>3. CASE q # c
    <3>1. GivenUp(q)' => GivenUp(q)
      BY <2>1, <2>3 DEF GivenUp
    <3> QED
      BY <1>3, <3>1
  <2>4. CASE q = c /\ conn[c].at # "accepted"
    <3>1. GivenUp(q)' => GivenUp(q)
      BY <2>1, <2>4 DEF GivenUp
    <3> QED
      BY <1>3, <3>1
  <2>5. CASE q = c /\ conn[c].at = "accepted"
    <3>1. CASE found # {}
      <4>1. ~GivenUp(q)'
        BY <2>1, <2>5, <3>1 DEF GivenUp
      <4> QED
        BY <1>3, <4>1
    <3>2. CASE found = {}
      <4> SUFFICES ASSUME Owned(k, id) PROVE FALSE
        OBVIOUS
      <4>1. PICK r \in Procs : OwnedBy(r, k, id)
        BY SomebodyOwns
      <4>2. r = p
        BY <2>2, <2>5, <4>1, ServerOwns
      <4>3. ~Creating(p, k)
        BY <2>2 DEF Creating, ServeInv, MutexHeld
      <4>4. PICK m \in DOMAIN mems : /\ InUse(m, k) /\ mems[m].id = id
                                     /\ mems[m].by = p
        BY <4>1, <4>2, <4>3 DEF OwnedBy
      <4>5. Holds(st[p].shmem, m)
        BY <4>4 DEF InUse, KeptInv, Held
      <4>6. PICK i \in DOMAIN st[p].shmem : st[p].shmem[i].mem = m
        BY <4>5 DEF Holds
      <4>7. st[p].shmem[i].id = id
        BY <4>4, <4>6 DEF BaseInv, GoodTables, GoodSegment
      <4> QED
        BY <2>5, <3>2, <4>7 DEF ashv_find_local_index
    <3> QED
      BY <3>1, <3>2
  <2> QED
    BY <2>3, <2>4, <2>5
<1> QED
  BY <1>4, <1>5, <1>6 DEF ThreadStep

(* With the one who serves a connection dies the owner of what it is for.  *)
LEMMA DieKeepsKeys ==
    ASSUME BaseInv, KeptInv, ServeInv, KeyInv, NEW p \in Procs, Die(p)
    PROVE  KeyInv'
<1>1. /\ \A s \in SocketIds : sock'[s].holders = sock[s].holders \ {p}
      /\ call'[p] = Idle /\ life'[p] = "dead"
      /\ \A q \in Procs \ {p} : call'[q] = call[q] /\ life'[q] = life[q]
      /\ UNCHANGED <<link, mems, hist>>
  BY DieTypes
<1>2. Idle.at = "idle" /\ Idle.op = "none"
  BY DEF Idle
<1>3. \A r, d \in Procs : Serves(r, d)' <=> r # p /\ Serves(r, d)
  BY DieKeepsServing
<1>4. NoNewOwner
  <2>1. \A m \in DOMAIN mems : mems[m].by \in Procs
    BY MemType DEF BaseInv
  <2> QED
    BY <1>1, <1>2, <2>1 DEF NoNewOwner
<1> SUFFICES ASSUME Stale PROVE Stale'
  BY <1>1, <1>4, OthersKeepKeys
<1> SUFFICES ASSUME NEW q \in Procs, NEW k \in Keys, NEW id \in Int,
                    call'[q].op = "get", call'[q].key = k, call'[q].id = id,
                    call'[q].at = "unlink" \/ GivenUp(q)',
                    Owned(k, id)'
             PROVE  FALSE
  BY DEF Stale
<1>5. q # p /\ call'[q] = call[q]
  BY <1>1, <1>2
<1>6. Owned(k, id)
  BY <1>4, FewerOwners
<1>7. GivenUp(q)' /\ ~GivenUp(q)
  BY <1>5, <1>6 DEF Stale
<1>8. PICK r \in Procs : OwnedBy(r, k, id) /\ r # p
  <2>1. \A m \in DOMAIN mems : InUse(m, k)' => mems[m].by # p
    BY <1>1 DEF InUse
  <2>2. \A r \in Procs : Creating(r, k)' => r # p
    BY <1>1, <1>2 DEF Creating
  <2>3. \A m \in DOMAIN mems : InUse(m, k)' => InUse(m, k)
    BY <1>1, <1>4, FewerOwners
  <2>4. \A r \in Procs : Creating(r, k)' => Creating(r, k)
    BY <1>4, FewerOwners
  <2>5. \/ \E m \in DOMAIN mems : InUse(m, k)' /\ mems[m].id = id
        \/ \E r \in Procs : Creating(r, k)' /\ call'[r].new = id
    BY <1>1 DEF Owned
  <2>6. \A m \in DOMAIN mems : mems[m].by \in Procs
    BY MemType DEF BaseInv
  <2> QED
    BY <1>1, <2>1, <2>2, <2>3, <2>4, <2>5, <2>6 DEF OwnedBy
<1>9. /\ \/ conn'[q].at = conn[q].at
         \/ /\ conn'[q].at = "closed"
            /\ conn[q].at = "queued" /\ sock'[conn[q].to].holders = {}
         \/ /\ conn'[q].at = "closed"
            /\ conn[q].at = "accepted" /\ conn[q].holders = {p}
  BY <1>5, DieCloses
<1>10. CASE conn[q].at = "queued" /\ sock'[conn[q].to].holders = {}
  <2>1. conn[q].to = ashv_socket_id_from_shmid(id)
    BY <1>5, <1>10 DEF ServeInv, Asked
  <2>2. conn[q].to \in SocketIds /\ r \in sock[conn[q].to].holders
    BY <1>8, <2>1, OwnerListens
  <2> QED
    BY <1>1, <1>8, <1>10, <2>2
<1>11. CASE conn[q].at = "accepted"
  <2>1. PICK s \in Procs : Serves(s, q)
    BY <1>7, <1>11 DEF GivenUp
  <2>2. s = r
    BY <1>5, <1>8, <1>11, <2>1, ServerOwns
  <2>3. Serves(r, q)'
    BY <1>3, <1>8, <2>1, <2>2
  <2>4. conn'[q].at = "closed" /\ conn[q].holders = {p}
    BY <1>7, <1>9, <1>11, <2>3 DEF GivenUp
  <2>5. r \in conn[q].holders
    BY <1>11, <2>1, <2>2, WaiterLives DEF ServeInv, Served
  <2> QED
    BY <1>8, <2>4, <2>5
<1> QED
  BY <1>7, <1>9, <1>10, <1>11 DEF GivenUp

LEMMA ForkKeepsKeys ==
    ASSUME BaseInv, ServeInv, KeyInv, NEW p \in Procs, NEW q \in Procs,
           Fork(p, q)
    PROVE  KeyInv'
<1>1. /\ UNCHANGED <<call, link, mems, hist>> /\ life[q] = "unborn"
      /\ \A r \in Procs \ {q} : life'[r] = life[r]
  BY ForkKeepsBase
<1>2. thread' = thread /\ \A c \in Procs : conn'[c].at = conn[c].at
  BY ForkKeepsServing
<1>3. NoNewOwner
  <2>1. \A m \in DOMAIN mems : mems[m].by \in Procs /\ mems[m].by # q
    BY <1>1, MemType DEF BaseInv, Created
  <2> QED
    BY <1>1, <2>1 DEF NoNewOwner
<1>4. \A c \in Procs : GivenUp(c)' => GivenUp(c)
  BY <1>2 DEF GivenUp, Serves
<1>5. Stale => Stale'
  BY <1>1, <1>3, <1>4, FewerOwners DEF Stale
<1> QED
  BY <1>1, <1>3, <1>5, OthersKeepKeys

LEMMA NextKeepsKeys ==
    BaseInv /\ KeptInv /\ ServeInv /\ KeyInv /\ [Next]_vars => KeyInv'
<1> SUFFICES ASSUME BaseInv, KeptInv, ServeInv, KeyInv, [Next]_vars
             PROVE  KeyInv'
  OBVIOUS
<1>1. CASE UNCHANGED vars \/ Directory
  <2>0. UNCHANGED <<life, call, thread, conn, link, mems, hist>>
    BY <1>1 DEF vars, Directory
  <2>1. NoNewOwner
    BY <2>0 DEF NoNewOwner
  <2>2. Stale => Stale'
    BY <2>0 DEF Stale, GivenUp, Serves, Owned, InUse, Creating
  <2> QED
    BY <2>0, <2>1, <2>2, OthersKeepKeys
<1>2. ASSUME NEW p \in Procs,
             \/ ShmgetStep(p) \/ OtherCall(p) \/ MainStep(p) \/ ThreadStep(p)
             \/ Die(p) \/ \E q \in Procs : Fork(p, q)
      PROVE  KeyInv'
  BY <1>2, BeginKeepsKeys, MainKeepsKeys, ThreadKeepsKeys, DieKeepsKeys,
     ForkKeepsKeys
<1> QED
  BY <1>1, <1>2 DEF Next

(* A key has one segment at a time: when shmget takes the key of a process *)
(* that refused it (shmem.c), no living process still has that segment, or *)
(* is about to create it, through any interleaving of calls, answers,      *)
(* errors, forks and deaths in which shmget is not misled.  The property   *)
(* is about the identifiers that are not negative; the counters do not     *)
(* wrap.                                                                   *)
THEOREM KeysHaveOneOwner == NoWrap => (Spec => []OneOwnerPerKey)
<1> SUFFICES ASSUME NoWrap PROVE Spec => []OneOwnerPerKey
  OBVIOUS
<1> DEFINE IInv == BaseInv /\ KeptInv /\ CountInv /\ ServeInv /\ KeyInv
<1>1. IInv => OneOwnerPerKey
  BY DEF KeyInv, OneOwner, OneOwnerPerKey, KeyHasOneOwner
<1>2. Init => IInv
  <2> SUFFICES ASSUME Init PROVE IInv
    OBVIOUS
  <2>1. \A k, id : ~Owned(k, id)
    BY DEF Init, Owned, Creating, Idle
  <2>2. KeyInv
    <3>1. Linked /\ Stale
      BY <2>1 DEF Linked, Stale
    <3>2. OneOwner
      BY <2>1 DEF OneOwner, Owned
    <3> QED
      BY <3>1, <3>2 DEF KeyInv
  <2> QED
    BY <2>2, InitBase, InitKept, InitCounts, InitServes
<1>3. IInv /\ [Next]_vars => IInv'
  BY NextKeepsBase, NextKeepsSegments, NextKeepsCounts, NextKeepsServing,
     NextKeepsKeys
<1> HIDE DEF IInv
<1> QED
  BY <1>1, <1>2, <1>3, PTL DEF Spec
=============================================================================
