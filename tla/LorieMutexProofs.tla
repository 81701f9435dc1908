-------------------------- MODULE LorieMutexProofs --------------------------
(***************************************************************************)
(* The lock in shared memory excludes connected processes, for any number  *)
(* of activities and of crashes: proofs about module LorieMutex.           *)
(***************************************************************************)
EXTENDS LorieMutex, TLAPS

(* ConnectedHolderOwns is not inductive: whoever initialises the mutex anew *)
(* decided so in an earlier step.  What keeps the decision valid is that a  *)
(* connection is made only by threads outside lorie_mutex_lock and that one *)
(* activity at a time is alive.                                             *)

OpenedLive == \A a \in Activities : fd[a] # NULL => Live(a)

ConnOpen == conn_fd # NULL => conn_fd \in ends

OneActivity == \A a, b \in Activities : Live(a) /\ Live(b) => a = b

ReinitAlone == \A p \in Procs : pc[p] = "reinit" => ~Alive(p)

IInv == TypeOK /\ OpenedLive /\ ConnOpen /\ OneActivity /\ ReinitAlone
        /\ ConnectedHolderOwns

\* A connected thread in the lock excludes that another one is about to
\* initialise the mutex: the step that needs the whole of IInv.
LEMMA ReinitHarmless ==
    ASSUME IInv, NEW q \in Procs, pc[q] = "reinit",
           NEW p \in Procs, Inside(p), Alive(p),
           ~(p \in Activities /\ Forgotten(p))
    PROVE  FALSE
<1>1. p # q
  BY DEF Inside
<1>2. Live(p) /\ Live(q) /\ ~Alive(q)
  BY DEF IInv, ReinitAlone, Inside, Live
<1>3. CASE p = Server
  <2>1. PICK a \in Activities : fd[a] = conn_fd
    BY <1>3 DEF Alive, Opened
  <2>2. conn_fd # NULL /\ conn_fd \in ends
    BY <1>3 DEF Alive, IInv, ConnOpen
  <2>3. q \in Activities /\ q # Server
    BY <1>1, <1>3 DEF Procs
  <2>4. a = q
    BY <1>2, <2>1, <2>2, <2>3 DEF IInv, OpenedLive, OneActivity
  <2> QED
    BY <1>2, <2>1, <2>2, <2>3, <2>4 DEF Alive
<1>4. CASE p # Server /\ q = Server
  <2>1. p \in Activities /\ fd[p] \in ends /\ conn_fd = fd[p]
    BY <1>4 DEF Procs, Alive, Forgotten
  <2>2. conn_fd # NULL
    BY <2>1, MutexAssumption DEF IInv, TypeOK
  <2> QED
    BY <1>2, <1>4, <2>1, <2>2 DEF Alive, Opened
<1>5. CASE p # Server /\ q # Server
  BY <1>1, <1>2, <1>5 DEF Procs, IInv, OneActivity
<1> QED
  BY <1>3, <1>4, <1>5

LEMMA InitIInv == Init => IInv
<1> SUFFICES ASSUME Init PROVE IInv
  OBVIOUS
<1> USE MutexAssumption DEF Init
<1>1. TypeOK
  BY DEF TypeOK, Procs, PC
<1>2. OpenedLive /\ ConnOpen /\ OneActivity
  BY DEF OpenedLive, ConnOpen, OneActivity, Live, Procs
<1>3. ReinitAlone /\ ConnectedHolderOwns
  BY DEF ReinitAlone, ConnectedHolderOwns, Inside, Procs
<1> QED
  BY <1>1, <1>2, <1>3 DEF IInv

\* A step inside lorie_mutex_lock or lorie_mutex_unlock.
LEMMA LockingKeepsIInv ==
    ASSUME IInv, NEW q \in Procs, Locking(q) PROVE IInv'
<1> USE MutexAssumption
<1>1. TypeOK'
  BY DEF IInv, TypeOK, Locking, Lock, TimedLock, SetPid, TimedOut, Reinit,
         ClearPid, Unlock, Step, PC, connVars
<1>2. UNCHANGED <<conn_fd, ends, fd>>
  BY DEF Locking, Lock, TimedLock, SetPid, TimedOut, Reinit, ClearPid, Unlock,
         connVars
<1>3. \A p \in Procs : p # q => pc'[p] = pc[p]
  BY DEF IInv, TypeOK, Locking, Lock, TimedLock, SetPid, TimedOut, Reinit,
         ClearPid, Unlock, Step
<1>4. Live(q) /\ Live(q)'
  BY DEF IInv, TypeOK, Locking, Lock, TimedLock, SetPid, TimedOut, Reinit,
         ClearPid, Unlock, Step, Live
<1>5. \A p \in Procs : Live(p)' <=> Live(p)
  BY <1>3, <1>4 DEF Live
<1>6. /\ \A p \in Procs : Alive(p)' <=> Alive(p)
      /\ \A a \in Activities : Forgotten(a)' <=> Forgotten(a)
  BY <1>2 DEF Alive, Opened, Forgotten
<1>7. OpenedLive' /\ ConnOpen' /\ OneActivity'
  BY <1>2, <1>5 DEF IInv, TypeOK, OpenedLive, ConnOpen, OneActivity, Procs
<1>8. ReinitAlone'
  <2>1. pc'[q] = "reinit" => ~Alive(q)
    BY DEF IInv, TypeOK, Locking, Lock, TimedLock, SetPid, TimedOut, Reinit,
           ClearPid, Unlock, Step, HolderMayLive
  <2> QED
    BY <1>3, <1>6, <2>1 DEF IInv, ReinitAlone
<1>9. ConnectedHolderOwns'
  <2> SUFFICES ASSUME NEW p \in Procs, Inside(p)', Alive(p)',
                      ~(p \in Activities /\ Forgotten(p)')
               PROVE  owner' = p
    BY DEF ConnectedHolderOwns
  <2>1. Alive(p) /\ ~(p \in Activities /\ Forgotten(p))
    BY <1>6
  <2>2. CASE p = q
    <3>1. TimedLock(q) \/ SetPid(q) \/ ClearPid(q)
      BY <2>2 DEF IInv, TypeOK, Inside, Locking, Lock, TimedLock, SetPid,
                  TimedOut, Reinit, ClearPid, Unlock, Step
    <3>2. CASE TimedLock(q)
      BY <2>2, <3>2 DEF TimedLock
    <3>3. CASE SetPid(q) \/ ClearPid(q)
      BY <2>1, <2>2, <3>3
         DEF IInv, ConnectedHolderOwns, Inside, SetPid, ClearPid, Step
    <3> QED
      BY <3>1, <3>2, <3>3
  <2>3. CASE p # q
    <3>1. Inside(p) /\ owner = p
      BY <1>3, <2>1, <2>3 DEF IInv, ConnectedHolderOwns, Inside
    <3>2. ~TimedLock(q)
      BY <3>1 DEF TimedLock, Procs
    <3>3. ~Reinit(q)
      BY <2>1, <3>1, ReinitHarmless DEF Reinit, Step
    <3> QED
      BY <2>3, <3>1, <3>2, <3>3
         DEF Locking, Lock, SetPid, TimedOut, ClearPid, Unlock
  <2> QED
    BY <2>2, <2>3
<1> QED
  BY <1>1, <1>7, <1>8, <1>9 DEF IInv

LEMMA StartKeepsIInv ==
    ASSUME IInv, NEW a \in Activities, Start(a) PROVE IInv'
<1> USE MutexAssumption
<1>1. /\ pc' = [pc EXCEPT ![a] = "run"] /\ pc[a] = "off"
      /\ UNCHANGED <<owner, lockingPid, conn_fd, ends, fd, attached>>
      /\ \A b \in Activities : ~Live(b)
  BY DEF Start, Step, connVars
<1>2. TypeOK'
  BY <1>1 DEF IInv, TypeOK, Procs, PC
<1>3. OpenedLive' /\ ConnOpen' /\ OneActivity'
  BY <1>1 DEF IInv, TypeOK, OpenedLive, ConnOpen, OneActivity, Live, Procs
<1>4. /\ \A p \in Procs : Alive(p)' <=> Alive(p)
      /\ \A b \in Activities : Forgotten(b)' <=> Forgotten(b)
  BY <1>1 DEF Alive, Opened, Forgotten
<1>5. ReinitAlone' /\ ConnectedHolderOwns'
  BY <1>1, <1>4 DEF IInv, TypeOK, ReinitAlone, ConnectedHolderOwns, Inside,
                    Procs
<1> QED
  BY <1>2, <1>3, <1>5 DEF IInv

LEMMA ConnectKeepsIInv ==
    ASSUME IInv, NEW a \in Activities, Connect(a) PROVE IInv'
<1> USE MutexAssumption
<1>1. PICK c \in Conns :
        /\ conn_fd' = c /\ ends' = ends \cup {c} /\ fd' = [fd EXCEPT ![a] = c]
  BY DEF Connect, EndOf
<1>2. /\ pc[Server] = "run" /\ pc[a] = "run"
      /\ attached' = attached \cup {a}
      /\ UNCHANGED <<pc, owner, lockingPid>>
  BY DEF Connect
<1>3. TypeOK'
  BY <1>1, <1>2 DEF IInv, TypeOK
<1>4. OpenedLive' /\ ConnOpen' /\ OneActivity'
  BY <1>1, <1>2 DEF IInv, TypeOK, OpenedLive, ConnOpen, OneActivity, Live
<1>5. \A p \in Procs : Live(p) => pc[p] = "run"
  BY <1>2 DEF IInv, OneActivity, Live, Procs
<1>6. ReinitAlone' /\ ConnectedHolderOwns'
  BY <1>2, <1>5 DEF ReinitAlone, ConnectedHolderOwns, Inside, Live
<1> QED
  BY <1>3, <1>4, <1>6 DEF IInv

\* Closing, detaching, hanging up and dying only take connections away.
Loss ==
    \/ \E a \in Activities : Close(a) \/ Detach(a)
    \/ \E c \in Conns : ServerHangup(c)
    \/ \E p \in Procs : Crash(p)

LEMMA LossKeepsIInv == ASSUME IInv, Loss PROVE IInv'
<1> USE MutexAssumption
<1>1. TypeOK'
  BY DEF Loss, IInv, TypeOK, Close, Detach, ServerHangup, Crash, PC, Procs
<1>2. /\ owner' = owner /\ ends' \subseteq ends
      /\ conn_fd' = conn_fd \/ conn_fd' = NULL
      /\ \A a \in Activities : fd'[a] = fd[a] \/ fd'[a] = NULL
  BY DEF Loss, IInv, TypeOK, Close, Detach, ServerHangup, Crash, Procs
<1>3. \A p \in Procs : \/ pc'[p] = pc[p]
                       \/ pc'[p] = "dead" /\ (p \in Activities => fd'[p] = NULL)
  BY DEF Loss, IInv, TypeOK, Close, Detach, ServerHangup, Crash, Procs
<1>4. ConnOpen'
  BY DEF Loss, IInv, TypeOK, ConnOpen, Close, Detach, ServerHangup, Crash, Procs
<1>5. OpenedLive' /\ OneActivity'
  BY <1>2, <1>3 DEF IInv, TypeOK, OpenedLive, OneActivity, Live, Procs
<1>6. NULL \notin ends
  BY DEF IInv, TypeOK
<1>7. /\ \A p \in Procs : Alive(p)' => Alive(p)
      /\ \A a \in Activities : Alive(a)' /\ Forgotten(a) => Forgotten(a)'
  BY <1>2, <1>6 DEF Alive, Opened, Forgotten, Procs
<1>8. ReinitAlone'
  BY <1>3, <1>7 DEF IInv, ReinitAlone
<1>9. ConnectedHolderOwns'
  BY <1>2, <1>3, <1>7 DEF IInv, ConnectedHolderOwns, Inside, Procs
<1> QED
  BY <1>1, <1>4, <1>5, <1>8, <1>9 DEF IInv

LEMMA NextKeepsIInv == IInv /\ [Next]_vars => IInv'
<1> SUFFICES ASSUME IInv, [Next]_vars PROVE IInv'
  OBVIOUS
<1>1. CASE \E p \in Procs : Locking(p)
  BY <1>1, LockingKeepsIInv
<1>2. CASE \E a \in Activities : Start(a) \/ Connect(a)
  BY <1>2, StartKeepsIInv, ConnectKeepsIInv
<1>3. CASE Loss
  BY <1>3, LossKeepsIInv
<1>4. CASE UNCHANGED vars
  BY <1>4 DEF vars, connVars, IInv, TypeOK, OpenedLive, ConnOpen, OneActivity,
              ReinitAlone, ConnectedHolderOwns, Live, Alive, Opened, Forgotten,
              Inside
<1> QED
  BY <1>1, <1>2, <1>3, <1>4 DEF Next, Loss

LEMMA Invariance == Spec => []IInv
<1> QED
  BY InitIInv, NextKeepsIInv, PTL DEF Spec

-----------------------------------------------------------------------------
\* Every field of the lock and of the connection keeps its type, for any
\* number of activity processes.
THEOREM TypeCorrect == Spec => []TypeOK
<1>1. IInv => TypeOK
  BY DEF IInv
<1> QED
  BY Invariance, <1>1, PTL

\* lorie_mutex_lock initialises the mutex under a holder that finds itself
\* connected only if the server has forgotten that connection, for any number
\* of activities, crashes, reconnections and late hang-ups.
THEOREM HolderOwns == Spec => []ConnectedHolderOwns
<1>1. IInv => ConnectedHolderOwns
  BY DEF IInv
<1> QED
  BY Invariance, <1>1, PTL

\* The X server and the activity it is connected to are never both between
\* lorie_mutex_lock and lorie_mutex_unlock.
THEOREM Exclusion == Spec => []ConnectedExclusion
<1>1. IInv => ConnectedExclusion
  <2> SUFFICES ASSUME IInv, NEW a \in Activities, Joined(a),
                      Inside(Server), Inside(a)
               PROVE  FALSE
    BY DEF ConnectedExclusion
  <2>1. Alive(Server) /\ Alive(a) /\ ~Forgotten(a)
    BY MutexAssumption DEF Alive, Opened, Joined, Forgotten, IInv, ConnOpen
  <2>2. owner = Server /\ owner = a
    BY <2>1, MutexAssumption DEF IInv, ConnectedHolderOwns, Procs
  <2> QED
    BY <2>2, MutexAssumption
<1> QED
  BY Invariance, <1>1, PTL
=============================================================================
