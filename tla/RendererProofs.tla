--------------------------- MODULE RendererProofs ---------------------------
(***************************************************************************)
(* Proofs about module Renderer: memory is unmapped, surfaces destroyed    *)
(* and buffers freed only when nobody uses them any more, for any number   *)
(* of mappings, windows and buffers.  None of the arguments needs          *)
(* stateLock, which the renderer thread does not hold on its first turn:   *)
(* they rest on what each thread may do at the place where it is.          *)
(***************************************************************************)
EXTENDS Renderer, TLAPS

(* A flag is up only inside the handshake that raised it, and a handshake  *)
(* starts only after the previous one is complete: a pending value is      *)
(* never overwritten.                                                      *)
HandshakeInv ==
    /\ guiOp = "none" <=> gui \in {"idle", "removeAll"}
    /\ gui = "removeAll" => relink # "none"
    /\ stateChanged => guiOp = "state"
    /\ windowChanged => guiOp = "window"
    /\ pendingState # NULL => stateChanged
    /\ pendingWin # NULL => windowChanged
    /\ windowChanged => pendingWin = guiWin

(* Every mapping has exactly one owner.                                    *)
MappingInv ==
    /\ mapped = {state, oldState, pendingState} \ {NULL}
    /\ state # NULL => state \notin {oldState, pendingState}
    /\ oldState # NULL => /\ oldState # pendingState
                          /\ rnd \in {"listen", "relock", "rewake"}

(* What the proxy thread listens to, by where the renderer thread is.      *)
ProxyInv ==
    CASE rnd = "listen" ->
            proxyPending = NULL /\ proxyCurrent = ListenTarget(oldState)
      [] rnd \in {"relock", "rewake"} ->
            IF relocked
            THEN proxyPending = NULL /\ proxyCurrent = ListenTarget(state)
            ELSE /\ proxyPending = ListenTarget(state)
                 /\ proxyCurrent = ListenTarget(oldState)
      [] OTHER ->
            proxyPending = NULL /\ proxyCurrent = ListenTarget(state)

(* Unless EGL refuses to destroy it, the only surface is the renderer's    *)
(* current one, on the window of the last rendererSetWindow.               *)
SurfaceInv ==
    "release" \notin Faults =>
       surfaces \subseteq {sfc} /\ (~windowChanged => surfaces \subseteq {guiWin})

BufferInv ==
    /\ drawing # NULL => rnd = "redraw"
    /\ DrawnBufferAlive /\ ListsDisjoint

IInv == /\ TypeOK /\ HandshakeInv /\ MappingInv /\ ProxyInv /\ SurfaceInv
        /\ BufferInv

LEMMA InitIInv == Init => IInv
<1> SUFFICES ASSUME Init PROVE IInv
  OBVIOUS
<1> USE ConstantsAssumption DEF Init
<1>1. TypeOK
  BY DEF TypeOK, RendererPC, GuiPC, ProxyPC
<1>2. HandshakeInv /\ MappingInv
  BY DEF HandshakeInv, MappingInv
<1>3. ProxyInv /\ SurfaceInv /\ BufferInv
  BY DEF ProxyInv, ListenTarget, SurfaceInv, BufferInv, DrawnBufferAlive,
         ListsDisjoint
<1> QED
  BY <1>1, <1>2, <1>3 DEF IInv

LEMMA StutterKeepsIInv == IInv /\ UNCHANGED vars => IInv'
<1> SUFFICES ASSUME IInv, UNCHANGED vars PROVE IInv'
  OBVIOUS
<1> USE DEF IInv, vars, handshakeVars, renderVars, guiVars, proxyVars,
            bufferVars, worldVars
<1>1. TypeOK'
  BY DEF TypeOK
<1>2. HandshakeInv' /\ MappingInv'
  BY DEF HandshakeInv, MappingInv
<1>3. ProxyInv' /\ SurfaceInv' /\ BufferInv'
  BY DEF ProxyInv, ListenTarget, SurfaceInv, BufferInv, DrawnBufferAlive,
         ListsDisjoint
<1> QED
  BY <1>1, <1>2, <1>3

-----------------------------------------------------------------------------
(* A signal only moves the renderer thread out of its two waits.           *)
LEMMA SignalMoves ==
    ASSUME TypeOK
    PROVE  /\ SignalStateCond(rnd) \in RendererPC
           /\ rnd \in {"relock", "rewake"}
                 <=> SignalStateCond(rnd) \in {"relock", "rewake"}
           /\ rnd \notin {"idle", "relock"} => SignalStateCond(rnd) = rnd
           /\ SignalStateCond(rnd) \in {"listen", "redraw"}
                 => SignalStateCond(rnd) = rnd
BY DEF TypeOK, SignalStateCond, RendererPC

(* The GUI thread begins a handshake.                                      *)
LEMMA BeginStateKeepsIInv ==
    ASSUME IInv, SharedServerState \/ Disconnect PROVE IInv'
<1> USE ConstantsAssumption, SignalMoves
        DEF IInv, SharedServerState, Disconnect, BeginSetSharedState,
            renderVars, proxyVars, bufferVars, worldVars
<1>1. TypeOK'
  <2>1. rnd' \in RendererPC
    OBVIOUS
  <2>2. mapped' \in SUBSET Mappings /\ pendingState' \in Mappings \cup {NULL}
    BY DEF TypeOK
  <2>3. CASE SharedServerState
    <3>1. stateChanged' \in BOOLEAN /\ windowChanged' \in BOOLEAN
      BY <2>3 DEF TypeOK
    <3> QED
      BY <2>1, <2>2, <2>3, <3>1 DEF TypeOK, GuiPC
  <2>4. CASE Disconnect
    BY <2>1, <2>2, <2>4 DEF TypeOK, GuiPC
  <2> QED
    BY <2>3, <2>4
<1>2. HandshakeInv' /\ MappingInv'
  BY DEF HandshakeInv, MappingInv
<1>3. ProxyInv'
  BY DEF ProxyInv, ListenTarget
<1>4. SurfaceInv' /\ BufferInv'
  BY DEF SurfaceInv, BufferInv, DrawnBufferAlive, ListsDisjoint
<1> QED
  BY <1>1, <1>2, <1>3, <1>4

LEMMA BeginWindowKeepsIInv ==
    ASSUME IInv, NEW w \in Windows \cup {NULL}, BeginSetWindow(w) PROVE IInv'
<1> USE ConstantsAssumption, SignalMoves
        DEF IInv, BeginSetWindow, handshakeVars, renderVars, proxyVars,
            bufferVars, worldVars
<1>1. TypeOK'
  <2>1. stateChanged' \in BOOLEAN /\ windowChanged' \in BOOLEAN
    BY DEF TypeOK
  <2>2. rnd' \in RendererPC
    BY DEF TypeOK
  <2> QED
    BY <2>1, <2>2 DEF TypeOK, GuiPC
<1>2. HandshakeInv' /\ MappingInv'
  BY DEF HandshakeInv, MappingInv
<1>3. ProxyInv'
  BY DEF ProxyInv, ListenTarget
<1>4. SurfaceInv' /\ BufferInv'
  BY DEF HandshakeInv, SurfaceInv, BufferInv, DrawnBufferAlive, ListsDisjoint
<1> QED
  BY <1>1, <1>2, <1>3, <1>4

(* ... and waits for its end.                                              *)
LEMMA HandshakeKeepsIInv ==
    ASSUME IInv,
           \/ Connect \/ SharedServerStateLost \/ GuiMustWait \/ GuiWait
           \/ GuiSpuriousWake \/ GuiRelock \/ GuiReturn
    PROVE  IInv'
<1> USE ConstantsAssumption
        DEF IInv, Connect, SharedServerStateLost, GuiMustWait, GuiWait,
            GuiSpuriousWake, GuiRelock, GuiReturn, handshakeVars, renderVars,
            proxyVars, bufferVars, worldVars
<1>1. TypeOK'
  BY DEF TypeOK, GuiPC
<1>2. HandshakeInv'
  BY DEF HandshakeInv, Unfinished
<1>3. MappingInv' /\ ProxyInv'
  BY DEF MappingInv, ProxyInv, ListenTarget
<1>4. SurfaceInv' /\ BufferInv'
  BY DEF SurfaceInv, BufferInv, DrawnBufferAlive, ListsDisjoint
<1> QED
  BY <1>1, <1>2, <1>3, <1>4

(* The GUI thread adds and removes buffers, and asks for a frame.          *)
LEMMA BufferStepKeepsIInv ==
    ASSUME IInv,
           \/ RemoveAllBuffers \/ Repaint
           \/ \E b \in Bufs : AddBuffer(b)
           \/ \E id \in Ids : RemoveBuffer(id)
    PROVE  IInv'
<1> USE ConstantsAssumption, SignalMoves
        DEF IInv, RemoveAllBuffers, Repaint, AddBuffer, RemoveBuffer,
            RemoveFromList, LeaveToRenderer, FindById,
            handshakeVars, renderVars, guiVars, proxyVars, bufferVars,
            worldVars
<1>1. TypeOK'
  <2>1. rnd' \in RendererPC
    BY DEF TypeOK
  <2>2. /\ addedBuffers' \in SUBSET Bufs /\ buffers' \in SUBSET Bufs
        /\ removedBuffers' \in SUBSET Bufs
    BY DEF TypeOK
  <2>3. /\ gui' \in GuiPC /\ link' \in {"closed", "open", "announced"}
        /\ relink' \in {"none", "closed", "open"}
    BY DEF TypeOK, GuiPC, HandshakeInv
  <2> QED
    BY <2>1, <2>2, <2>3 DEF TypeOK
<1>2. HandshakeInv' /\ MappingInv'
  BY DEF HandshakeInv, MappingInv
<1>3. ProxyInv'
  BY DEF ProxyInv, ListenTarget
<1>4. SurfaceInv'
  BY DEF SurfaceInv
<1>5. BufferInv'
  BY DEF TypeOK, BufferInv, DrawnBufferAlive, ListsDisjoint
<1> QED
  BY <1>1, <1>2, <1>3, <1>4, <1>5

-----------------------------------------------------------------------------
(* The renderer thread moves on without touching what others see.          *)
LEMMA MoveKeepsIInv ==
    ASSUME IInv,
           \/ RendererStart \/ ShouldWait \/ HasWork \/ RendererWait
           \/ RendererLock \/ RendererSpuriousWake \/ NotRelocked
           \/ SameWindow \/ NothingToDraw
    PROVE  IInv'
<1> USE ConstantsAssumption, SignalMoves
        DEF IInv, RendererStart, ShouldWait, HasWork, RendererWait,
            RendererLock, RendererSpuriousWake, NotRelocked, SameWindow,
            NothingToDraw, Goto, handshakeVars, renderVars, guiVars,
            proxyVars, bufferVars, worldVars
<1>1. TypeOK'
  BY DEF TypeOK, RendererPC
<1>2. HandshakeInv' /\ MappingInv'
  BY DEF HandshakeInv, MappingInv
<1>3. ProxyInv'
  BY DEF ProxyInv, ListenTarget
<1>4. SurfaceInv' /\ BufferInv'
  BY DEF SurfaceInv, BufferInv, DrawnBufferAlive, ListsDisjoint
<1> QED
  BY <1>1, <1>2, <1>3, <1>4

(* The switch to another shared state, up to the munmap of the old one.    *)
LEMMA SwitchKeepsIInv ==
    ASSUME IInv, ApplyState \/ ListenOtherCondVar \/ UnmapOldState
    PROVE  IInv'
<1> USE ConstantsAssumption
        DEF IInv, ApplyState, ListenOtherCondVar, UnmapOldState,
            handshakeVars, renderVars, guiVars, proxyVars, bufferVars,
            worldVars
<1>1. TypeOK'
  <2>1. CASE ApplyState
    <3>1. /\ oldState' \in Mappings \cup {NULL}
          /\ state' \in Mappings \cup {NULL}
      BY <2>1 DEF TypeOK, Replaced
    <3>2. surfaceAvailable' \in [Mappings -> BOOLEAN]
      BY <2>1 DEF TypeOK, HasSurface
    <3>3. stateChanged' \in BOOLEAN /\ windowChanged' \in BOOLEAN
      BY <2>1 DEF TypeOK
    <3> QED
      BY <2>1, <3>1, <3>2, <3>3 DEF TypeOK, RendererPC
  <2>2. CASE ListenOtherCondVar
    <3>1. relocked' \in BOOLEAN
      BY <2>2
    <3>2. proxyPending' \in Mappings \cup {proxyDef, NULL}
      BY <2>2 DEF TypeOK, ListenTarget
    <3>3. prx' \in ProxyPC
      BY <2>2 DEF TypeOK, ProxyPC, BroadcastProxy
    <3> QED
      BY <2>2, <3>1, <3>2, <3>3 DEF TypeOK, RendererPC
  <2>3. CASE UnmapOldState
    BY <2>3 DEF TypeOK, RendererPC
  <2> QED
    BY <2>1, <2>2, <2>3
<1>2. HandshakeInv'
  BY DEF HandshakeInv
<1>3. MappingInv'
  BY DEF HandshakeInv, MappingInv, Replaced
<1>4. ProxyInv'
  BY DEF HandshakeInv, MappingInv, ProxyInv, ListenTarget, Replaced
<1>5. SurfaceInv' /\ BufferInv'
  BY DEF SurfaceInv, BufferInv, DrawnBufferAlive, ListsDisjoint
<1> QED
  BY <1>1, <1>2, <1>3, <1>4, <1>5

LEMMA RefreshKeepsIInv ==
    ASSUME IInv, RefreshContext PROVE IInv'
<1> USE ConstantsAssumption
        DEF IInv, handshakeVars, renderVars, guiVars, proxyVars, bufferVars,
            worldVars
<1>1. /\ rnd = "window" /\ rnd' = "attach"
      /\ windowChanged /\ windowChanged' = FALSE /\ pendingWin' = NULL
      /\ UNCHANGED <<stateLock, stateChanged, pendingState, state, oldState,
                     drawing, guiVars, proxyVars, bufferVars, mapped>>
  BY DEF RefreshContext
<1>2. PICK valid \in Outcomes("invalid"), released \in Outcomes("release"),
           created \in Outcomes("create"), current \in Outcomes("current") :
       LET live == IF Destroys(released) THEN surfaces \ {sfc} ELSE surfaces
           new  == IF pendingWin # NULL /\ ~valid THEN defaultWin
                                                  ELSE pendingWin
           ok   == created /\ new \in Windows \ live
       IN /\ win' = WindowOrDefault(new)
          /\ sfc' = CASE ok         -> new
                      [] new = NULL -> IF Destroys(released) THEN defaultWin
                                                             ELSE sfc
                      [] OTHER      -> NULL
          /\ surfaces' = IF ok THEN live \cup {new} ELSE live
          /\ surfaceAvailable' =
                IF state = NULL \/ (new # NULL /\ ~ok) THEN surfaceAvailable
                ELSE [surfaceAvailable EXCEPT ![state] = ok /\ current]
  BY DEF RefreshContext
<1> DEFINE live == IF Destroys(released) THEN surfaces \ {sfc} ELSE surfaces
           new  == IF pendingWin # NULL /\ ~valid THEN defaultWin
                                                  ELSE pendingWin
           ok   == created /\ new \in Windows \ live
<1>3. TypeOK'
  <2>1. new \in Windows \cup {defaultWin, NULL} /\ (ok => new \in Windows)
    BY DEF TypeOK
  <2>2. win' \in Windows \cup {defaultWin}
    BY <1>2, <2>1 DEF WindowOrDefault
  <2>3. sfc' \in Windows \cup {defaultWin, NULL}
    BY <1>2, <2>1 DEF TypeOK
  <2>4. surfaces' \in SUBSET Windows
    BY <1>2, <2>1 DEF TypeOK
  <2>5. created \in BOOLEAN /\ current \in BOOLEAN
    BY DEF Outcomes
  <2>6. surfaceAvailable' \in [Mappings -> BOOLEAN]
    BY <1>2, <2>5 DEF TypeOK
  <2>7. stateChanged' \in BOOLEAN /\ windowChanged' \in BOOLEAN
    BY <1>1 DEF TypeOK
  <2> QED
    BY <1>1, <2>2, <2>3, <2>4, <2>6, <2>7 DEF TypeOK, RendererPC
<1>4. SurfaceInv'
  <2> SUFFICES ASSUME "release" \notin Faults
               PROVE  surfaces' \subseteq {sfc'} /\ surfaces' \subseteq {guiWin}
    BY <1>1 DEF SurfaceInv
  <2>1. released
    BY DEF Outcomes
  <2>2. (IF Destroys(released) THEN surfaces \ {sfc} ELSE surfaces) = {}
    BY <2>1 DEF SurfaceInv, Destroys, TypeOK
  <2>3. pendingWin = guiWin
    BY <1>1 DEF HandshakeInv
  <2> QED
    BY <1>2, <2>2, <2>3
<1>5. HandshakeInv' /\ MappingInv'
  BY <1>1 DEF HandshakeInv, MappingInv
<1>6. ProxyInv' /\ BufferInv'
  BY <1>1 DEF ProxyInv, ListenTarget, BufferInv, DrawnBufferAlive,
              ListsDisjoint
<1> QED
  BY <1>3, <1>4, <1>5, <1>6

(* The renderer thread attaches, draws and frees buffers.                  *)
LEMMA DrawKeepsIInv ==
    ASSUME IInv,
           \/ AttachBuffers \/ Redraw \/ ReleaseRemoved
           \/ \E id \in Ids : FindBuffer(id)
    PROVE  IInv'
<1> USE ConstantsAssumption
        DEF IInv, AttachBuffers, Redraw, ReleaseRemoved, FindBuffer, FindById,
            handshakeVars, renderVars, guiVars, proxyVars, bufferVars,
            worldVars
<1>1. TypeOK'
  BY DEF TypeOK, RendererPC, GuiPC, SignalFinishCond
<1>2. HandshakeInv' /\ MappingInv'
  BY DEF HandshakeInv, MappingInv, SignalFinishCond
<1>3. ProxyInv' /\ SurfaceInv'
  BY DEF ProxyInv, ListenTarget, SurfaceInv
<1>4. BufferInv'
  BY DEF TypeOK, BufferInv, DrawnBufferAlive, ListsDisjoint
<1> QED
  BY <1>1, <1>2, <1>3, <1>4

LEMMA ProxyKeepsIInv ==
    ASSUME IInv, ProxyNext PROVE IInv'
<1> USE ConstantsAssumption, SignalMoves
        DEF IInv, ProxyNext, ProxyStart, ProxySignalled, ProxyForward,
            handshakeVars, renderVars, guiVars, bufferVars, worldVars
<1>1. TypeOK'
  <2>1. CASE ProxyStart \/ ProxySignalled
    BY <2>1 DEF TypeOK, ProxyPC
  <2>2. CASE ProxyForward
    <3>1. rnd' \in RendererPC
      BY <2>2 DEF TypeOK
    <3>2. proxyCurrent' \in Mappings \cup {proxyDef}
      BY <2>2 DEF TypeOK
    <3> QED
      BY <2>2, <3>1, <3>2 DEF TypeOK, ProxyPC
  <2> QED
    BY <2>1, <2>2
<1>2. HandshakeInv' /\ MappingInv'
  BY DEF HandshakeInv, MappingInv
<1>3. ProxyInv'
  BY DEF ProxyInv, ListenTarget
<1>4. SurfaceInv' /\ BufferInv'
  BY DEF SurfaceInv, BufferInv, DrawnBufferAlive, ListsDisjoint
<1> QED
  BY <1>1, <1>2, <1>3, <1>4

LEMMA NextKeepsIInv == IInv /\ [Next]_vars => IInv'
<1> SUFFICES ASSUME IInv, Next PROVE IInv'
  BY StutterKeepsIInv
<1>1. CASE GuiNext
  BY <1>1, BeginStateKeepsIInv, BeginWindowKeepsIInv, HandshakeKeepsIInv,
     BufferStepKeepsIInv DEF GuiNext, GuiHandshake
<1>2. CASE RendererNext
  BY <1>2, MoveKeepsIInv, SwitchKeepsIInv, RefreshKeepsIInv, DrawKeepsIInv
     DEF RendererNext, RendererStep
<1>3. CASE ProxyNext
  BY <1>3, ProxyKeepsIInv
<1> QED
  BY <1>1, <1>2, <1>3 DEF Next

LEMMA Invariance == Spec => []IInv
<1> QED
  BY InitIInv, NextKeepsIInv, PTL DEF Spec

-----------------------------------------------------------------------------
\* Every variable of the three threads keeps its type: in particular the
\* renderer always has a window to draw to, its own if need be.
THEOREM TypeCorrect == Spec => []TypeOK
<1>1. IInv => TypeOK
  BY DEF IInv
<1> QED
  BY Invariance, <1>1, PTL

\* munmap(oldState) in rendererThread never takes memory from under a
\* thread that still uses it.
THEOREM UnmapIsSafe == Spec => []NoUseAfterUnmap
<1>1. IInv => NoUseAfterUnmap
  BY ConstantsAssumption
     DEF IInv, TypeOK, MappingInv, ProxyInv, ListenTarget, NoUseAfterUnmap
<1> QED
  BY Invariance, <1>1, PTL

\* No sequence of connections and disconnections leaks a mapping.
THEOREM MappingsAreOwned == Spec => []NoMappingLeak
<1>1. IInv => NoMappingLeak
  BY DEF IInv, MappingInv, NoMappingLeak
<1> QED
  BY Invariance, <1>1, PTL

\* Provided EGL does not refuse to destroy a surface, rendererSetWindow
\* returns only when no surface is left on any older window.
THEOREM SurfaceIsDestroyed ==
    Spec => []("release" \notin Faults => OldSurfaceDestroyed)
<1>1. IInv => ("release" \notin Faults => OldSurfaceDestroyed)
  BY DEF IInv, HandshakeInv, SurfaceInv, OldSurfaceDestroyed
<1> QED
  BY Invariance, <1>1, PTL

\* The buffer being drawn is alive, whatever the GUI thread removes meanwhile.
THEOREM BuffersAreSafe == Spec => []DrawnBufferAlive
<1>1. IInv => DrawnBufferAlive
  BY DEF IInv, BufferInv
<1> QED
  BY Invariance, <1>1, PTL

\* No buffer is in two of the three lists, under any order of additions,
\* removals, disconnections and turns of the renderer thread.
THEOREM NoBufferIsLinkedTwice == Spec => []ListsDisjoint
<1>1. IInv => ListsDisjoint
  BY DEF IInv, BufferInv
<1> QED
  BY Invariance, <1>1, PTL

\* LorieBuffer objects attached to GL are freed by no other thread than the
\* renderer's, and never while one is being drawn.
THEOREM FreeingIsSafe == Spec => FreedOnGLThread
<1>1. ASSUME IInv, [Next]_vars PROVE [FreedByRenderer]_vars
  <2> SUFFICES ASSUME Next PROVE FreedByRenderer
    BY <1>1
  <2> SUFFICES ASSUME NEW b \in buffers \cup removedBuffers,
                      b \notin buffers' \cup removedBuffers'
               PROVE  rnd = "release" /\ drawing = NULL
    BY DEF FreedByRenderer
  <2>1. CASE GuiNext
    BY <2>1 DEF GuiNext, GuiHandshake, Connect, SharedServerState,
       SharedServerStateLost, Disconnect,
       BeginSetWindow, GuiMustWait, GuiWait, GuiRelock, GuiReturn,
       GuiSpuriousWake, RemoveAllBuffers, AddBuffer, RemoveBuffer, Repaint,
       RemoveFromList, LeaveToRenderer, bufferVars
  <2>2. CASE RendererNext
    <3>1. ReleaseRemoved
      BY <2>2 DEF RendererNext, RendererStep, RendererStart, ShouldWait,
         HasWork, RendererWait, RendererLock, RendererSpuriousWake, ApplyState,
         ListenOtherCondVar, NotRelocked, UnmapOldState, RefreshContext,
         SameWindow, AttachBuffers, FindBuffer, NothingToDraw, Redraw, Goto,
         bufferVars
    <3> QED
      BY <1>1, <3>1 DEF ReleaseRemoved, IInv, BufferInv
  <2>3. CASE ProxyNext
    BY <2>3 DEF ProxyNext, ProxyStart, ProxySignalled, ProxyForward, bufferVars
  <2> QED
    BY <2>1, <2>2, <2>3 DEF Next
<1> QED
  BY Invariance, <1>1, PTL DEF Spec, FreedOnGLThread

-----------------------------------------------------------------------------
(* The flag surfaceAvailable.  A newly adopted state is told of a surface  *)
(* when the window is not the renderer's own: then the surface may not be  *)
(* the renderer's own either.  A surface on a window of the activity is    *)
(* live, because only the current one is ever destroyed.                   *)
FlagInv ==
    /\ FlagFollowsSurface
    /\ win # defaultWin => sfc # defaultWin
    /\ sfc \in Windows => sfc \in surfaces

LEMMA NextKeepsFlag ==
    ASSUME IInv, FlagInv, [Next]_vars PROVE FlagInv'
<1> USE DEF FlagInv, FlagFollowsSurface
<1>1. CASE ApplyState
  <2>1. /\ UNCHANGED <<win, sfc, surfaces>>
        /\ \/ UNCHANGED <<state, surfaceAvailable>>
           \/ state' = NULL
           \/ /\ state' \in Mappings
              /\ surfaceAvailable' =
                    [surfaceAvailable EXCEPT ![state'] = HasSurface]
    BY <1>1 DEF ApplyState, IInv, TypeOK
  <2> QED
    BY <2>1 DEF HasSurface, IInv, TypeOK
<1>2. CASE RefreshContext
  <2>1. PICK valid \in Outcomes("invalid"), released \in Outcomes("release"),
             created \in Outcomes("create"), current \in Outcomes("current") :
         LET live == IF Destroys(released) THEN surfaces \ {sfc} ELSE surfaces
             new  == IF pendingWin # NULL /\ ~valid THEN defaultWin
                                                    ELSE pendingWin
             ok   == created /\ new \in Windows \ live
         IN /\ win' = WindowOrDefault(new)
            /\ sfc' = CASE ok         -> new
                        [] new = NULL -> IF Destroys(released) THEN defaultWin
                                                               ELSE sfc
                        [] OTHER      -> NULL
            /\ surfaces' = IF ok THEN live \cup {new} ELSE live
            /\ surfaceAvailable' =
                  IF state = NULL \/ (new # NULL /\ ~ok) THEN surfaceAvailable
                  ELSE [surfaceAvailable EXCEPT ![state] = ok /\ current]
    BY <1>2 DEF RefreshContext
  <2> DEFINE live == IF Destroys(released) THEN surfaces \ {sfc} ELSE surfaces
             new  == IF pendingWin # NULL /\ ~valid THEN defaultWin
                                                    ELSE pendingWin
             ok   == created /\ new \in Windows \ live
  <2>2. state' = state
    BY <1>2 DEF RefreshContext
  <2>3. created \in BOOLEAN /\ current \in BOOLEAN
    BY DEF Outcomes
  <2>4. CASE ok
    <3>1. new \in Windows /\ new # NULL
      BY <2>4, ConstantsAssumption
    <3>2. sfc' = new
      BY <2>1, <2>4, <3>1
    <3>3. surfaces' = live \cup {new}
      BY <2>1, <2>4
    <3> QED
      BY <3>1, <3>2, <3>3, ConstantsAssumption
  <2>5. CASE ~ok /\ new # NULL
    <3>1. sfc' = NULL
      BY <2>1, <2>5
    <3> QED
      BY <3>1, ConstantsAssumption
  <2>6. CASE ~ok /\ new = NULL
    <3>1. win' = defaultWin /\ surfaces' = live
      BY <2>1, <2>6 DEF WindowOrDefault
    <3>2. sfc' = IF Destroys(released) THEN defaultWin ELSE sfc
      BY <2>1, <2>6
    <3>3. state # NULL => surfaceAvailable'[state] = FALSE
      <4>1. state # NULL => surfaceAvailable' =
                              [surfaceAvailable EXCEPT ![state] = ok /\ current]
        BY <2>1, <2>6
      <4>2. state # NULL => state \in Mappings
        BY DEF IInv, TypeOK
      <4> QED
        BY <2>3, <2>6, <4>1, <4>2 DEF IInv, TypeOK
    <3>4. sfc' \in Windows => sfc' \in surfaces'
      BY <3>1, <3>2, ConstantsAssumption DEF Destroys
    <3> QED
      BY <2>2, <3>1, <3>3, <3>4
  <2> QED
    BY <2>4, <2>5, <2>6
<1>3. CASE ~ApplyState /\ ~RefreshContext
  <2>1. UNCHANGED <<state, win, sfc, surfaces, surfaceAvailable>>
    <3>1. CASE GuiNext
      BY <3>1 DEF GuiNext, GuiHandshake, Connect, SharedServerState,
         SharedServerStateLost, Disconnect, BeginSetWindow, GuiMustWait,
         GuiWait, GuiRelock, GuiReturn, GuiSpuriousWake, RemoveAllBuffers,
         AddBuffer, RemoveBuffer, Repaint, renderVars, worldVars
    <3>2. CASE RendererNext
      BY <1>3, <3>2 DEF RendererNext, RendererStep, RendererStart, ShouldWait,
         HasWork, RendererWait, RendererLock, RendererSpuriousWake,
         ListenOtherCondVar, NotRelocked, UnmapOldState, SameWindow,
         AttachBuffers, FindBuffer, NothingToDraw, Redraw, ReleaseRemoved,
         Goto, renderVars, worldVars
    <3>3. CASE ProxyNext \/ UNCHANGED vars
      BY <3>3 DEF ProxyNext, ProxyStart, ProxySignalled, ProxyForward, vars,
         renderVars, worldVars
    <3> QED
      BY <3>1, <3>2, <3>3 DEF Next
  <2> QED
    BY <2>1
<1> QED
  BY <1>1, <1>2, <1>3

LEMMA StartedIInv == StartedInit => IInv
<1> SUFFICES ASSUME StartedInit PROVE IInv
  OBVIOUS
<1> USE ConstantsAssumption DEF StartedInit
<1>1. TypeOK
  BY DEF TypeOK, RendererPC, GuiPC, ProxyPC
<1>2. HandshakeInv /\ MappingInv
  BY DEF HandshakeInv, MappingInv
<1>3. ProxyInv /\ SurfaceInv /\ BufferInv
  BY DEF ProxyInv, ListenTarget, SurfaceInv, BufferInv, DrawnBufferAlive,
         ListsDisjoint
<1> QED
  BY <1>1, <1>2, <1>3 DEF IInv

\* Whatever EGL refuses, the X server sees surfaceAvailable up in the state in
\* use only with a live surface on a window, or after eglCreateWindowSurface
\* has failed; from the start of the threads as well as from their first wait.
THEOREM FlagFollowsTheSurface == Spec \/ StartedSpec => []FlagFollowsSurface
<1>1. Init \/ StartedInit => IInv /\ FlagInv
  BY InitIInv, StartedIInv, ConstantsAssumption
     DEF Init, StartedInit, FlagInv, FlagFollowsSurface
<1>2. IInv /\ FlagInv /\ [Next]_vars => (IInv /\ FlagInv)'
  BY NextKeepsIInv, NextKeepsFlag
<1>3. IInv /\ FlagInv => FlagFollowsSurface
  BY DEF FlagInv
<1> QED
  BY <1>1, <1>2, <1>3, PTL DEF Spec, StartedSpec
=============================================================================
