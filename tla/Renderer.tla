------------------------------ MODULE Renderer ------------------------------
(***************************************************************************)
(* The Android activity's side of the display: lorie/renderer.c and its    *)
(* callers in lorie/activity.c.  Three threads of one process share it:    *)
(*                                                                         *)
(*  - the GUI thread, which runs the Android surface callbacks and the     *)
(*    looper callback of the connection to the X server (xcallback);       *)
(*  - the renderer thread (rendererThread), the only one with a GL context;*)
(*  - the proxy thread (pthreadCondVarProxyThread), which waits for the X  *)
(*    server's process-shared condition variable and forwards its signals  *)
(*    to stateCond.                                                        *)
(*                                                                         *)
(* GUI and renderer meet under stateLock.  A change of the shared state or *)
(* of the window is a handshake: the GUI thread raises a flag and waits on *)
(* stateChangeFinishCond until the renderer has lowered it.  Buffer lists  *)
(* are guarded by a spin lock that is never held across a blocking call,   *)
(* so each of its critical sections is one step here.                      *)
(*                                                                         *)
(* What the X server writes into the shared state (drawRequested, the      *)
(* cursor flags, waitForNextFrame, rootWindowTextureID) may change at any  *)
(* moment; a read of it is a nondeterministic choice.  Module              *)
(* FramePipeline follows those flags.                                      *)
(***************************************************************************)
EXTENDS Naturals

CONSTANTS
    Mappings,     \* addresses mmap() can return for the shared server state
    Windows,      \* ANativeWindows Android hands to the GUI thread
    Bufs,         \* LorieBuffer objects of this process
    Ids,          \* buffer ids, chosen by the X server
    IdOf,         \* IdOf[b]: the id in the description of object b
    defaultWin,   \* the renderer's own window, and the surface made on it
    proxyDef,     \* &proxy.def, a condition variable nobody signals
    NULL,
    Faults        \* which of the environment's failures a behaviour may have

FaultKinds ==
    {"mmap",      \* the shared state cannot be received or mapped
     "invalid",   \* Android hands over a window without a size
     "release",   \* EGL refuses to unbind or destroy the old surface
     "create",    \* eglCreateWindowSurface fails
     "current"}   \* eglMakeCurrent on the new surface fails

ASSUME ConstantsAssumption ==
    /\ IdOf \in [Bufs -> Ids]
    /\ NULL \notin Mappings \cup Windows \cup Bufs
    /\ defaultWin \notin Windows /\ defaultWin # NULL
    /\ proxyDef \notin Mappings /\ proxyDef # NULL
    /\ Faults \subseteq FaultKinds

VARIABLES
    \* --- shared by the GUI and the renderer thread
    stateLock,        \* "none", "gui" or "renderer": the holder of the mutex
    stateChanged, pendingState,
    windowChanged, pendingWin,
    \* --- the renderer thread
    rnd,              \* where the thread is
    state,            \* the mapping in use, or NULL
    oldState,         \* the mapping being replaced, not yet unmapped
    win, sfc,         \* current window and the window its EGLSurface is on
    drawing,          \* the buffer rendererRedrawLocked works with
    \* --- the GUI thread
    gui, guiOp,       \* where the thread is, and the handshake it is in
    link,             \* the connection: "closed", "open" or "announced"
    relink,           \* what link becomes once the disconnect is complete
    guiWin,           \* the window of the last surface callback
    \* --- the proxy thread
    prx, proxyCurrent, proxyPending, relocked,
    \* --- buffer lists, under bufferLock
    addedBuffers, buffers, removedBuffers,
    \* --- the world outside
    mapped,           \* mappings of shared memory that exist
    surfaces,         \* windows that carry a live EGLSurface
    surfaceAvailable  \* that field of each shared state

handshakeVars == <<stateChanged, pendingState, windowChanged, pendingWin>>
renderVars    == <<state, oldState, win, sfc, drawing>>
guiVars       == <<gui, guiOp, link, relink, guiWin>>
proxyVars     == <<prx, proxyCurrent, proxyPending, relocked>>
bufferVars    == <<addedBuffers, buffers, removedBuffers>>
worldVars     == <<mapped, surfaces, surfaceAvailable>>
vars == <<stateLock, rnd, handshakeVars, renderVars, guiVars, proxyVars,
          bufferVars, worldVars>>

RendererPC == {"init", "check", "block", "idle", "wake", "state", "listen",
               "relock", "rewake", "window", "attach", "draw", "redraw",
               "release", "lock"}
GuiPC   == {"idle", "check", "block", "wait", "wake", "removeAll"}
ProxyPC == {"start", "wait", "wake"}

-----------------------------------------------------------------------------
(* Condition variables: a signal moves the waiting thread, if there is one,*)
(* and is lost otherwise.                                                  *)

\* pthread_cond_signal(&stateCond): only the renderer thread waits on it, in
\* its main loop or inside pthreadCondVarProxyListenOtherCondVar.
SignalStateCond(pc) ==
    CASE pc = "idle"   -> "wake"
      [] pc = "relock" -> "rewake"
      [] OTHER         -> pc

\* mutant of SignalFinishCond: the renderer forgets to report.
NoFinishSignal(pc) == pc

\* pthread_cond_signal(&stateChangeFinishCond): only the GUI thread waits.
SignalFinishCond(pc) == IF pc = "wait" THEN "wake" ELSE pc

\* pthread_cond_broadcast(proxy.current)
BroadcastProxy(pc) == IF pc = "wait" THEN "wake" ELSE pc

\* mutants of ListenTarget: no state leaves the proxy where it is; the
\* server's condition variable is ignored.
ListenTargetKept(s) == IF s = NULL THEN proxyCurrent ELSE s
ListenTargetLocal(s) == proxyDef

\* The condition variable the proxy must listen to while state is s.
ListenTarget(s) == IF s = NULL THEN proxyDef ELSE s

\* Both outcomes of a call that may fail, or only success.
Outcomes(kind) == IF kind \in Faults THEN BOOLEAN ELSE {TRUE}

-----------------------------------------------------------------------------
(* The program starts in rendererInit: both threads have been created, and *)
(* rendererInitThread is still setting up EGL.                             *)
Init ==
    /\ stateLock = "none" /\ rnd = "init"
    /\ stateChanged = FALSE /\ pendingState = NULL
    /\ windowChanged = FALSE /\ pendingWin = NULL
    /\ state = NULL /\ oldState = NULL /\ drawing = NULL
    /\ win = defaultWin /\ sfc = defaultWin
    /\ gui = "idle" /\ guiOp = "none" /\ link = "closed" /\ relink = "none"
    /\ guiWin = NULL
    /\ prx = "start" /\ proxyCurrent = proxyDef /\ proxyPending = NULL
    /\ relocked = FALSE
    /\ addedBuffers = {} /\ buffers = {} /\ removedBuffers = {}
    /\ mapped = {} /\ surfaces = {}
    /\ surfaceAvailable = [m \in Mappings |-> FALSE]

-----------------------------------------------------------------------------
(* The GUI thread.                                                         *)

\* The first half of rendererSetSharedState: publish and signal.
BeginSetSharedState(s) ==
    /\ gui = "idle" /\ stateLock = "none"
    /\ stateLock' = "gui"
    /\ pendingState' = s /\ stateChanged' = TRUE
    /\ rnd' = SignalStateCond(rnd)
    /\ gui' = "check" /\ guiOp' = "state"
    /\ UNCHANGED <<windowChanged, pendingWin>>

\* connect_(fd) with no connection: the looper starts to watch the socket.
Connect ==
    /\ gui = "idle" /\ link = "closed"
    /\ link' = "open"
    /\ UNCHANGED <<stateLock, rnd, gui, guiOp, relink, guiWin, handshakeVars,
                   renderVars, proxyVars, bufferVars, worldVars>>

\* EVENT_SHARED_SERVER_STATE, the first message of a connection: map it.
SharedServerState ==
    /\ link = "open" /\ link' = "announced"
    /\ \/ \E m \in Mappings \ mapped :
             /\ BeginSetSharedState(m)
             /\ mapped' = mapped \cup {m}
       \/ /\ "mmap" \in Faults
          /\ BeginSetSharedState(NULL)
          /\ mapped' = mapped
    /\ UNCHANGED <<relink, guiWin, renderVars, proxyVars, bufferVars,
                   surfaces, surfaceAvailable>>

\* The same message without a usable descriptor is dropped.
SharedServerStateLost ==
    /\ gui = "idle" /\ link = "open" /\ "mmap" \in Faults
    /\ link' = "announced"
    /\ UNCHANGED <<stateLock, rnd, gui, guiOp, relink, guiWin, handshakeVars,
                   renderVars, proxyVars, bufferVars, worldVars>>

\* The socket hung up (xcallback), or the Java side replaces it or drops it
\* because the X server's binder died (connect_): forget the state, then
\* the buffers.
Disconnect ==
    /\ link # "closed"
    /\ relink' \in {"closed", "open"}
    /\ BeginSetSharedState(NULL)
    /\ UNCHANGED <<link, guiWin, renderVars, proxyVars, bufferVars, worldVars>>

\* The first half of rendererSetWindow; w = NULL is surfaceDestroyed.
BeginSetWindow(w) ==
    /\ gui = "idle" /\ stateLock = "none"
    /\ guiWin' = w
    /\ IF w # NULL /\ pendingWin = w
       THEN UNCHANGED <<stateLock, rnd, handshakeVars, gui, guiOp>>
       ELSE /\ stateLock' = "gui"
            /\ pendingWin' = w /\ windowChanged' = TRUE
            /\ rnd' = SignalStateCond(rnd)
            /\ gui' = "check" /\ guiOp' = "window"
            /\ UNCHANGED <<stateChanged, pendingState>>
    /\ UNCHANGED <<link, relink, renderVars, proxyVars, bufferVars, worldVars>>

\* mutant of Unfinished: rendererSetWindow returns without waiting.
UnfinishedStateOnly == guiOp = "state" /\ stateChanged

\* The loop condition of both handshakes.
Unfinished == IF guiOp = "state" THEN stateChanged ELSE windowChanged

GuiMustWait ==
    /\ gui = "check" /\ Unfinished
    /\ gui' = "block"
    /\ UNCHANGED <<stateLock, rnd, guiOp, link, relink, guiWin, handshakeVars,
                   renderVars, proxyVars, bufferVars, worldVars>>

\* pthread_cond_wait(&stateChangeFinishCond, &stateLock): the mutex is
\* released and the thread sleeps.
GuiWait ==
    /\ gui = "block"
    /\ gui' = "wait" /\ stateLock' = "none"
    /\ UNCHANGED <<rnd, guiOp, link, relink, guiWin, handshakeVars,
                   renderVars, proxyVars, bufferVars, worldVars>>

GuiSpuriousWake ==
    /\ gui = "wait"
    /\ gui' = "wake"
    /\ UNCHANGED <<stateLock, rnd, guiOp, link, relink, guiWin, handshakeVars,
                   renderVars, proxyVars, bufferVars, worldVars>>

GuiRelock ==
    /\ gui = "wake" /\ stateLock = "none"
    /\ gui' = "check" /\ stateLock' = "gui"
    /\ UNCHANGED <<rnd, guiOp, link, relink, guiWin, handshakeVars,
                   renderVars, proxyVars, bufferVars, worldVars>>

\* The handshake is complete; a disconnect goes on to drop the buffers.
GuiReturn ==
    /\ gui = "check" /\ ~Unfinished
    /\ gui' = IF relink = "none" THEN "idle" ELSE "removeAll"
    /\ guiOp' = "none"
    /\ stateLock' = "none"
    /\ UNCHANGED <<rnd, link, relink, guiWin, handshakeVars,
                   renderVars, proxyVars, bufferVars, worldVars>>

\* mutant of RemoveFromList: the link is not deleted.
KeepInList(list, bs) == list

\* LorieBuffer_removeFromList
RemoveFromList(list, bs) == list \ bs

\* mutant of LeaveToRenderer: the GUI thread frees the object itself.
FreeAtOnce(bs) == removedBuffers

\* Buffers attached to GL are queued for release on the renderer thread.
LeaveToRenderer(bs) == removedBuffers \cup bs

\* rendererRemoveAllBuffers, the end of a disconnect.
RemoveAllBuffers ==
    /\ gui = "removeAll"
    /\ addedBuffers' = {}
    /\ buffers' = RemoveFromList(buffers, buffers)
    /\ removedBuffers' = LeaveToRenderer(buffers)
    /\ gui' = "idle" /\ link' = relink /\ relink' = "none"
    /\ UNCHANGED <<stateLock, rnd, guiOp, guiWin, handshakeVars,
                   renderVars, proxyVars, worldVars>>

\* EVENT_ADD_BUFFER: a new object is received and handed to the renderer.
\* The signal is sent without stateLock.
AddBuffer(b) ==
    /\ gui = "idle" /\ link = "announced"
    /\ b \notin addedBuffers \cup buffers \cup removedBuffers
    /\ addedBuffers' = addedBuffers \cup {b}
    /\ rnd' = SignalStateCond(rnd)
    /\ UNCHANGED <<stateLock, buffers, removedBuffers, handshakeVars,
                   renderVars, guiVars, proxyVars, worldVars>>

FindById(list, id) == {b \in list : IdOf[b] = id}

\* EVENT_REMOVE_BUFFER: an object GL does not know is freed here, another
\* one is left to the renderer thread.  Nobody is signalled.
RemoveBuffer(id) ==
    /\ gui = "idle" /\ link = "announced"
    /\ \/ \E b \in FindById(addedBuffers, id) :
             /\ addedBuffers' = addedBuffers \ {b}
             /\ UNCHANGED <<buffers, removedBuffers>>
       \/ /\ FindById(addedBuffers, id) = {}
          /\ \E b \in FindById(buffers, id) :
                /\ buffers' = RemoveFromList(buffers, {b})
                /\ removedBuffers' = LeaveToRenderer({b})
          /\ UNCHANGED addedBuffers
    /\ UNCHANGED <<stateLock, rnd, handshakeVars, renderVars, guiVars,
                   proxyVars, worldVars>>

\* rendererSetViewport and rendererSetZoom: under stateLock, ask for a frame
\* and signal.
Repaint ==
    /\ gui = "idle" /\ stateLock = "none"
    /\ rnd' = SignalStateCond(rnd)
    /\ rnd' # rnd
    /\ UNCHANGED <<stateLock, handshakeVars, renderVars, guiVars, proxyVars,
                   bufferVars, worldVars>>

-----------------------------------------------------------------------------
(* The renderer thread.                                                    *)

Goto(pc) ==
    /\ rnd' = pc
    /\ UNCHANGED <<stateLock, handshakeVars, guiVars, renderVars, proxyVars,
                   bufferVars, worldVars>>

\* EGL is set up and rendererThread begins: without taking stateLock.
RendererStart == rnd = "init" /\ Goto("check")

PendingChange ==
    stateChanged \/ windowChanged \/ addedBuffers # {} \/ removedBuffers # {}

\* The X server can make rendererShouldWait return false only through a
\* state whose surface is available.
ServerMayAsk == state # NULL /\ surfaceAvailable[state]

\* rendererShouldWait returned true ...
ShouldWait == rnd = "check" /\ ~PendingChange /\ Goto("block")

\* ... or false.
HasWork ==
    /\ rnd = "check" /\ (PendingChange \/ ServerMayAsk)
    /\ Goto("state")

\* pthread_cond_wait(&stateCond, &stateLock)
RendererWait ==
    /\ rnd = "block"
    /\ rnd' = "idle" /\ stateLock' = "none"
    /\ UNCHANGED <<handshakeVars, guiVars, renderVars, proxyVars, bufferVars,
                   worldVars>>

RendererSpuriousWake ==
    /\ rnd \in {"idle", "relock"}
    /\ Goto(SignalStateCond(rnd))

RendererLock ==
    /\ rnd \in {"wake", "lock"} /\ stateLock = "none"
    /\ rnd' = "check" /\ stateLock' = "renderer"
    /\ UNCHANGED <<handshakeVars, guiVars, renderVars, proxyVars, bufferVars,
                   worldVars>>

\* mutant of Replaced: a state replaced by none is forgotten.
ReplacedByAnother == IF pendingState \notin {state, NULL} THEN state ELSE NULL

\* oldState: what has to be unmapped after the switch.
Replaced == IF pendingState # state THEN state ELSE NULL

\* mutant of HasSurface: the new state is told of a surface in any case.
AssumeSurface == TRUE

\* What a newly adopted state learns about the window.
HasSurface == win # defaultWin

\* Adopt the pending state; the old mapping is kept until the proxy let go.
ApplyState ==
    /\ rnd = "state"
    /\ IF stateChanged
       THEN /\ oldState' = Replaced
            /\ state' = pendingState
            /\ pendingState' = NULL /\ stateChanged' = FALSE
            /\ surfaceAvailable' =
                  IF pendingState = NULL THEN surfaceAvailable
                  ELSE [surfaceAvailable EXCEPT
                           ![pendingState] = HasSurface]
            /\ rnd' = "listen"
       ELSE /\ rnd' = "window"
            /\ UNCHANGED <<oldState, state, pendingState, stateChanged,
                           surfaceAvailable>>
    /\ UNCHANGED <<stateLock, windowChanged, pendingWin, win, sfc, drawing,
                   guiVars, proxyVars, bufferVars, mapped, surfaces>>

\* pthreadCondVarProxyListenOtherCondVar up to its wait; stateLock is kept.
ListenOtherCondVar ==
    /\ rnd = "listen"
    /\ prx' = BroadcastProxy(prx)
    /\ proxyPending' = ListenTarget(state)
    /\ relocked' = FALSE
    /\ rnd' = "relock"
    /\ UNCHANGED <<stateLock, proxyCurrent, handshakeVars, guiVars, renderVars,
                   bufferVars, worldVars>>

NotRelocked == rnd = "rewake" /\ ~relocked /\ Goto("relock")

\* The proxy listens elsewhere: unmap the old state.
UnmapOldState ==
    /\ rnd = "rewake" /\ relocked
    /\ mapped' = mapped \ {oldState}
    /\ oldState' = NULL
    /\ rnd' = "window"
    /\ UNCHANGED <<stateLock, handshakeVars, guiVars, state, win, sfc, drawing,
                   proxyVars, bufferVars, surfaces, surfaceAvailable>>

\* mutant of WindowOrDefault: the fallback is missing.
WindowAsGiven(w) == w

\* Without a window the renderer goes back to its own.
WindowOrDefault(w) == IF w = NULL THEN defaultWin ELSE w

\* EGL destroys the old surface, unless it refuses.
Destroys(released) == sfc \in Windows /\ released

\* rendererRefreshContext with releaseWinAndSurface.  EGL allows one surface
\* per window, so none can be made on defaultWin.
RefreshContext ==
    /\ rnd = "window" /\ windowChanged
    /\ \E valid \in Outcomes("invalid"), released \in Outcomes("release"),
          created \in Outcomes("create"), current \in Outcomes("current") :
       LET live == IF Destroys(released) THEN surfaces \ {sfc} ELSE surfaces
           new  == IF pendingWin # NULL /\ ~valid THEN defaultWin
                                                  ELSE pendingWin
           ok   == created /\ new \in Windows \ live
       IN /\ win' = WindowOrDefault(new)
          /\ sfc' = CASE ok         -> new
                      [] new = NULL -> IF Destroys(released) THEN defaultWin
                                                             ELSE sfc
                      [] OTHER      -> NULL
          /\ surfaces' = IF ok THEN live \cup {new} ELSE live
          /\ surfaceAvailable' =
                IF state = NULL \/ (new # NULL /\ ~ok) THEN surfaceAvailable
                ELSE [surfaceAvailable EXCEPT ![state] = ok /\ current]
    /\ pendingWin' = NULL /\ windowChanged' = FALSE
    /\ rnd' = "attach"
    /\ UNCHANGED <<stateLock, stateChanged, pendingState, state, oldState,
                   drawing, guiVars, proxyVars, bufferVars, mapped>>

SameWindow == rnd = "window" /\ ~windowChanged /\ Goto("attach")

\* Attach the new buffers, report that all changes are applied, unlock.
AttachBuffers ==
    /\ rnd = "attach"
    /\ buffers' = buffers \cup addedBuffers
    /\ addedBuffers' = {}
    /\ gui' = SignalFinishCond(gui)
    /\ stateLock' = "none"
    /\ rnd' = "draw"
    /\ UNCHANGED <<removedBuffers, handshakeVars, guiOp, link, relink, guiWin,
                   renderVars, proxyVars, worldVars>>

\* rendererRedrawLocked finds its buffer; a removed one may be shown a last
\* time.
FindBuffer(id) ==
    /\ rnd = "draw" /\ ServerMayAsk
    /\ LET found == IF FindById(buffers, id) # {} THEN FindById(buffers, id)
                    ELSE FindById(removedBuffers, id)
       IN \/ \E b \in found : drawing' = b /\ rnd' = "redraw"
          \/ found = {} /\ drawing' = NULL /\ rnd' = "release"
    /\ UNCHANGED <<stateLock, handshakeVars, state, oldState, win, sfc,
                   guiVars, proxyVars, bufferVars, worldVars>>

NothingToDraw == rnd = "draw" /\ Goto("release")

\* The rest of rendererRedrawLocked: it reads the buffer and the shared
\* state until it returns.
Redraw ==
    /\ rnd = "redraw"
    /\ drawing' = NULL
    /\ rnd' = "release"
    /\ UNCHANGED <<stateLock, handshakeVars, state, oldState, win, sfc,
                   guiVars, proxyVars, bufferVars, worldVars>>

\* Free what was removed, on the thread that owns the GL context.
ReleaseRemoved ==
    /\ rnd = "release"
    /\ removedBuffers' = {}
    /\ rnd' = "lock"
    /\ UNCHANGED <<stateLock, handshakeVars, renderVars, guiVars, proxyVars,
                   addedBuffers, buffers, worldVars>>

-----------------------------------------------------------------------------
(* The proxy thread.                                                       *)

ProxyStart ==
    /\ prx = "start"
    /\ prx' = "wait"
    /\ UNCHANGED <<stateLock, rnd, proxyCurrent, proxyPending, relocked,
                   handshakeVars, renderVars, guiVars, bufferVars, worldVars>>

\* The X server signals state->cond (lorieRedraw, lorieMoveCursor), or the
\* thread wakes spuriously.
ProxySignalled ==
    /\ prx = "wait"
    /\ prx' = "wake"
    /\ UNCHANGED <<stateLock, rnd, proxyCurrent, proxyPending, relocked,
                   handshakeVars, renderVars, guiVars, bufferVars, worldVars>>

\* One turn of its loop, with proxy.lock held throughout.
ProxyForward ==
    /\ prx = "wake"
    /\ proxyCurrent' = IF proxyPending # NULL THEN proxyPending
                                              ELSE proxyCurrent
    /\ proxyPending' = NULL
    /\ relocked' = TRUE
    /\ rnd' = SignalStateCond(rnd)
    /\ prx' = "wait"
    /\ UNCHANGED <<stateLock, handshakeVars, renderVars, guiVars, bufferVars,
                   worldVars>>

-----------------------------------------------------------------------------
GuiHandshake ==
    \/ GuiMustWait \/ GuiWait \/ GuiRelock \/ GuiReturn \/ RemoveAllBuffers

GuiNext ==
    \/ Connect \/ SharedServerState \/ SharedServerStateLost \/ Disconnect
    \/ \E w \in Windows \cup {NULL} : BeginSetWindow(w)
    \/ GuiHandshake \/ GuiSpuriousWake
    \/ \E b \in Bufs : AddBuffer(b)
    \/ \E id \in Ids : RemoveBuffer(id)
    \/ Repaint

\* The steps the renderer thread takes without anybody's help.
RendererStep ==
    \/ RendererStart \/ ShouldWait \/ HasWork \/ RendererWait \/ RendererLock
    \/ ApplyState \/ ListenOtherCondVar \/ NotRelocked \/ UnmapOldState
    \/ RefreshContext \/ SameWindow \/ AttachBuffers
    \/ \E id \in Ids : FindBuffer(id)
    \/ NothingToDraw \/ Redraw \/ ReleaseRemoved

RendererNext == RendererStep \/ RendererSpuriousWake

ProxyNext == ProxyStart \/ ProxySignalled \/ ProxyForward

Next == GuiNext \/ RendererNext \/ ProxyNext

Spec == Init /\ [][Next]_vars

-----------------------------------------------------------------------------
(* Once both threads have reached their first wait.  The liveness results  *)
(* are about this point on: if the first connection comes earlier, the     *)
(* broadcast that the proxy should hear is lost.                           *)
StartedInit ==
    /\ stateLock = "none" /\ rnd = "idle" /\ prx = "wait"
    /\ stateChanged = FALSE /\ pendingState = NULL
    /\ windowChanged = FALSE /\ pendingWin = NULL
    /\ state = NULL /\ oldState = NULL /\ drawing = NULL
    /\ win = defaultWin /\ sfc = defaultWin
    /\ gui = "idle" /\ guiOp = "none" /\ link = "closed" /\ relink = "none"
    /\ guiWin = NULL
    /\ proxyCurrent = proxyDef /\ proxyPending = NULL /\ relocked = FALSE
    /\ addedBuffers = {} /\ buffers = {} /\ removedBuffers = {}
    /\ mapped = {} /\ surfaces = {}
    /\ surfaceAvailable = [m \in Mappings |-> FALSE]

(* Threads that can run do run.  Each side gives the mutex up again and    *)
(* again (the renderer while it draws, the GUI while it waits), so whoever *)
(* waits for it gets it: strong fairness of the two lock operations.       *)
Fairness ==
    /\ WF_vars(RendererStep) /\ SF_vars(RendererLock)
    /\ WF_vars(GuiHandshake) /\ SF_vars(GuiRelock)
    /\ WF_vars(ProxyForward)

StartedSpec == StartedInit /\ [][Next]_vars /\ Fairness

\* From rendererInit on, with the proxy thread scheduled as well.
StartingSpec == Spec /\ Fairness /\ WF_vars(ProxyStart)

-----------------------------------------------------------------------------
TypeOK ==
    /\ stateLock \in {"none", "gui", "renderer"}
    /\ stateChanged \in BOOLEAN /\ windowChanged \in BOOLEAN
    /\ pendingState \in Mappings \cup {NULL}
    /\ pendingWin \in Windows \cup {NULL}
    /\ rnd \in RendererPC
    /\ state \in Mappings \cup {NULL} /\ oldState \in Mappings \cup {NULL}
    /\ win \in Windows \cup {defaultWin}
    /\ sfc \in Windows \cup {defaultWin, NULL}
    /\ drawing \in Bufs \cup {NULL}
    /\ gui \in GuiPC /\ guiOp \in {"none", "state", "window"}
    /\ link \in {"closed", "open", "announced"}
    /\ relink \in {"none", "closed", "open"}
    /\ guiWin \in Windows \cup {NULL}
    /\ prx \in ProxyPC
    /\ proxyCurrent \in Mappings \cup {proxyDef}
    /\ proxyPending \in Mappings \cup {proxyDef, NULL}
    /\ relocked \in BOOLEAN
    /\ addedBuffers \in SUBSET Bufs /\ buffers \in SUBSET Bufs
    /\ removedBuffers \in SUBSET Bufs
    /\ mapped \in SUBSET Mappings /\ surfaces \in SUBSET Windows
    /\ surfaceAvailable \in [Mappings -> BOOLEAN]

\* munmap(oldState) pulls no memory from under anybody: neither the renderer
\* nor the GUI thread (which writes state->drawRequested) uses, and the proxy
\* thread never waits on a condition variable of, a state already unmapped.
NoUseAfterUnmap ==
    /\ state # NULL => state \in mapped
    /\ pendingState # NULL => pendingState \in mapped
    /\ proxyCurrent # proxyDef => proxyCurrent \in mapped
    /\ proxyPending \notin {NULL, proxyDef} => proxyPending \in mapped

\* Every mapping is still owned by a variable that will lead to its munmap:
\* reconnecting any number of times leaks none.
NoMappingLeak == mapped \subseteq {state, oldState, pendingState}

\* Once rendererSetWindow has returned, the only EGLSurface left is on the
\* window of that very call, so surfaceDestroyed never finishes while its
\* window is still drawn to.
OldSurfaceDestroyed == guiOp # "window" => surfaces \subseteq {guiWin}

\* "The buffer will not be released until this function ends, but main
\* thread can modify buffer list": the buffer rendererRedrawLocked works
\* with is in a list, hence not freed, whatever the GUI thread removes.
DrawnBufferAlive == drawing # NULL => drawing \in buffers \cup removedBuffers

\* A LorieBuffer is in at most one list; a second link would corrupt both.
ListsDisjoint ==
    /\ addedBuffers \cap (buffers \cup removedBuffers) = {}
    /\ buffers \cap removedBuffers = {}

\* An attached object disappears only in the renderer's own release step,
\* and never the one being drawn.
FreedByRenderer ==
    \A b \in buffers \cup removedBuffers :
       b \notin buffers' \cup removedBuffers' =>
          rnd = "release" /\ drawing = NULL

\* "After attaching subsequent call to LorieBuffer_release must be done only
\* from GL thread": whatever the GUI thread removes or the X server resends.
FreedOnGLThread == [][FreedByRenderer]_vars

\* "We should avoid triggering renderer if there is no output surface": the
\* flag the X server tests is up only while there is a surface to draw to.
\* False of the code when eglCreateWindowSurface fails.
SurfaceFlagTruthful ==
    state # NULL /\ surfaceAvailable[state] => sfc \in surfaces

\* What is left of it when any of the EGL calls may fail: whichever comes
\* first, the window or the connection, the flag is up only with a live
\* surface on a window of the activity, never with one that was destroyed or
\* the renderer's own, or else eglCreateWindowSurface gave EGL_NO_SURFACE.
FlagFollowsSurface ==
    state # NULL /\ surfaceAvailable[state] => sfc \in surfaces \cup {NULL}

\* rendererSetSharedState, rendererSetWindow and a disconnect never hang the
\* GUI thread: each returns.
HandshakeTerminates == gui # "idle" ~> gui = "idle"

\* "we are required to listen for both remote and local events": once a
\* shared state is in use, the proxy thread comes to wait on its condition
\* variable (or the state is gone again).
ListensToServer == state # NULL ~> (proxyCurrent = state \/ state = NULL)

=============================================================================
