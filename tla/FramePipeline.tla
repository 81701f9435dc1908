---------------------------- MODULE FramePipeline ----------------------------
(***************************************************************************)
(* How a change of the root window reaches the screen.  The X server draws *)
(* into the root window's buffer under the shared lock and records damage; *)
(* once per vertical blank lorieRedraw (lorie/InitOutput.c) turns damage   *)
(* into drawRequested, publishes the buffer's id and signals; the renderer *)
(* thread (lorie/renderer.c) decides to sleep or to draw, looks the buffer *)
(* up, copies it under the lock and lowers the flags.  The flags are plain *)
(* shared memory, read and written without a lock, and a signal sent while *)
(* the renderer is not yet asleep is lost.                                 *)
(*                                                                         *)
(* The connection is up throughout and the shared state does not change;   *)
(* module Renderer has those handshakes, and the proxy thread that carries *)
(* the X server's signals.                                                 *)
(***************************************************************************)
EXTENDS Naturals, Sequences

CONSTANTS
    Bufs,        \* buffers the X server can use for the root window
    Sizes,       \* screen sizes
    SizeOf,      \* SizeOf[b]: size of buffer b
    FirstRoot,   \* the root window's buffer at the start
    NULL,
    MaxVersion,  \* bound: changes of one buffer's content
    MaxCursor    \* bound: cursor movements and changes of its image

ASSUME FrameAssumption ==
    /\ SizeOf \in [Bufs -> Sizes]
    /\ FirstRoot \in Bufs
    /\ NULL \notin Bufs \cup Sizes
    /\ MaxVersion \in Nat /\ MaxCursor \in Nat

VARIABLES
    \* --- X server
    srv,        \* where its main thread is
    root,       \* buffer of the root window
    content,    \* content[b]: version of what b shows
    damage,     \* the damage region is not empty
    used,       \* buffers allocated so far
    cursor,     \* version of the cursor's position
    image,      \* version of the cursor's image
    \* --- shared server state
    lock, drawRequested, moved, updated, rootWindowTextureID,
    surfaceAvailable, waitForNextFrame,
    \* --- connection
    msgs,       \* ADD_BUFFER and REMOVE_BUFFER on their way to the activity
    wanted,     \* screen size on its way to the X server, or NULL
    pendingWin, \* surface callback the GUI thread is in: "up" or "down"
    \* --- activity
    rnd,        \* where the renderer thread is
    addedBuffers, buffers, removedBuffers,
    expected,   \* expectedW x expectedH, NULL for 0 x 0
    waitingForBuffers, lastRequestedBufferId,
    drawing,    \* buffer looked up by rendererRedrawLocked
    copied,     \* version copied from it
    texture,    \* version of the cursor image in GL
    shown       \* what is on the screen: buffer, version, cursor, image

cursorVars   == <<cursor, image>>
serverVars   == <<srv, root, content, damage, used, cursorVars>>
flagVars     == <<drawRequested, moved, updated, rootWindowTextureID,
                  surfaceAvailable, waitForNextFrame>>
linkVars     == <<msgs, wanted>>
listVars     == <<addedBuffers, buffers, removedBuffers>>
guiVars      == <<pendingWin, expected>>
waitVars     == <<waitingForBuffers, lastRequestedBufferId>>
frameVars    == <<drawing, copied, texture, shown>>
vars == <<serverVars, lock, flagVars, linkVars, listVars, guiVars, rnd,
          waitVars, frameVars>>

Blank == [buf |-> NULL, version |-> 0, cursor |-> 0, image |-> 0]

\* lorieActivityConnected: a frame is requested and the root window's buffer
\* is announced; the viewport is set, and no vertical blank has passed.
Init ==
    /\ srv = "run" /\ root = FirstRoot /\ content = [b \in Bufs |-> 0]
    /\ damage = FALSE /\ used = {FirstRoot} /\ cursor = 0 /\ image = 0
    /\ lock = "none" /\ drawRequested = TRUE
    /\ moved = FALSE /\ updated = TRUE
    /\ rootWindowTextureID = NULL
    /\ surfaceAvailable = TRUE /\ waitForNextFrame = FALSE
    /\ msgs = << <<"add", FirstRoot>> >> /\ wanted = NULL
    /\ pendingWin = "none" /\ expected = SizeOf[FirstRoot]
    /\ rnd = "check"
    /\ addedBuffers = {} /\ buffers = {} /\ removedBuffers = {}
    /\ waitingForBuffers = FALSE /\ lastRequestedBufferId = NULL
    /\ drawing = NULL /\ copied = 0 /\ texture = 0 /\ shown = Blank

-----------------------------------------------------------------------------
\* A signal reaches the renderer thread only while it sleeps; through the
\* proxy thread if the X server sends it.
Signal(pc) == IF pc = "idle" THEN "check" ELSE pc

(* The X server's main thread.                                             *)

\* loriePrepareAccess: about to draw into the root window.
PrepareAccess ==
    /\ srv = "run" /\ lock = "none" /\ content[root] < MaxVersion
    /\ srv' = "access" /\ lock' = "server"
    /\ UNCHANGED <<root, content, damage, used, cursorVars, flagVars, linkVars,
                   listVars, guiVars, rnd, waitVars, frameVars>>

\* The damage extension records every drawing operation on the root window.
DamageAfterDraw == TRUE

\* lorieFinishAccess
FinishAccess ==
    /\ srv = "access"
    /\ srv' = "run" /\ lock' = "none"
    /\ content' = [content EXCEPT ![root] = @ + 1]
    /\ damage' = DamageAfterDraw
    /\ UNCHANGED <<root, used, cursorVars, flagVars, linkVars, listVars,
                   guiVars, rnd, waitVars, frameVars>>

\* mutant of ImageAnnounced: the new image is not announced.
ImageUnannounced == updated

ImageAnnounced == TRUE

\* lorieSetCursor: the image, under the cursor's own lock; then the position.
SetCursor ==
    /\ srv = "run" /\ cursor < MaxCursor
    /\ srv' = "placing" /\ image' = image + 1
    /\ updated' = ImageAnnounced
    /\ UNCHANGED <<root, content, damage, used, cursor, lock, drawRequested,
                   moved, rootWindowTextureID, surfaceAvailable,
                   waitForNextFrame, linkVars, listVars, guiVars, rnd,
                   waitVars, frameVars>>

\* lorieMoveCursor: store the position ...
MoveCursor ==
    /\ srv \in {"run", "placing"} /\ cursor < MaxCursor
    /\ srv' = "moving" /\ cursor' = cursor + 1
    /\ UNCHANGED <<root, content, damage, used, image, lock, flagVars,
                   linkVars, listVars, guiVars, rnd, waitVars, frameVars>>

\* ... then raise the flag and signal.
CursorMoved ==
    /\ srv = "moving"
    /\ srv' = "run" /\ moved' = TRUE
    /\ rnd' = Signal(rnd)
    /\ UNCHANGED <<root, content, damage, used, cursorVars, lock,
                   drawRequested, updated, rootWindowTextureID,
                   surfaceAvailable, waitForNextFrame, linkVars, listVars,
                   guiVars, waitVars, frameVars>>

\* lorieRedraw, queued by every frame callback: let the renderer draw again,
\* and go on if somebody can see it.
RedrawBegins ==
    /\ srv = "run"
    /\ waitForNextFrame' = FALSE
    /\ srv' = IF surfaceAvailable THEN "redraw" ELSE "run"
    /\ UNCHANGED <<root, content, damage, used, cursorVars, lock,
                   drawRequested, moved, updated, rootWindowTextureID,
                   surfaceAvailable, linkVars, listVars, guiVars, rnd,
                   waitVars, frameVars>>

\* mutant of RequestAfterDamage: the damage is emptied and nothing requested.
RequestKept == drawRequested

RequestAfterDamage == drawRequested \/ damage

\* Damage becomes a request.
RequestDraw ==
    /\ srv = "redraw"
    /\ srv' = "publish"
    /\ damage' = FALSE
    /\ drawRequested' = RequestAfterDamage
    /\ UNCHANGED <<root, content, used, cursorVars, lock, moved, updated,
                   rootWindowTextureID, surfaceAvailable, waitForNextFrame,
                   linkVars, listVars, guiVars, rnd, waitVars, frameVars>>

\* mutant of WorthSignalling: a request that is not new is not signalled.
WorthSignallingCursor == moved \/ updated

\* Requests the renderer has not met are signalled again.
WorthSignalling == drawRequested \/ moved \/ updated

\* The buffer's id is published and the renderer signalled.
Publish ==
    /\ srv = "publish"
    /\ srv' = "run"
    /\ IF WorthSignalling
       THEN rootWindowTextureID' = root /\ rnd' = Signal(rnd)
       ELSE UNCHANGED <<rootWindowTextureID, rnd>>
    /\ UNCHANGED <<root, content, damage, used, cursorVars, lock,
                   drawRequested, moved, updated, surfaceAvailable,
                   waitForNextFrame, linkVars, listVars, guiVars, waitVars,
                   frameVars>>

\* EVENT_SCREEN_SIZE asks for the size and the frame rate the screen has ...
KeepSize ==
    /\ srv = "run" /\ wanted = SizeOf[root]
    /\ wanted' = NULL
    /\ UNCHANGED <<serverVars, lock, flagVars, msgs, listVars, guiVars, rnd,
                   waitVars, frameVars>>

\* ... or for another size or rate.  lorieRRScreenSetSize: a new buffer with
\* a copy of the old one, made under the lock; the old buffer is
\* unregistered, the new one registered.
ScreenSetSize(b) ==
    /\ srv = "run" /\ lock = "none"
    /\ b \in Bufs \ used /\ SizeOf[b] = wanted
    /\ wanted' = NULL
    /\ root' = b /\ used' = used \cup {b}
    /\ damage' = DamageAfterDraw /\ moved' = TRUE
    /\ msgs' = msgs \o << <<"remove", root>>, <<"add", b>> >>
    /\ UNCHANGED <<srv, content, cursorVars, lock, drawRequested, updated,
                   rootWindowTextureID, surfaceAvailable, waitForNextFrame,
                   listVars, guiVars, rnd, waitVars, frameVars>>

-----------------------------------------------------------------------------
(* The activity's GUI thread.                                              *)

GuiIdle == pendingWin = "none"

\* The renderer thread holds stateLock when it decides to sleep or to work.
StateLockFree == rnd \notin {"check", "block", "work"}

\* rendererAddBuffer; the signal is sent without stateLock.
DeliverAdd ==
    /\ GuiIdle /\ msgs # <<>> /\ Head(msgs)[1] = "add"
    /\ msgs' = Tail(msgs)
    /\ addedBuffers' = addedBuffers \cup {Head(msgs)[2]}
    /\ rnd' = Signal(rnd)
    /\ UNCHANGED <<serverVars, lock, flagVars, wanted, buffers, removedBuffers,
                   guiVars, waitVars, frameVars>>

\* rendererRemoveBuffer
DeliverRemove ==
    /\ GuiIdle /\ msgs # <<>> /\ Head(msgs)[1] = "remove"
    /\ msgs' = Tail(msgs)
    /\ LET b == Head(msgs)[2]
       IN /\ addedBuffers' = addedBuffers \ {b}
          /\ buffers' = buffers \ {b}
          /\ removedBuffers' = removedBuffers \cup ({b} \cap buffers)
    /\ UNCHANGED <<serverVars, lock, flagVars, wanted, guiVars, rnd, waitVars,
                   frameVars>>

\* Bound: one size on its way at a time, and one a buffer is left for.
MayAskFor(s) ==
    wanted = NULL /\ (SizeOf[root] = s \/ \E b \in Bufs \ used : SizeOf[b] = s)

\* updateViewport of LorieView: rendererSetViewport, then EVENT_SCREEN_SIZE
\* to the X server.
SetViewport(s) ==
    /\ GuiIdle /\ StateLockFree /\ MayAskFor(s)
    /\ expected' = s /\ wanted' = s
    /\ drawRequested' = TRUE
    /\ rnd' = Signal(rnd)
    /\ UNCHANGED <<serverVars, lock, moved, updated, rootWindowTextureID,
                   surfaceAvailable, waitForNextFrame, msgs, listVars,
                   pendingWin, waitVars, frameVars>>

\* rendererSetWindow, called by surfaceChanged ("up") and surfaceDestroyed
\* ("down"): the GUI thread waits until the renderer has taken the change.
SetWindow(w) ==
    /\ GuiIdle /\ StateLockFree
    /\ pendingWin' = w /\ expected' = NULL
    /\ rnd' = Signal(rnd)
    /\ UNCHANGED <<serverVars, lock, flagVars, linkVars, listVars, waitVars,
                   frameVars>>

-----------------------------------------------------------------------------
(* The renderer thread.                                                    *)

Goto(pc) ==
    /\ rnd' = pc
    /\ UNCHANGED <<serverVars, lock, flagVars, linkVars, listVars, guiVars,
                   waitVars, frameVars>>

Requested == drawRequested \/ moved \/ updated

PendingChange ==
    pendingWin # "none" \/ addedBuffers # {} \/ removedBuffers # {}

\* rendererShouldWait with pending changes: no other field is looked at ...
ApplyChanges == rnd = "check" /\ PendingChange /\ Goto("work")

\* ... and without.  A buffer is waited for while it stays the one wanted.
ShouldWait ==
    /\ rnd = "check" /\ ~PendingChange
    /\ lastRequestedBufferId' = rootWindowTextureID
    /\ waitingForBuffers' = (/\ waitingForBuffers
                             /\ lastRequestedBufferId = rootWindowTextureID)
    /\ rnd' = IF /\ surfaceAvailable /\ ~waitForNextFrame
                 /\ ~waitingForBuffers' /\ Requested
              THEN "work" ELSE "block"
    /\ UNCHANGED <<serverVars, lock, flagVars, linkVars, listVars, guiVars,
                   frameVars>>

\* pthread_cond_wait: a signal sent before this step is lost.
Sleep == rnd = "block" /\ Goto("idle")

SpuriousWake == rnd = "idle" /\ Goto("check")

\* mutant of WaitingAfterAttach: arrived buffers do not end the waiting.
WaitingOn == waitingForBuffers

\* The renderer stops waiting as soon as any buffer arrives.
WaitingAfterAttach == waitingForBuffers /\ addedBuffers = {}

\* rendererRefreshContext for a pending window, a new and empty surface or
\* none; then attach the new buffers, unlock, and see whether to draw.
Work ==
    /\ rnd = "work"
    /\ IF pendingWin = "none" THEN UNCHANGED <<surfaceAvailable, drawRequested,
                                               updated, shown>>
       ELSE /\ surfaceAvailable' = (pendingWin = "up")
            /\ drawRequested' = (drawRequested \/ pendingWin = "up")
            /\ updated' = (updated \/ pendingWin = "up")
            /\ shown' = Blank
    /\ pendingWin' = "none"
    /\ buffers' = buffers \cup addedBuffers /\ addedBuffers' = {}
    /\ waitingForBuffers' = WaitingAfterAttach
    /\ rnd' = "decide"
    /\ UNCHANGED <<serverVars, lock, moved, rootWindowTextureID,
                   waitForNextFrame, linkVars, removedBuffers, expected,
                   lastRequestedBufferId, drawing, copied, texture>>

Decide ==
    /\ rnd = "decide"
    /\ Goto(IF surfaceAvailable /\ ~waitForNextFrame /\ Requested
            THEN "find" ELSE "release")

\* The first part of rendererRedrawLocked: look the buffer up, or wait for
\* it; leave without drawing while its size is not the expected one.
FindBuffer ==
    /\ rnd = "find"
    /\ LET id == rootWindowTextureID
       IN IF id \in buffers \cup removedBuffers
          THEN /\ IF expected = SizeOf[id]
                  THEN drawing' = id /\ rnd' = "found"
                  ELSE rnd' = "release" /\ UNCHANGED drawing
               /\ UNCHANGED waitingForBuffers
          ELSE /\ waitingForBuffers' = TRUE
               /\ rnd' = "release" /\ UNCHANGED drawing
    /\ UNCHANGED <<serverVars, lock, flagVars, linkVars, listVars, guiVars,
                   lastRequestedBufferId, copied, texture, shown>>

\* lorie_mutex_lock, and the request counts as met.
LockRoot ==
    /\ rnd = "found" /\ lock = "none"
    /\ lock' = "renderer" /\ drawRequested' = FALSE
    /\ rnd' = "draw"
    /\ UNCHANGED <<serverVars, moved, updated, rootWindowTextureID,
                   surfaceAvailable, waitForNextFrame, linkVars, listVars,
                   guiVars, waitVars, frameVars>>

\* Draw the buffer's content.
DrawRoot ==
    /\ rnd = "draw"
    /\ copied' = content[drawing]
    /\ rnd' = "update"
    /\ UNCHANGED <<serverVars, lock, flagVars, linkVars, listVars, guiVars,
                   waitVars, drawing, texture, shown>>

\* Upload the cursor's image if it is new, and lower both flags before the
\* position is read.
UpdateCursor ==
    /\ rnd = "update"
    /\ texture' = IF updated THEN image ELSE texture
    /\ updated' = FALSE /\ moved' = FALSE
    /\ rnd' = "cursor"
    /\ UNCHANGED <<serverVars, lock, drawRequested, rootWindowTextureID,
                   surfaceAvailable, waitForNextFrame, linkVars, listVars,
                   guiVars, waitVars, drawing, copied, shown>>

\* mutant of Unlocked: the lock is not given back.
StillLocked == lock

Unlocked == "none"

\* Draw the cursor where it is, unlock, and present the frame.
DrawCursor ==
    /\ rnd = "cursor"
    /\ shown' = [buf |-> drawing, version |-> copied, cursor |-> cursor,
                 image |-> texture]
    /\ drawing' = NULL
    /\ waitForNextFrame' = TRUE
    /\ lock' = Unlocked
    /\ rnd' = "release"
    /\ UNCHANGED <<serverVars, drawRequested, moved, updated,
                   rootWindowTextureID, surfaceAvailable, linkVars, listVars,
                   guiVars, waitVars, copied, texture>>

ReleaseRemoved ==
    /\ rnd = "release"
    /\ removedBuffers' = {}
    /\ rnd' = "lock"
    /\ UNCHANGED <<serverVars, lock, flagVars, linkVars, addedBuffers, buffers,
                   guiVars, waitVars, frameVars>>

TakeStateLock == rnd = "lock" /\ Goto("check")

-----------------------------------------------------------------------------
RendererStep ==
    \/ ApplyChanges \/ ShouldWait \/ Sleep \/ Work \/ Decide \/ FindBuffer
    \/ LockRoot \/ DrawRoot \/ UpdateCursor \/ DrawCursor \/ ReleaseRemoved
    \/ TakeStateLock

\* What the server does once begun, and at every vertical blank.
ServerStep ==
    \/ FinishAccess \/ CursorMoved \/ RedrawBegins \/ RequestDraw \/ Publish
    \/ (srv = "placing" /\ MoveCursor)

ServerNext ==
    \/ ServerStep \/ PrepareAccess \/ SetCursor \/ MoveCursor
    \/ KeepSize \/ \E b \in Bufs : ScreenSetSize(b)

GuiNext ==
    \/ DeliverAdd \/ DeliverRemove
    \/ \E s \in Sizes : SetViewport(s)
    \/ \E w \in {"up", "down"} : SetWindow(w)

Next == ServerNext \/ GuiNext \/ RendererStep \/ SpuriousWake

Spec == Init /\ [][Next]_vars

(* Frame callbacks keep coming, the server's main thread and the renderer  *)
(* thread run, messages are delivered and answered.  The GUI thread never  *)
(* has to call anything.                                                   *)
Fairness ==
    /\ WF_vars(ServerStep) /\ SF_vars(RedrawBegins)
    /\ WF_vars(RendererStep) /\ SF_vars(LockRoot)
    /\ WF_vars(DeliverAdd) /\ WF_vars(DeliverRemove)

FairSpec == Spec /\ Fairness

-----------------------------------------------------------------------------
RendererPC == {"check", "block", "idle", "work", "decide", "find", "found",
               "draw", "update", "cursor", "release", "lock"}

\* Types, and who holds the lock of the root window.
TypeOK ==
    /\ srv \in {"run", "access", "placing", "moving", "redraw", "publish"}
    /\ root \in Bufs /\ content \in [Bufs -> 0..MaxVersion]
    /\ damage \in BOOLEAN /\ used \in SUBSET Bufs
    /\ cursor \in 0..MaxCursor /\ image \in 0..MaxCursor
    /\ lock = CASE srv = "access" -> "server"
                [] rnd \in {"draw", "update", "cursor"} -> "renderer"
                [] OTHER -> "none"
    /\ drawRequested \in BOOLEAN /\ moved \in BOOLEAN /\ updated \in BOOLEAN
    /\ rootWindowTextureID \in Bufs \cup {NULL}
    /\ surfaceAvailable \in BOOLEAN /\ waitForNextFrame \in BOOLEAN
    /\ msgs \in Seq({"add", "remove"} \X Bufs)
    /\ wanted \in Sizes \cup {NULL}
    /\ pendingWin \in {"none", "up", "down"}
    /\ expected \in Sizes \cup {NULL}
    /\ rnd \in RendererPC
    /\ addedBuffers \in SUBSET Bufs /\ buffers \in SUBSET Bufs
    /\ removedBuffers \in SUBSET Bufs
    /\ waitingForBuffers \in BOOLEAN
    /\ lastRequestedBufferId \in Bufs \cup {NULL}
    /\ drawing \in Bufs \cup {NULL}
    /\ copied \in 0..MaxVersion /\ texture \in 0..MaxCursor
    /\ shown \in [buf : Bufs \cup {NULL}, version : 0..MaxVersion,
                  cursor : 0..MaxCursor, image : 0..MaxCursor]

Current == shown.buf = root /\ shown.version = content[root]

\* The frame in the making will show the root window as it is: the server
\* cannot draw until the renderer unlocks.
BeingDrawn ==
    /\ drawing = root
    /\ \/ rnd = "draw"
       \/ rnd \in {"update", "cursor"} /\ copied = content[root]

\* "Renderer thread will check the `drawRequested` flag right before going
\* to sleep": although the flag is lowered and signals are lost without any
\* common lock, a picture that differs from the root window is always still
\* damaged, requested or being replaced.
ContentNotLost ==
    surfaceAvailable /\ ~Current => damage \/ drawRequested \/ BeingDrawn

\* The same for the cursor, whose position and image are read while the X
\* server may be changing them: "No need to explicitly lock the mutex".
CursorNotLost ==
    surfaceAvailable /\ shown.buf # NULL =>
       /\ shown.cursor # cursor => moved \/ srv = "moving" \/ rnd = "cursor"
       /\ shown.image # image => updated \/ (rnd = "cursor" /\ texture = image)

\* A renderer that sleeps for want of a buffer has not attached it.  If the
\* buffer arrives between the decision to sleep and pthread_cond_wait, the
\* signal of rendererAddBuffer is lost and it does sleep beside it; then the
\* request is still there, which lorieRedraw signals again.
NotWaitingForKnownBuffer ==
    /\ rnd \in {"block", "idle"} /\ waitingForBuffers
    /\ lastRequestedBufferId = rootWindowTextureID
    => /\ rootWindowTextureID \notin buffers \cup removedBuffers
       /\ Requested

Watching == surfaceAvailable /\ pendingWin = "none" /\ expected = SizeOf[root]

UpToDate == Current /\ shown.cursor = cursor /\ shown.image = image

\* Once there is a surface of the right size for good, everything drawn
\* comes to the screen: lost signals are made good by the next frame.
FrameShown == <>[]Watching => <>[]UpToDate

=============================================================================
