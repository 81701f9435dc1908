------------------------ MODULE FramePipelineProofs ------------------------
(***************************************************************************)
(* Proofs about module FramePipeline, for any number of buffers and sizes  *)
(* and any bound on what is drawn and moved.                               *)
(***************************************************************************)
EXTENDS FramePipeline, TLAPS

ServerTyped ==
    /\ srv \in {"run", "access", "placing", "moving", "redraw", "publish"}
    /\ root \in Bufs /\ used \in SUBSET Bufs
    /\ content \in [Bufs -> 0..MaxVersion]
    /\ cursor \in 0..MaxCursor /\ image \in 0..MaxCursor
    /\ wanted \in Sizes \cup {NULL}

FlagsTyped ==
    /\ damage \in BOOLEAN /\ drawRequested \in BOOLEAN
    /\ moved \in BOOLEAN /\ updated \in BOOLEAN
    /\ surfaceAvailable \in BOOLEAN /\ waitForNextFrame \in BOOLEAN
    /\ waitingForBuffers \in BOOLEAN

BuffersTyped ==
    /\ msgs \in Seq({"add", "remove"} \X Bufs)
    /\ addedBuffers \in SUBSET Bufs /\ buffers \in SUBSET Bufs
    /\ removedBuffers \in SUBSET Bufs
    /\ rootWindowTextureID \in Bufs \cup {NULL}
    /\ lastRequestedBufferId \in Bufs \cup {NULL}

FrameTyped ==
    /\ rnd \in RendererPC
    /\ pendingWin \in {"none", "up", "down"}
    /\ expected \in Sizes \cup {NULL}
    /\ drawing \in Bufs \cup {NULL}
    /\ copied \in 0..MaxVersion /\ texture \in 0..MaxCursor
    /\ shown \in [buf : Bufs \cup {NULL}, version : 0..MaxVersion,
                  cursor : 0..MaxCursor, image : 0..MaxCursor]

LockHeld ==
    lock = CASE srv = "access" -> "server"
             [] rnd \in {"draw", "update", "cursor"} -> "renderer"
             [] OTHER -> "none"

(* What the parts of the invariant need from each other.  TypeOK is not    *)
(* inductive: who holds the lock also says who does not, a version is      *)
(* counted when drawing ends but was allowed when it began, and a buffer   *)
(* that is drawn was looked up steps before.                               *)

Excluded == srv = "access" => rnd \notin {"draw", "update", "cursor"}

MayFinish == srv = "access" => content[root] < MaxVersion

ImageFollows ==
    /\ srv = "placing" => image <= cursor + 1 /\ cursor < MaxCursor
    /\ srv # "placing" => image <= cursor

DrawsBuffer == rnd \in {"found", "draw", "update", "cursor"} => drawing \in Bufs

(* NotWaitingForKnownBuffer rests on an id never being published again: a  *)
(* renderer that remembers another id than the published one remembers one *)
(* that is out of use.                                                     *)

UsedKnown ==
    /\ root \in used
    /\ rootWindowTextureID \in used \cup {NULL}
    /\ lastRequestedBufferId \in used \cup {NULL}

NotAgain ==
    lastRequestedBufferId # rootWindowTextureID => lastRequestedBufferId # root

WaitedForIsAbsent ==
    waitingForBuffers /\ lastRequestedBufferId = rootWindowTextureID
       => /\ rootWindowTextureID \notin buffers \cup removedBuffers
          /\ Requested
          /\ rnd \notin {"found", "draw", "update"}

\* Nobody but the renderer lowers a request that it has seen.
SeenRequest == rnd = "find" => Requested

(* CursorNotLost says nothing of a surface without a frame; the texture's  *)
(* image must not be lost there either.                                    *)

ImageUploaded == ~updated => texture = image

IInv ==
    /\ ServerTyped /\ FlagsTyped /\ BuffersTyped /\ FrameTyped /\ LockHeld
    /\ Excluded /\ MayFinish /\ ImageFollows /\ DrawsBuffer
    /\ UsedKnown /\ NotAgain /\ WaitedForIsAbsent /\ SeenRequest
    /\ ImageUploaded /\ CursorNotLost

LEMMA Typed ==
    TypeOK <=> /\ ServerTyped /\ FlagsTyped /\ BuffersTyped /\ FrameTyped
               /\ LockHeld
  BY DEF TypeOK, ServerTyped, FlagsTyped, BuffersTyped, FrameTyped, LockHeld

LEMMA InitIInv == Init => IInv
<1> SUFFICES ASSUME Init PROVE IInv
  OBVIOUS
<1> USE FrameAssumption DEF Init, Blank
<1>1. ServerTyped
  BY DEF ServerTyped
<1>2. FlagsTyped
  BY DEF FlagsTyped
<1>3. BuffersTyped
  BY DEF BuffersTyped
<1>4. FrameTyped
  BY DEF FrameTyped, RendererPC
<1>5. LockHeld
  BY DEF LockHeld
<1>6. Excluded /\ MayFinish /\ ImageFollows /\ DrawsBuffer
  BY DEF Excluded, MayFinish, ImageFollows, DrawsBuffer
<1>7. UsedKnown /\ NotAgain /\ WaitedForIsAbsent /\ SeenRequest
  BY DEF UsedKnown, NotAgain, WaitedForIsAbsent, SeenRequest
<1>8. ImageUploaded /\ CursorNotLost
  BY DEF ImageUploaded, CursorNotLost
<1> QED
  BY <1>1, <1>2, <1>3, <1>4, <1>5, <1>6, <1>7, <1>8 DEF IInv

-----------------------------------------------------------------------------
(* One lemma for each part of the invariant.                               *)

\* The flags, which every thread writes, stay Boolean.
LEMMA FlagsKept == ASSUME FlagsTyped, Next PROVE FlagsTyped'
<1> USE FrameAssumption
    DEF serverVars, cursorVars, flagVars, linkVars, listVars, guiVars,
        waitVars, frameVars,
        FlagsTyped
<1>1. CASE ServerNext
  BY <1>1 DEF ServerNext, ServerStep, PrepareAccess, FinishAccess, SetCursor,
             MoveCursor, CursorMoved, RedrawBegins, RequestDraw, Publish,
             KeepSize, ScreenSetSize,
             DamageAfterDraw, RequestAfterDamage, ImageAnnounced
<1>2. CASE GuiNext
  BY <1>2 DEF GuiNext, DeliverAdd, DeliverRemove, SetViewport, SetWindow
<1>3. CASE RendererStep \/ SpuriousWake
  BY <1>3 DEF RendererStep, SpuriousWake, ApplyChanges, ShouldWait, Sleep, Work,
             Decide, FindBuffer, LockRoot, DrawRoot, UpdateCursor,
             DrawCursor, ReleaseRemoved, TakeStateLock, Goto, WaitingAfterAttach
<1> QED
  BY <1>1, <1>2, <1>3 DEF Next

\* The X server's own state: versions and the cursor stay in their bounds.
LEMMA ServerKept ==
    ASSUME ServerTyped, MayFinish, ImageFollows, Next
    PROVE  ServerTyped' /\ MayFinish' /\ ImageFollows'
<1> USE FrameAssumption
    DEF serverVars, cursorVars, flagVars, linkVars, listVars, guiVars,
        waitVars, frameVars,
        ServerTyped, MayFinish, ImageFollows
<1>1. CASE ServerNext
  <2>1. CASE FinishAccess
    BY <2>1 DEF FinishAccess
  <2>2. CASE SetCursor \/ MoveCursor
    BY <2>2 DEF SetCursor, MoveCursor
  <2>3. CASE PrepareAccess \/ CursorMoved \/ RedrawBegins \/ RequestDraw
             \/ Publish \/ KeepSize
    BY <2>3 DEF PrepareAccess, CursorMoved, RedrawBegins, RequestDraw, Publish,
                KeepSize
  <2>4. CASE \E b \in Bufs : ScreenSetSize(b)
    BY <2>4 DEF ScreenSetSize
  <2> QED
    BY <1>1, <2>1, <2>2, <2>3, <2>4 DEF ServerNext, ServerStep
<1>2. CASE GuiNext
  BY <1>2 DEF GuiNext, DeliverAdd, DeliverRemove, SetViewport, SetWindow
<1>3. CASE RendererStep \/ SpuriousWake
  BY <1>3 DEF RendererStep, SpuriousWake, ApplyChanges, ShouldWait, Sleep, Work,
             Decide, FindBuffer, LockRoot, DrawRoot, UpdateCursor,
             DrawCursor, ReleaseRemoved, TakeStateLock, Goto
<1> QED
  BY <1>1, <1>2, <1>3 DEF Next

\* Messages and lists name buffers.
LEMMA BuffersKept == ASSUME ServerTyped, BuffersTyped, Next PROVE BuffersTyped'
<1> USE FrameAssumption
    DEF serverVars, cursorVars, flagVars, linkVars, listVars, guiVars,
        waitVars, frameVars,
        ServerTyped, BuffersTyped
<1>1. CASE ServerNext
  <2>1. CASE \E b \in Bufs : ScreenSetSize(b)
    <3>1. PICK b \in Bufs : ScreenSetSize(b)
      BY <2>1
    <3>2. << <<"remove", root>>, <<"add", b>> >>
             \in Seq({"add", "remove"} \X Bufs)
      OBVIOUS
    <3>3. msgs' \in Seq({"add", "remove"} \X Bufs)
      BY <3>1, <3>2 DEF ScreenSetSize
    <3> QED
      BY <3>1, <3>3 DEF ScreenSetSize
  <2>2. CASE ~\E b \in Bufs : ScreenSetSize(b)
    BY <1>1, <2>2
       DEF ServerNext, ServerStep, PrepareAccess, FinishAccess, SetCursor,
           MoveCursor, CursorMoved, RedrawBegins, RequestDraw, Publish,
           KeepSize
  <2> QED
    BY <2>1, <2>2
<1>2. CASE GuiNext
  <2>1. CASE DeliverAdd \/ DeliverRemove
    <3>1. msgs # <<>> /\ msgs' = Tail(msgs)
      BY <2>1 DEF DeliverAdd, DeliverRemove
    <3>2. /\ Head(msgs) \in {"add", "remove"} \X Bufs
          /\ Tail(msgs) \in Seq({"add", "remove"} \X Bufs)
      BY <3>1
    <3>3. Head(msgs)[2] \in Bufs
      BY <3>2
    <3> QED
      BY <2>1, <3>1, <3>2, <3>3 DEF DeliverAdd, DeliverRemove
  <2>2. CASE \/ \E x \in Sizes : SetViewport(x)
             \/ \E w \in {"up", "down"} : SetWindow(w)
    BY <2>2 DEF SetViewport, SetWindow
  <2> QED
    BY <1>2, <2>1, <2>2 DEF GuiNext
<1>3. CASE RendererStep \/ SpuriousWake
  BY <1>3 DEF RendererStep, SpuriousWake, ApplyChanges, ShouldWait, Sleep, Work,
             Decide, FindBuffer, LockRoot, DrawRoot, UpdateCursor,
             DrawCursor, ReleaseRemoved, TakeStateLock, Goto
<1> QED
  BY <1>1, <1>2, <1>3 DEF Next

\* The renderer's own state, and the buffer it draws.
LEMMA FrameKept ==
    ASSUME ServerTyped, BuffersTyped, FrameTyped, DrawsBuffer, Next
    PROVE  FrameTyped' /\ DrawsBuffer'
<1> USE FrameAssumption
    DEF serverVars, cursorVars, flagVars, linkVars, listVars, guiVars,
        waitVars, frameVars,
        ServerTyped, BuffersTyped, FrameTyped, DrawsBuffer, Blank,
        RendererPC, Signal
<1>1. CASE ServerNext
  BY <1>1 DEF ServerNext, ServerStep, PrepareAccess, FinishAccess, SetCursor,
             MoveCursor, CursorMoved, RedrawBegins, RequestDraw, Publish,
             KeepSize, ScreenSetSize
<1>2. CASE GuiNext
  BY <1>2 DEF GuiNext, DeliverAdd, DeliverRemove, SetViewport, SetWindow
<1>3. CASE RendererStep \/ SpuriousWake
  <2>1. CASE FindBuffer
    BY <2>1 DEF FindBuffer
  <2>2. CASE DrawRoot
    BY <2>2 DEF DrawRoot
  <2>3. CASE UpdateCursor
    BY <2>3 DEF UpdateCursor
  <2>4. CASE DrawCursor
    BY <2>4 DEF DrawCursor
  <2>5. CASE Work
    <3>1. shown' \in [buf : Bufs \cup {NULL}, version : 0..MaxVersion,
                      cursor : 0..MaxCursor, image : 0..MaxCursor]
      BY <2>5 DEF Work
    <3> QED
      BY <2>5, <3>1 DEF Work
  <2>6. CASE ApplyChanges \/ ShouldWait \/ Sleep \/ Decide \/ LockRoot
             \/ ReleaseRemoved \/ TakeStateLock \/ SpuriousWake
    BY <2>6 DEF ApplyChanges, ShouldWait, Sleep, Decide, LockRoot,
                ReleaseRemoved, TakeStateLock, SpuriousWake, Goto
  <2> QED
    BY <1>3, <2>1, <2>2, <2>3, <2>4, <2>5, <2>6 DEF RendererStep
<1> QED
  BY <1>1, <1>2, <1>3 DEF Next

\* The lock of the root window: whoever is between taking and giving back
\* is alone.
LEMMA LockKept ==
    ASSUME ServerTyped, FrameTyped, LockHeld, Excluded, Next
    PROVE  LockHeld' /\ Excluded'
<1> USE FrameAssumption
    DEF serverVars, cursorVars, flagVars, linkVars, listVars, guiVars,
        waitVars, frameVars,
        ServerTyped, FrameTyped, LockHeld, Excluded, Signal, RendererPC
<1>1. CASE ServerNext
  BY <1>1 DEF ServerNext, ServerStep, PrepareAccess, FinishAccess, SetCursor,
             MoveCursor, CursorMoved, RedrawBegins, RequestDraw, Publish,
             KeepSize, ScreenSetSize
<1>2. CASE GuiNext
  BY <1>2 DEF GuiNext, DeliverAdd, DeliverRemove, SetViewport, SetWindow
<1>3. CASE RendererStep \/ SpuriousWake
  BY <1>3 DEF RendererStep, SpuriousWake, ApplyChanges, ShouldWait, Sleep, Work,
             Decide, FindBuffer, LockRoot, DrawRoot, UpdateCursor,
             DrawCursor, ReleaseRemoved, TakeStateLock, Goto, Unlocked
<1> QED
  BY <1>1, <1>2, <1>3 DEF Next

\* What the renderer waits for is not there.
LEMMA WaitKept ==
    ASSUME ServerTyped, FlagsTyped, BuffersTyped, UsedKnown, NotAgain,
           WaitedForIsAbsent, SeenRequest, Next
    PROVE  UsedKnown' /\ NotAgain' /\ WaitedForIsAbsent' /\ SeenRequest'
<1> USE FrameAssumption
    DEF serverVars, cursorVars, flagVars, linkVars, listVars, guiVars,
        waitVars, frameVars,
        ServerTyped, FlagsTyped, BuffersTyped, UsedKnown, NotAgain,
        WaitedForIsAbsent, SeenRequest, Requested, Signal
<1>1. CASE ServerNext
  <2>1. CASE \E b \in Bufs : ScreenSetSize(b)
    BY <2>1 DEF ScreenSetSize
  <2>2. CASE Publish
    BY <2>2 DEF Publish
  <2>3. CASE ~Publish /\ ~\E b \in Bufs : ScreenSetSize(b)
    BY <1>1, <2>3
       DEF ServerNext, ServerStep, PrepareAccess, FinishAccess, SetCursor,
           MoveCursor, CursorMoved, RedrawBegins, RequestDraw, KeepSize,
           ImageAnnounced, RequestAfterDamage
  <2> QED
    BY <2>1, <2>2, <2>3
<1>2. CASE GuiNext
  BY <1>2 DEF GuiNext, DeliverAdd, DeliverRemove, SetViewport, SetWindow
<1>3. CASE RendererStep \/ SpuriousWake
  <2>1. CASE ShouldWait
    BY <2>1 DEF ShouldWait
  <2>2. CASE FindBuffer
    BY <2>2 DEF FindBuffer
  <2>3. CASE Work
    BY <2>3 DEF Work, WaitingAfterAttach
  <2>4. CASE ~ShouldWait /\ ~FindBuffer /\ ~Work
    BY <1>3, <2>4
       DEF RendererStep, SpuriousWake, ApplyChanges, Sleep, Decide, LockRoot,
           DrawRoot, UpdateCursor, DrawCursor, ReleaseRemoved, TakeStateLock,
           Goto
  <2> QED
    BY <2>1, <2>2, <2>3, <2>4
<1> QED
  BY <1>1, <1>2, <1>3 DEF Next

\* Every movement and every image of the cursor is still announced.
LEMMA CursorKept ==
    ASSUME ServerTyped, FlagsTyped, FrameTyped, ImageUploaded, CursorNotLost,
           Next
    PROVE  ImageUploaded' /\ CursorNotLost'
<1> USE FrameAssumption
    DEF serverVars, cursorVars, flagVars, linkVars, listVars, guiVars,
        waitVars, frameVars,
        ServerTyped, FlagsTyped, FrameTyped, ImageUploaded, CursorNotLost,
        Signal, Blank
<1>1. CASE ServerNext
  <2>1. CASE SetCursor
    BY <2>1 DEF SetCursor, ImageAnnounced
  <2>2. CASE MoveCursor \/ CursorMoved
    BY <2>2 DEF MoveCursor, CursorMoved
  <2>3. CASE \E b \in Bufs : ScreenSetSize(b)
    BY <2>3 DEF ScreenSetSize
  <2>4. CASE PrepareAccess \/ FinishAccess \/ RedrawBegins \/ RequestDraw
             \/ Publish \/ KeepSize
    BY <2>4 DEF PrepareAccess, FinishAccess, RedrawBegins, RequestDraw,
                Publish, KeepSize
  <2> QED
    BY <1>1, <2>1, <2>2, <2>3, <2>4 DEF ServerNext, ServerStep
<1>2. CASE GuiNext
  BY <1>2 DEF GuiNext, DeliverAdd, DeliverRemove, SetViewport, SetWindow
<1>3. CASE RendererStep \/ SpuriousWake
  <2>1. CASE UpdateCursor
    BY <2>1 DEF UpdateCursor
  <2>2. CASE DrawCursor
    BY <2>2 DEF DrawCursor
  <2>3. CASE Work
    BY <2>3 DEF Work
  <2>4. CASE ~UpdateCursor /\ ~DrawCursor /\ ~Work
    <3>1. /\ UNCHANGED <<cursor, image, moved, updated, srv, texture, shown,
                         surfaceAvailable>>
          /\ rnd # "cursor"
      BY <1>3, <2>4
         DEF RendererStep, SpuriousWake, ApplyChanges, ShouldWait, Sleep,
             Decide, FindBuffer, LockRoot, DrawRoot, ReleaseRemoved,
             TakeStateLock, Goto
    <3> QED
      BY <3>1
  <2> QED
    BY <2>1, <2>2, <2>3, <2>4
<1> QED
  BY <1>1, <1>2, <1>3 DEF Next

-----------------------------------------------------------------------------
LEMMA NextKeepsIInv == IInv /\ [Next]_vars => IInv'
<1> SUFFICES ASSUME IInv, [Next]_vars PROVE IInv'
  OBVIOUS
<1>1. CASE Next
  BY <1>1, FlagsKept, ServerKept, BuffersKept, FrameKept, LockKept, WaitKept,
     CursorKept DEF IInv
<1>2. CASE UNCHANGED vars
  <2> USE <1>2 DEF vars, serverVars, cursorVars, flagVars, linkVars, listVars,
                   guiVars, waitVars, frameVars, IInv
  <2>1. ServerTyped' /\ FlagsTyped' /\ BuffersTyped'
    BY DEF ServerTyped, FlagsTyped, BuffersTyped
  <2>2. FrameTyped' /\ LockHeld' /\ DrawsBuffer'
    BY DEF FrameTyped, LockHeld, DrawsBuffer
  <2>3. Excluded' /\ MayFinish' /\ ImageFollows'
    BY DEF Excluded, MayFinish, ImageFollows
  <2>4. UsedKnown' /\ NotAgain' /\ WaitedForIsAbsent' /\ SeenRequest'
    BY DEF UsedKnown, NotAgain, WaitedForIsAbsent, SeenRequest, Requested
  <2>5. ImageUploaded' /\ CursorNotLost'
    BY DEF ImageUploaded, CursorNotLost
  <2> QED
    BY <2>1, <2>2, <2>3, <2>4, <2>5
<1> QED
  BY <1>1, <1>2

LEMMA Invariance == Spec => []IInv
  BY InitIInv, NextKeepsIInv, PTL DEF Spec

\* The types of all variables and the discipline of the root window's lock:
\* it is the X server's between loriePrepareAccess and lorieFinishAccess, the
\* renderer's while it copies, and free otherwise.
THEOREM TypesOfFrames == Spec => []TypeOK
<1>1. IInv => TypeOK
  BY Typed DEF IInv
<1> QED
  BY Invariance, <1>1, PTL

\* A movement or an image of the cursor is never lost, however often the X
\* server changes it while the renderer thread reads it without a lock.
THEOREM CursorIsNotLost == Spec => []CursorNotLost
<1>1. IInv => CursorNotLost
  BY DEF IInv
<1> QED
  BY Invariance, <1>1, PTL

\* The renderer thread never sleeps waiting for a buffer that it has attached,
\* and beside one that has just arrived only with a request left to be
\* signalled, however many times the screen is resized.
THEOREM KnownBufferIsNotAwaited == Spec => []NotWaitingForKnownBuffer
<1>1. IInv => NotWaitingForKnownBuffer
  BY DEF IInv, WaitedForIsAbsent, NotWaitingForKnownBuffer
<1> QED
  BY Invariance, <1>1, PTL

-----------------------------------------------------------------------------
(* While the root window keeps its buffer, the content is not lost either. *)
(* Without that hypothesis it may be: a request for the new buffer can be  *)
(* met by a frame of the old one.                                          *)

KeepsRoot == [][root' = root]_vars

RootPublished == rootWindowTextureID \in {root, NULL}

DrawsRoot ==
    /\ rnd \in {"found", "draw", "update", "cursor"} => drawing = root
    /\ rnd \in {"update", "cursor"} => copied = content[root]

OneRootInv == RootPublished /\ DrawsRoot /\ ContentNotLost

LEMMA InitOneRoot == Init => OneRootInv
<1> SUFFICES ASSUME Init PROVE OneRootInv
  OBVIOUS
<1>1. RootPublished /\ DrawsRoot
  BY DEF Init, RootPublished, DrawsRoot
<1>2. ContentNotLost
  BY DEF Init, ContentNotLost
<1> QED
  BY <1>1, <1>2 DEF OneRootInv

LEMMA ServerKeepsOneRoot ==
    ASSUME IInv, OneRootInv, ServerNext, root' = root PROVE OneRootInv'
<1> USE FrameAssumption
    DEF serverVars, cursorVars, flagVars, linkVars, listVars, guiVars,
        waitVars, frameVars, IInv, OneRootInv, RootPublished, DrawsRoot,
        ContentNotLost, Current, BeingDrawn, ServerTyped, FlagsTyped, Signal
<1>1. CASE FinishAccess
  BY <1>1 DEF FinishAccess, Excluded, DamageAfterDraw
<1>2. CASE RequestDraw
  BY <1>2 DEF RequestDraw, RequestAfterDamage
<1>3. CASE Publish
  BY <1>3 DEF Publish
<1>4. CASE \E b \in Bufs : ScreenSetSize(b)
  BY <1>4 DEF ScreenSetSize, UsedKnown
<1>5. CASE PrepareAccess \/ SetCursor \/ MoveCursor \/ CursorMoved
           \/ RedrawBegins \/ KeepSize
  BY <1>5 DEF PrepareAccess, SetCursor, MoveCursor, CursorMoved, RedrawBegins,
              KeepSize
<1> QED
  BY <1>1, <1>2, <1>3, <1>4, <1>5 DEF ServerNext, ServerStep

LEMMA GuiKeepsOneRoot ==
    ASSUME IInv, OneRootInv, GuiNext PROVE OneRootInv'
<1> USE FrameAssumption
    DEF serverVars, cursorVars, flagVars, linkVars, listVars, guiVars,
        waitVars, frameVars, IInv, OneRootInv, RootPublished, DrawsRoot,
        ContentNotLost, Current, BeingDrawn, ServerTyped, FlagsTyped, Signal
<1>1. CASE DeliverAdd \/ DeliverRemove
  BY <1>1 DEF DeliverAdd, DeliverRemove
<1>2. CASE \E x \in Sizes : SetViewport(x)
  BY <1>2 DEF SetViewport
<1>3. CASE \E w \in {"up", "down"} : SetWindow(w)
  BY <1>3 DEF SetWindow
<1> QED
  BY <1>1, <1>2, <1>3 DEF GuiNext

LEMMA RendererKeepsOneRoot ==
    ASSUME IInv, OneRootInv, RendererStep \/ SpuriousWake PROVE OneRootInv'
<1> USE FrameAssumption
    DEF serverVars, cursorVars, flagVars, linkVars, listVars, guiVars,
        waitVars, frameVars, IInv, OneRootInv, RootPublished, DrawsRoot,
        ContentNotLost, Current, BeingDrawn, ServerTyped, FlagsTyped, Signal
<1>1. CASE FindBuffer
  <2>1. NULL \notin buffers \cup removedBuffers
    BY DEF BuffersTyped
  <2> QED
    BY <1>1, <2>1 DEF FindBuffer
<1>2. CASE LockRoot
  BY <1>2 DEF LockRoot
<1>3. CASE DrawRoot
  BY <1>3 DEF DrawRoot
<1>4. CASE UpdateCursor
  BY <1>4 DEF UpdateCursor
<1>5. CASE DrawCursor
  BY <1>5 DEF DrawCursor
<1>6. CASE Work
  BY <1>6 DEF Work, Blank
<1>7. CASE ApplyChanges \/ ShouldWait \/ Sleep \/ Decide \/ ReleaseRemoved
           \/ TakeStateLock \/ SpuriousWake
  <2>1. /\ UNCHANGED <<root, content, damage, drawRequested, copied, shown,
                       rootWindowTextureID, surfaceAvailable, drawing>>
        /\ rnd \notin {"found", "draw", "update", "cursor"}
        /\ rnd' \notin {"found", "draw", "update", "cursor"}
    BY <1>7 DEF ApplyChanges, ShouldWait, Sleep, Decide, ReleaseRemoved,
                TakeStateLock, SpuriousWake, Goto
  <2> QED
    BY <2>1
<1> QED
  BY <1>1, <1>2, <1>3, <1>4, <1>5, <1>6, <1>7 DEF RendererStep

LEMMA NextKeepsOneRoot ==
    IInv /\ OneRootInv /\ [Next]_vars /\ [root' = root]_vars => OneRootInv'
<1> SUFFICES ASSUME IInv, OneRootInv, [Next]_vars, [root' = root]_vars
             PROVE  OneRootInv'
  OBVIOUS
<1>1. CASE Next
  <2>1. root' = root
    BY DEF vars, serverVars
  <2> QED
    BY <1>1, <2>1, ServerKeepsOneRoot, GuiKeepsOneRoot, RendererKeepsOneRoot
       DEF Next
<1>2. CASE UNCHANGED vars
  BY <1>2 DEF vars, serverVars, cursorVars, flagVars, frameVars, OneRootInv,
              RootPublished, DrawsRoot, ContentNotLost, Current, BeingDrawn
<1> QED
  BY <1>1, <1>2

\* As long as the root window keeps its buffer, nothing drawn is lost: a
\* picture that differs from the root window is damaged, requested or being
\* replaced, although the flags are lowered and signals lost without a lock.
THEOREM ContentIsNotLost == Spec /\ KeepsRoot => []ContentNotLost
<1>1. OneRootInv => ContentNotLost
  BY DEF OneRootInv
<1> QED
  BY Invariance, InitOneRoot, NextKeepsOneRoot, <1>1, PTL DEF Spec, KeepsRoot
=============================================================================
