---------------------------- MODULE VirtualKeys ----------------------------
(***************************************************************************)
(* The overlay of virtual keys (virtualkeys/VirtualKeysView.java,          *)
(* VirtualKeysElement.java, RangeScroller.java) and what MainActivity does *)
(* to it: fingers on elements press and release keys, free fingers move    *)
(* the pointer, tap, scroll and hold mouse buttons, and the elements may   *)
(* be thrown away or told to let go at any time.                           *)
(*                                                                         *)
(* Everything runs on the GUI thread, so that a handler is one step.  Time *)
(* and distance are left open: whether a finger was quick enough for a tap *)
(* or moved far enough to scroll is a choice.  So is what lies under a     *)
(* finger; an element that has a finger is passed over.  Pointer movement  *)
(* and scrolling press nothing: a place of a binding that moves the        *)
(* pointer, scrolls or is NONE has NULL.  A key may be on several elements *)
(* and several times on one.  A hidden view gets no new gestures; as no    *)
(* gesture has to begin, whether it is hidden need not be known.  The      *)
(* editor has a view of its own, which sends nothing.                      *)
(***************************************************************************)
EXTENDS Integers, Sequences, FiniteSets

CONSTANTS
    Elements,    \* the elements of the profile
    Kind,        \* Kind[e]: its type, with toggle switches apart
    Binding,     \* Binding[e]: its keys; of a range button, those it scrolls
    Left, Right, \* mouse buttons 1 and 3, which an element may have as well
    Pointers,    \* ids of fingers
    Indices,     \* bound: positions a range button may be scrolled to
    Directions,  \* bound: directions a finger on a pad may take
    NULL

\* "PAD" is a D-pad, a stick or a trackpad.
Kinds == {"BUTTON", "TOGGLE", "PAD", "RANGE_BUTTON"}

KeysOf(e) == {Binding[e][i] : i \in DOMAIN Binding[e]} \ {NULL}

ASSUME KeysAssumption ==
    /\ NULL \notin Pointers \cup {Left, Right} /\ IsFiniteSet(Pointers)
    /\ Indices \subseteq Int /\ Directions \subseteq 1..4
    /\ Kind \in [Elements -> Kinds] /\ DOMAIN Binding = Elements
    /\ \A e \in Elements :
          /\ Binding[e] \in Seq(KeysOf(e) \cup {NULL})
          /\ Kind[e] = "RANGE_BUTTON" => Len(Binding[e]) > 0

Keys == (UNION {KeysOf(e) : e \in Elements}) \cup {Left, Right}

VARIABLES
    \* --- the elements
    currentPointerId,    \* the finger an element follows
    toggleActive,
    pressed,             \* places in Binding[e] that are down: states of a
                         \* pad (1 up, 2 right, 3 down, 4 left), or
                         \* lastActivatedIndex of a range button's scroller
    \* --- the view
    touchGestures,       \* the preference
    touching,            \* fingers on the view
    pointerOnElement,    \* "none": no entry, "free", "element"
    freePointerCount, mousePointerId, twoFingerScrollActive,
    leftButtonHeld, rightButtonHeld,
    holdDetector,        \* posted
    tapCount,            \* 2 stands for more
    \* --- the X server
    down,                \* keys and buttons it takes for pressed
    \* --- history
    abandoned,           \* elements whose finger a cancelled gesture took
                         \* away without their being told
    reloaded,            \* keys pressed by elements that were thrown away
    dropped              \* keys pressed by a scroller that was thrown away

elementVars == <<currentPointerId, toggleActive, pressed, abandoned>>
fingerVars  == <<touching, pointerOnElement, freePointerCount, mousePointerId,
                 tapCount, twoFingerScrollActive>>
heldVars    == <<leftButtonHeld, rightButtonHeld>>
keyVars     == <<down, reloaded, dropped>>
vars == <<elementVars, touchGestures, fingerVars, heldVars, holdDetector, keyVars>>

Init ==
    /\ currentPointerId = [e \in Elements |-> NULL]
    /\ toggleActive = [e \in Elements |-> FALSE]
    /\ pressed = [e \in Elements |-> {}]
    /\ touchGestures = FALSE
    /\ touching = {} /\ pointerOnElement = [p \in Pointers |-> "none"]
    /\ freePointerCount = 0 /\ mousePointerId = NULL
    /\ twoFingerScrollActive = FALSE
    /\ leftButtonHeld = FALSE /\ rightButtonHeld = FALSE
    /\ holdDetector = FALSE /\ tapCount = 0
    /\ down = {} /\ abandoned = {} /\ reloaded = {} /\ dropped = {}

-----------------------------------------------------------------------------
(* The elements.                                                           *)

\* handleInputEvent for keys that go up and keys that go down.  A key that one
\* handler sends both ways ends as the last element or place sends it; their
\* order is left open.
Send(up, dn) ==
    /\ \E last \in SUBSET (up \cap dn) :
          down' = (down \ up) \cup (dn \ up) \cup last
    /\ reloaded' = reloaded \ (up \cup dn)
    /\ dropped' = dropped \ (up \cup dn)

\* getBindingAt and getBindingForRangeIndex: none outside the array.
KeysAt(e, S) == {Binding[e][i] : i \in S \cap DOMAIN Binding[e]} \ {NULL}

\* Directions of a pad: never two opposite ones ...
NewStates ==
    {S \in SUBSET Directions : ~({1, 3} \subseteq S) /\ ~({2, 4} \subseteq S)}

\* ... and those that are sent: all four by a D-pad and a stick, by a trackpad
\* those of the axes along which the finger moves fast.
Sent == {1..4, {1, 3}, {2, 4}, {}}

\* Java's remainder has the sign of the dividend.
Rem(i, n) == IF i < 0 THEN -((-i) % n) ELSE i % n

\* mutant of WrappedIndex: the remainder alone.
UnwrappedIndex(i, n) == Rem(i, n)

WrappedIndex(i, n) == Rem(Rem(i, n) + n, n)

\* updateActivatedIndex
Item(e, i) == {WrappedIndex(i, Len(Binding[e])) + 1}

\* What an element may do when its finger moves: the places it has pressed
\* then, and the keys it sends up and down.
Moves(e) ==
    CASE Kind[e] = "PAD" ->
            UNION {{[now |-> (pressed[e] \ A) \cup (S \cap A),
                     up  |-> KeysAt(e, A \ S), dn |-> KeysAt(e, S \cap A)] :
                       A \in Sent} : S \in NewStates}
      [] Kind[e] = "RANGE_BUTTON" ->
            {[now |-> Item(e, i), up |-> KeysAt(e, pressed[e] \ Item(e, i)),
              dn |-> KeysAt(e, Item(e, i) \ pressed[e])] : i \in Indices}
      [] OTHER -> {[now |-> pressed[e], up |-> {}, dn |-> {}]}

\* handleTouchDown
ElementDown(e, p) ==
    /\ currentPointerId[e] = NULL
    /\ currentPointerId' = [currentPointerId EXCEPT ![e] = p]
    /\ \/ /\ Kind[e] = "BUTTON"
          /\ Send({}, KeysOf(e))
          /\ UNCHANGED <<toggleActive, pressed>>
       \/ /\ Kind[e] = "TOGGLE"
          /\ toggleActive' = [toggleActive EXCEPT ![e] = ~@]
          /\ IF toggleActive[e] THEN Send(KeysOf(e), {})
                                ELSE Send({}, KeysOf(e))
          /\ UNCHANGED pressed
       \/ /\ Kind[e] \in {"PAD", "RANGE_BUTTON"}
          /\ \E m \in Moves(e) :
                /\ pressed' = [pressed EXCEPT ![e] = m.now]
                /\ Send(m.up, m.dn)
          /\ UNCHANGED toggleActive
    /\ UNCHANGED abandoned

\* handleTouchMove, of the elements of the finger p that moved and of those of
\* the other fingers, which send again what they have pressed.
ElementsMove(p) ==
    LET Told == {e \in Elements : /\ Kind[e] \in {"PAD", "RANGE_BUTTON"}
                                  /\ currentPointerId[e] \in touching}
        may == [e \in Told |-> {m \in Moves(e) :
                      currentPointerId[e] # p => m.now = pressed[e]}]
    IN \E move \in [Told -> UNION {may[e] : e \in Told}] :
          /\ \A e \in Told : move[e] \in may[e]
          /\ pressed' = [e \in Elements |->
                           IF e \in Told THEN move[e].now ELSE pressed[e]]
          /\ Send(UNION {move[e].up : e \in Told}, UNION {move[e].dn : e \in Told})
          /\ UNCHANGED <<currentPointerId, toggleActive, abandoned>>

\* mutant of ReleasedOnUp: a toggle switch lets go like a button.
ReleasedWithFinger(e) ==
    IF Kind[e] \in {"BUTTON", "TOGGLE"} THEN KeysOf(e)
                                        ELSE KeysAt(e, pressed[e])

\* mutant of ReleasedOnUp: pads and range buttons keep their keys.
ReleasedOfButtons(e) == IF Kind[e] = "BUTTON" THEN KeysOf(e) ELSE {}

\* What handleTouchUp releases; a toggle switch stays as it is.
ReleasedOnUp(e) ==
    CASE Kind[e] = "BUTTON" -> KeysOf(e)
      [] Kind[e] = "TOGGLE" -> {}
      [] OTHER              -> KeysAt(e, pressed[e])

\* What forceRelease releases: a button's keys whether pressed or not, but
\* nothing of a range button, whose scroller is dropped before.
ReleasedByForce(e) ==
    CASE Kind[e] = "BUTTON"       -> KeysOf(e)
      [] Kind[e] = "TOGGLE"       -> IF toggleActive[e] THEN KeysOf(e) ELSE {}
      [] Kind[e] = "RANGE_BUTTON" -> {}
      [] OTHER                    -> KeysAt(e, pressed[e])

\* What an element has pressed, by its own account.
Claim(e) ==
    CASE Kind[e] = "BUTTON" -> IF currentPointerId[e] = NULL THEN {}
                                                             ELSE KeysOf(e)
      [] Kind[e] = "TOGGLE" -> IF toggleActive[e] THEN KeysOf(e) ELSE {}
      [] OTHER              -> KeysAt(e, pressed[e])

\* What is down because some element pressed it.
Claimed == {k \in down : \E e \in Elements : k \in Claim(e)}

ElementsAtRest ==
    /\ currentPointerId' = [e \in Elements |-> NULL]
    /\ toggleActive' = [e \in Elements |-> FALSE]
    /\ pressed' = [e \in Elements |-> {}]
    /\ abandoned' = {}

\* releaseAllKeys
ReleaseAllKeys ==
    LET up == UNION {ReleasedByForce(e) : e \in Elements}
    IN /\ ElementsAtRest
       /\ down' = down \ up
       /\ reloaded' = reloaded \ up
       /\ dropped' = (dropped \cup Claimed) \ up

\* reloadElements: new objects, and nobody releases what the old ones press.
ReloadElements ==
    /\ ElementsAtRest
    /\ reloaded' = reloaded \cup Claimed
    /\ UNCHANGED <<down, dropped>>

-----------------------------------------------------------------------------
(* onTouchEvent and the hold detector.                                     *)

\* A finger comes down on the element e, or on none that takes it.
Down(p, e) ==
    /\ p \notin touching
    /\ touching' = touching \cup {p}
    /\ \/ /\ e # NULL /\ ElementDown(e, p)
          /\ pointerOnElement' = [pointerOnElement EXCEPT ![p] = "element"]
          /\ UNCHANGED <<freePointerCount, mousePointerId, holdDetector,
                         twoFingerScrollActive>>
       \/ /\ e = NULL
          /\ pointerOnElement' = [pointerOnElement EXCEPT ![p] = "free"]
          /\ freePointerCount' = freePointerCount + 1
          /\ mousePointerId' = IF mousePointerId = NULL THEN p
                                                        ELSE mousePointerId
          /\ holdDetector' = (holdDetector \/ freePointerCount' \in {1, 2})
          /\ twoFingerScrollActive' =
                (twoFingerScrollActive /\ freePointerCount' # 2)
          /\ UNCHANGED <<elementVars, keyVars>>
    /\ UNCHANGED <<touchGestures, heldVars, tapCount>>

Free == {p \in Pointers : pointerOnElement[p] = "free"}

\* A finger moves.  Whether it is far enough to call off the hold or to
\* scroll is left open; with a third free finger the hold is off anyway.
Move(p) ==
    /\ p \in touching
    /\ ElementsMove(p)
    /\ freePointerCount' = Cardinality(Free)
    /\ \/ /\ freePointerCount' >= 2
          /\ ~touchGestures /\ ~rightButtonHeld /\ ~leftButtonHeld
          /\ \/ holdDetector' = FALSE
             \/ freePointerCount' = 2 /\ UNCHANGED holdDetector
          /\ \/ UNCHANGED twoFingerScrollActive
             \/ /\ freePointerCount' = 2 /\ p \in Free /\ ~holdDetector'
                /\ twoFingerScrollActive' = TRUE
       \/ /\ freePointerCount' >= 2
          /\ touchGestures \/ rightButtonHeld \/ leftButtonHeld
          /\ UNCHANGED <<holdDetector, twoFingerScrollActive>>
       \/ /\ freePointerCount' = 1
          /\ \/ UNCHANGED holdDetector
             \/ /\ p = mousePointerId /\ ~leftButtonHeld
                /\ holdDetector' = FALSE
          /\ UNCHANGED twoFingerScrollActive
       \/ /\ freePointerCount' = 0
          /\ UNCHANGED <<holdDetector, twoFingerScrollActive>>
    /\ UNCHANGED <<touchGestures, touching, pointerOnElement, mousePointerId,
                   tapCount, heldVars>>

\* mutant of FreeAfterUp: fingers on elements are subtracted, too.
FreeAfterAnyUp(p) == IF freePointerCount = 0 THEN 0 ELSE freePointerCount - 1

FreeAfterUp(p) ==
    IF pointerOnElement[p] = "element" \/ freePointerCount = 0
    THEN freePointerCount ELSE freePointerCount - 1

\* mutant of AllPointersReleased: the kind of the event is not looked at.
NothingCounted(last, free, on) ==
    free = 0 /\ \A q \in Pointers : on[q] = "none"

\* last: the event is ACTION_UP or ACTION_CANCEL.
AllPointersReleased(last, free, on) ==
    last \/ (free = 0 /\ \A q \in Pointers : on[q] = "none")

\* Clicks for the taps of a gesture: button 1 for one, button 3 for more.
Clicked(taps) ==
    IF touchGestures \/ twoFingerScrollActive \/ taps = 0 THEN {}
    ELSE IF taps = 1 THEN {Left} ELSE {Right}

If(c, S) == IF c THEN S ELSE {}

\* The finger an event names is lifted.  If nothing remains of the gesture,
\* the buttons are released and taps become clicks.
Lift(p, last) ==
    LET Own    == {e \in Elements : currentPointerId[e] = p}
        mayTap == /\ pointerOnElement[p] # "element" /\ ~touchGestures
                  /\ ~twoFingerScrollActive
                  /\ ~rightButtonHeld /\ ~leftButtonHeld
        free   == FreeAfterUp(p)
        on     == [pointerOnElement EXCEPT ![p] = "none"]
        all    == AllPointersReleased(last, free, on)
    IN /\ currentPointerId' = [e \in Elements |-> IF e \in Own THEN NULL
                                                ELSE currentPointerId[e]]
       /\ pressed' = [e \in Elements |-> IF e \in Own THEN {} ELSE pressed[e]]
       /\ \E taps \in {tapCount} \cup If(mayTap /\ tapCount < 2, {tapCount + 1}) :
             /\ Send((UNION {ReleasedOnUp(e) : e \in Own})
                        \cup If(all /\ leftButtonHeld, {Left})
                        \cup If(all /\ rightButtonHeld, {Right})
                        \cup If(all, Clicked(taps)), {})
             /\ tapCount' = IF all THEN 0 ELSE taps
       /\ freePointerCount' = IF all THEN 0 ELSE free
       /\ pointerOnElement' = IF all THEN [q \in Pointers |-> "none"] ELSE on
       /\ mousePointerId' = IF all \/ mousePointerId = p THEN NULL
                                                         ELSE mousePointerId
       /\ twoFingerScrollActive' = (twoFingerScrollActive /\ ~all)
       /\ leftButtonHeld' = (leftButtonHeld /\ ~all)
       /\ rightButtonHeld' = (rightButtonHeld /\ ~all)
       /\ holdDetector' = FALSE
       /\ abandoned' = {e \in Elements \ Own :
                           e \in abandoned \/ currentPointerId[e] \notin
                                                  touching' \cup {NULL}}
       /\ UNCHANGED <<toggleActive, touchGestures>>

Up(p) ==
    /\ p \in touching /\ touching' = touching \ {p}
    /\ Lift(p, touching' = {})

\* ACTION_CANCEL ends the gesture of all fingers and names one of them.
Cancel(p) ==
    /\ p \in touching /\ touching' = {}
    /\ Lift(p, TRUE)

\* The runnable of scheduleHoldDetector.
Hold ==
    /\ holdDetector /\ holdDetector' = FALSE
    /\ \/ /\ ~touchGestures /\ freePointerCount >= 2
          /\ ~twoFingerScrollActive /\ ~rightButtonHeld /\ ~leftButtonHeld
          /\ rightButtonHeld' = TRUE /\ Send({}, {Right})
          /\ UNCHANGED leftButtonHeld
       \/ /\ ~touchGestures /\ freePointerCount = 1 /\ ~leftButtonHeld
          /\ leftButtonHeld' = TRUE /\ Send({}, {Left})
          /\ UNCHANGED rightButtonHeld
       \/ /\ \/ touchGestures
             \/ freePointerCount = 1 /\ leftButtonHeld
             \/ freePointerCount >= 2
                   /\ (twoFingerScrollActive \/ rightButtonHeld \/ leftButtonHeld)
          /\ UNCHANGED <<heldVars, keyVars>>
    /\ UNCHANGED <<elementVars, touchGestures, fingerVars>>

-----------------------------------------------------------------------------
(* MainActivity and the system.                                            *)

\* onPreferencesChangedCallback with the overlay enabled and the server
\* connected: the profile is loaded anew, whatever preference changed ...
Show ==
    /\ ReloadElements
    /\ UNCHANGED <<touchGestures, fingerVars, heldVars, holdDetector>>

\* ... or with the overlay disabled or the server gone.
Hide ==
    /\ ReleaseAllKeys
    /\ UNCHANGED <<touchGestures, fingerVars, heldVars, holdDetector>>

\* onSizeChanged and onConfigurationChanged
Resize ==
    /\ ReloadElements
    /\ UNCHANGED <<touchGestures, fingerVars, heldVars, holdDetector>>

\* onPause
Pause ==
    /\ ReleaseAllKeys
    /\ UNCHANGED <<touchGestures, fingerVars, heldVars, holdDetector>>

SetTouchGestures ==
    /\ touchGestures' = ~touchGestures
    /\ UNCHANGED <<elementVars, fingerVars, heldVars, holdDetector,
                   keyVars>>

Next ==
    \/ \E p \in Pointers : Move(p) \/ Up(p) \/ Cancel(p)
    \/ \E p \in Pointers, e \in Elements \cup {NULL} : Down(p, e)
    \/ Hold \/ Show \/ Hide \/ Resize \/ Pause \/ SetTouchGestures

Spec == Init /\ [][Next]_vars

-----------------------------------------------------------------------------
TypeOK ==
    /\ currentPointerId \in [Elements -> Pointers \cup {NULL}]
    /\ toggleActive \in [Elements -> BOOLEAN]
    /\ pressed \in [Elements -> SUBSET Int]
    /\ \A e \in Elements :
          pressed[e] \subseteq IF Kind[e] = "PAD" THEN 1..4 ELSE DOMAIN Binding[e]
    /\ touchGestures \in BOOLEAN
    /\ touching \in SUBSET Pointers
    /\ pointerOnElement \in [Pointers -> {"none", "free", "element"}]
    /\ freePointerCount \in Nat /\ mousePointerId \in Pointers \cup {NULL}
    /\ twoFingerScrollActive \in BOOLEAN /\ holdDetector \in BOOLEAN
    /\ leftButtonHeld \in BOOLEAN /\ rightButtonHeld \in BOOLEAN
    /\ tapCount \in 0..2
    /\ down \in SUBSET Keys /\ reloaded \in SUBSET Keys
    /\ dropped \in SUBSET Keys /\ abandoned \in SUBSET Elements

\* A finger that came down on the element is still there.
HasFinger(e) ==
    /\ e \notin abandoned
    /\ currentPointerId[e] \in touching
    /\ pointerOnElement[currentPointerId[e]] = "element"

\* Whatever the server takes for pressed, the user holds: a switch that is on,
\* an element with a finger on it, or a mouse button that is held.  There are
\* three exceptions, in which the code does let a key stick: its element lost
\* its finger to a cancelled gesture (ACTION_CANCEL tells the elements of one
\* finger only), was thrown away (reloadElements), or lost its scroller
\* (releaseAllKeys on a range button).
NothingStuck ==
    down \subseteq (UNION {Claim(e) : e \in {f \in Elements :
                         Kind[f] = "TOGGLE" \/ HasFinger(f) \/ f \in abandoned}})
                      \cup reloaded \cup dropped
                      \cup If(leftButtonHeld, {Left})
                      \cup If(rightButtonHeld, {Right})

\* The key k is on no other element, and at one place only of a pad or range.
OnlyOn(e, k) ==
    /\ \A f \in Elements \ {e} : k \notin KeysOf(f)
    /\ Kind[e] \in {"PAD", "RANGE_BUTTON"} =>
          \A i, j \in DOMAIN Binding[e] :
             Binding[e][i] = k /\ Binding[e][j] = k => i = j

\* What an element shows as pressed or switched on is pressed in the server,
\* whatever fingers, cancelled gestures and the activity do to the others; but
\* for mouse buttons, which a tap elsewhere releases, and for keys that another
\* element or another direction of the pad has as well and may release.
HeldIsDown ==
    \A e \in Elements : \A k \in Claim(e) \ {Left, Right} :
       OnlyOn(e, k) => k \in down

\* "Compute free count from pointerOnElement (set at DOWN, cleared at UP)":
\* the count that is kept by increments agrees with the entries, which are
\* those of the fingers on the view; and the pointer follows a free one.
PointersAgree ==
    /\ freePointerCount = Cardinality(Free)
    /\ touching = {p \in Pointers : pointerOnElement[p] # "none"}
    /\ mousePointerId # NULL => mousePointerId \in Free

\* Without fingers, no mouse button is held and none will be: neither the
\* flags nor the hold detector outlive the gesture, however it ended.
GestureOver ==
    touching = {} => ~leftButtonHeld /\ ~rightButtonHeld /\ ~holdDetector

=============================================================================
