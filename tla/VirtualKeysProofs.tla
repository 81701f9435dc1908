------------------------- MODULE VirtualKeysProofs -------------------------
(***************************************************************************)
(* Proofs about module VirtualKeys, for every profile of elements, every   *)
(* binding of keys to them and every number of fingers.                    *)
(***************************************************************************)
EXTENDS VirtualKeys, FiniteSetTheorems, TLAPS

(* The five invariants are inductive together but for three facts.  An     *)
(* element that follows no finger has no place of its binding pressed: a   *)
(* range button that is touched again presses the key under the finger     *)
(* without releasing another one first, so a key it still had down would   *)
(* stick.  An element that follows a finger has it, or was abandoned: a    *)
(* finger that leaves in an orderly way tells its elements.  And what the  *)
(* server takes for pressed is accounted for, whoever claims it.           *)

RestReleased ==
    \A e \in Elements : currentPointerId[e] = NULL => pressed[e] = {}

FingersKnown ==
    \A e \in Elements :
       currentPointerId[e] = NULL \/ e \in abandoned \/ HasFinger(e)

Accounted(k) ==
    \/ \E e \in Elements : k \in Claim(e)
    \/ k \in reloaded \cup dropped
    \/ leftButtonHeld /\ k = Left
    \/ rightButtonHeld /\ k = Right

AllAccounted == \A k \in down : Accounted(k)

Places(e) == IF Kind[e] = "PAD" THEN 1..4 ELSE DOMAIN Binding[e]

KeysTyped ==
    /\ currentPointerId \in [Elements -> Pointers \cup {NULL}]
    /\ toggleActive \in [Elements -> BOOLEAN]
    /\ pressed \in [Elements -> SUBSET Int]
    /\ \A e \in Elements : pressed[e] \subseteq Places(e)
    /\ down \in SUBSET Keys /\ reloaded \in SUBSET Keys
    /\ dropped \in SUBSET Keys /\ abandoned \in SUBSET Elements

FingersTyped ==
    /\ touching \in SUBSET Pointers
    /\ pointerOnElement \in [Pointers -> {"none", "free", "element"}]
    /\ freePointerCount \in Nat /\ tapCount \in 0..2
    /\ mousePointerId \in Pointers \cup {NULL}

FlagsTyped ==
    /\ touchGestures \in BOOLEAN /\ twoFingerScrollActive \in BOOLEAN
    /\ holdDetector \in BOOLEAN
    /\ leftButtonHeld \in BOOLEAN /\ rightButtonHeld \in BOOLEAN

(* The keys of the elements and the fingers on the view are kept apart:    *)
(* the first part speaks of no finger and the second of no element; only   *)
(* FingersKnown relates them.                                              *)

KeysInv == KeysTyped /\ RestReleased /\ AllAccounted /\ HeldIsDown

FingersInv == FingersTyped /\ FlagsTyped /\ PointersAgree /\ GestureOver

IInv == KeysInv /\ FingersInv /\ FingersKnown

LEMMA Typed == TypeOK <=> KeysTyped /\ FingersTyped /\ FlagsTyped
  BY DEF TypeOK, KeysTyped, Places, FingersTyped, FlagsTyped

-----------------------------------------------------------------------------
(* Keys and places.                                                        *)

LEMMA BindingType ==
    ASSUME NEW e \in Elements
    PROVE  /\ Len(Binding[e]) \in Nat
           /\ DOMAIN Binding[e] = 1..Len(Binding[e])
           /\ Kind[e] = "RANGE_BUTTON" => Len(Binding[e]) \in Nat \ {0}
           /\ Places(e) \subseteq Int
<1>1. /\ Len(Binding[e]) \in Nat /\ DOMAIN Binding[e] = 1..Len(Binding[e])
      /\ Kind[e] = "RANGE_BUTTON" => Len(Binding[e]) > 0
  <2>1. PICK T : Binding[e] \in Seq(T)
    BY KeysAssumption
  <2>2. Len(Binding[e]) \in Nat /\ DOMAIN Binding[e] = 1..Len(Binding[e])
    BY <2>1
  <2>3. Kind[e] = "RANGE_BUTTON" => Len(Binding[e]) > 0
    BY KeysAssumption
  <2> QED
    BY <2>2, <2>3
<1>2. Places(e) \subseteq Int
  BY <1>1 DEF Places
<1> QED
  BY <1>1, <1>2

\* An element presses keys of its own only.
LEMMA KeysAtOwn ==
    ASSUME NEW e \in Elements, NEW S
    PROVE  KeysAt(e, S) \subseteq KeysOf(e)
  BY DEF KeysAt, KeysOf

LEMMA KeysOfType == ASSUME NEW e \in Elements PROVE KeysOf(e) \subseteq Keys
  BY DEF Keys

LEMMA RemType ==
    ASSUME NEW i \in Int, NEW n \in Nat \ {0}
    PROVE  /\ Rem(i, n) \in Int
           /\ -n < Rem(i, n) /\ Rem(i, n) < n
           /\ i >= 0 => Rem(i, n) >= 0
  BY DEF Rem

\* updateActivatedIndex finds a place of the binding however far the range is
\* scrolled, in either direction.
LEMMA WrappedIndexType ==
    ASSUME NEW i \in Int, NEW n \in Nat \ {0}
    PROVE  WrappedIndex(i, n) \in 0..(n - 1)
<1>1. Rem(i, n) \in Int /\ Rem(i, n) + n \in Int /\ Rem(i, n) + n >= 0
  BY RemType
<1> QED
  BY <1>1, RemType DEF WrappedIndex

LEMMA ItemType ==
    ASSUME NEW e \in Elements, Kind[e] = "RANGE_BUTTON", NEW i \in Indices
    PROVE  Item(e, i) \subseteq Places(e)
<1>1. WrappedIndex(i, Len(Binding[e])) \in 0..(Len(Binding[e]) - 1)
  BY BindingType, WrappedIndexType, KeysAssumption
<1> QED
  BY <1>1, BindingType DEF Item, Places

LEMMA KeysAtSplit ==
    ASSUME NEW e, NEW S, NEW T, NEW U, S \subseteq T \cup U
    PROVE  KeysAt(e, S) \subseteq KeysAt(e, T) \cup KeysAt(e, U)
  BY DEF KeysAt

\* A key that is at one place only of a pad or a range button.
LEMMA OnePlace ==
    ASSUME NEW e \in Elements, Kind[e] \in {"PAD", "RANGE_BUTTON"}, NEW k,
           OnlyOn(e, k), NEW S, NEW T, k \in KeysAt(e, S), S \cap T = {}
    PROVE  k \notin KeysAt(e, T)
  BY DEF OnlyOn, KeysAt

\* A moving finger releases what the element has no longer pressed, presses
\* what it has newly pressed, and does not release the latter at another place
\* if it is only at one.
LEMMA MovesType ==
    ASSUME KeysTyped, NEW e \in Elements, NEW m \in Moves(e),
           Kind[e] \in {"PAD", "RANGE_BUTTON"}
    PROVE  /\ m.now \subseteq Places(e)
           /\ m.up \subseteq KeysOf(e)
           /\ m.dn \subseteq KeysAt(e, m.now)
           /\ KeysAt(e, pressed[e]) \subseteq KeysAt(e, m.now) \cup m.up
           /\ KeysAt(e, m.now) \subseteq KeysAt(e, pressed[e]) \cup m.dn
           /\ \A k \in KeysAt(e, m.now) : OnlyOn(e, k) => k \notin m.up
<1>0. pressed[e] \subseteq Places(e)
  BY DEF KeysTyped
<1>1. PICK now, off, on :
        /\ now \subseteq Places(e)
        /\ m.now = now /\ m.up = KeysAt(e, off) /\ m.dn = KeysAt(e, on)
        /\ on \subseteq now /\ now \cap off = {}
        /\ pressed[e] \subseteq now \cup off /\ now \subseteq pressed[e] \cup on
  <2>1. CASE Kind[e] = "PAD"
    <3>0. Moves(e) = UNION {{[now |-> (pressed[e] \ A) \cup (S \cap A),
                              up  |-> KeysAt(e, A \ S),
                              dn  |-> KeysAt(e, S \cap A)] :
                                A \in Sent} : S \in NewStates}
      BY <2>1 DEF Moves
    <3>1. PICK S \in NewStates, A \in Sent :
            m = [now |-> (pressed[e] \ A) \cup (S \cap A),
                 up  |-> KeysAt(e, A \ S), dn |-> KeysAt(e, S \cap A)]
      BY <3>0
    <3>2. /\ m.now = (pressed[e] \ A) \cup (S \cap A)
          /\ m.up = KeysAt(e, A \ S) /\ m.dn = KeysAt(e, S \cap A)
      BY <3>1
    <3>3. S \subseteq Places(e)
      BY <2>1, KeysAssumption DEF NewStates, Places
    <3>4. (pressed[e] \ A) \cup (S \cap A) \subseteq Places(e)
      BY <1>0, <3>3
    <3> QED
      BY <3>2, <3>4
  <2>2. CASE Kind[e] = "RANGE_BUTTON"
    <3>1. PICK i \in Indices :
            m = [now |-> Item(e, i),
                 up |-> KeysAt(e, pressed[e] \ Item(e, i)),
                 dn |-> KeysAt(e, Item(e, i) \ pressed[e])]
      BY <2>2 DEF Moves
    <3>2. /\ m.now = Item(e, i) /\ m.up = KeysAt(e, pressed[e] \ Item(e, i))
          /\ m.dn = KeysAt(e, Item(e, i) \ pressed[e])
      BY <3>1
    <3> QED
      BY <2>2, <3>2, ItemType
  <2> QED
    BY <2>1, <2>2
<1>2. m.up \subseteq KeysOf(e)
  BY <1>1, KeysAtOwn
<1>3. m.dn \subseteq KeysAt(e, m.now)
  BY <1>1 DEF KeysAt
<1>4. KeysAt(e, pressed[e]) \subseteq KeysAt(e, m.now) \cup m.up
  BY <1>1, KeysAtSplit
<1>5. KeysAt(e, m.now) \subseteq KeysAt(e, pressed[e]) \cup m.dn
  BY <1>1, KeysAtSplit
<1>6. \A k \in KeysAt(e, m.now) : OnlyOn(e, k) => k \notin m.up
  BY <1>1, OnePlace
<1> QED
  BY <1>1, <1>2, <1>3, <1>4, <1>5, <1>6

LEMMA ClaimOwn ==
    ASSUME NEW e \in Elements PROVE Claim(e) \subseteq KeysOf(e)
<1>1. CASE Kind[e] = "BUTTON"
  BY <1>1 DEF Claim
<1>2. CASE Kind[e] = "TOGGLE"
  BY <1>2 DEF Claim
<1>3. CASE Kind[e] \notin {"BUTTON", "TOGGLE"}
  BY <1>3, KeysAtOwn DEF Claim
<1> QED
  BY <1>1, <1>2, <1>3

\* What an element claims depends on its own entries.
LEMMA ClaimSame ==
    ASSUME NEW e \in Elements, currentPointerId'[e] = currentPointerId[e],
           toggleActive'[e] = toggleActive[e], pressed'[e] = pressed[e]
    PROVE  Claim(e)' = Claim(e)
  BY DEF Claim, KeysAt, KeysOf

LEMMA ClaimAtRest ==
    ASSUME NEW e \in Elements, ElementsAtRest
    PROVE  Claim(e)' = {}
<1>1. /\ currentPointerId'[e] = NULL /\ toggleActive'[e] = FALSE
      /\ pressed'[e] = {}
  BY DEF ElementsAtRest
<1>2. KeysAt(e, {}) = {}
  BY DEF KeysAt
<1> QED
  BY <1>1, <1>2 DEF Claim, KeysAt

\* A key that is only on e is on no other element.
LEMMA OnlyOnApart ==
    ASSUME NEW e \in Elements, NEW k, OnlyOn(e, k),
           NEW f \in Elements, k \in KeysOf(f)
    PROVE  f = e
  BY DEF OnlyOn

\* What Send leaves: whatever is down was, or was sent; whatever was sent down
\* and not up is; and nothing else was released.
LEMMA Sending ==
    ASSUME NEW up, NEW dn, Send(up, dn)
    PROVE  /\ down' \subseteq (down \ up) \cup dn
           /\ (down \cup dn) \ up \subseteq down'
           /\ reloaded' = reloaded \ (up \cup dn)
           /\ dropped' = dropped \ (up \cup dn)
  BY DEF Send

-----------------------------------------------------------------------------
LEMMA InitIInv == Init => IInv
<1> SUFFICES ASSUME Init PROVE IInv
  OBVIOUS
<1> USE KeysAssumption DEF Init
<1>1. KeysTyped
  BY DEF KeysTyped
<1>2. FingersTyped
  BY DEF FingersTyped
<1>3. FlagsTyped
  BY DEF FlagsTyped
<1>4. RestReleased
  BY DEF RestReleased
<1>5. \A e \in Elements : Claim(e) = {}
  BY DEF Claim, KeysAt
<1>6. AllAccounted /\ HeldIsDown /\ FingersKnown
  BY <1>5 DEF AllAccounted, HeldIsDown, FingersKnown
<1>7. Free = {}
  BY DEF Free
<1>8. PointersAgree
  BY <1>7, FS_EmptySet DEF PointersAgree
<1>9. GestureOver
  BY DEF GestureOver
<1> QED
  BY <1>1, <1>2, <1>3, <1>4, <1>6, <1>8, <1>9 DEF IInv, KeysInv, FingersInv

-----------------------------------------------------------------------------
(* The keys.                                                               *)

\* The elements' part of a new finger.
LEMMA ElementDownKeepsKeys ==
    ASSUME KeysInv, NEW p \in Pointers, NEW e \in Elements,
           ElementDown(e, p), UNCHANGED heldVars
    PROVE  KeysInv'
<1> USE KeysAssumption DEF KeysInv
<1>1. /\ currentPointerId[e] = NULL /\ pressed[e] = {}
      /\ currentPointerId' = [currentPointerId EXCEPT ![e] = p]
  BY DEF ElementDown, RestReleased
<1>2. PICK S, up, dn :
        /\ S \subseteq Places(e)
        /\ pressed' = [pressed EXCEPT ![e] = S]
        /\ toggleActive' = [toggleActive EXCEPT
                              ![e] = IF Kind[e] = "TOGGLE" THEN ~@ ELSE @]
        /\ Send(up, dn) /\ up \subseteq KeysOf(e)
        /\ dn = Claim(e)'
        /\ Claim(e) \subseteq up
        /\ \A k \in dn : OnlyOn(e, k) => k \notin up
  <2>0. KeysAt(e, {}) = {}
    BY DEF KeysAt
  <2>1. CASE Kind[e] = "BUTTON"
    <3>1. /\ pressed' = [pressed EXCEPT ![e] = {}]
          /\ toggleActive' = [toggleActive EXCEPT ![e] = @]
          /\ Send({}, KeysOf(e))
      BY <1>1, <2>1 DEF ElementDown, KeysTyped
    <3>2. Claim(e) = {} /\ Claim(e)' = KeysOf(e)
      BY <1>1, <2>1 DEF Claim, KeysTyped, KeysOf
    <3> QED
      BY <2>1, <3>1, <3>2
  <2>2. CASE Kind[e] = "TOGGLE"
    <3>1. /\ pressed' = [pressed EXCEPT ![e] = {}]
          /\ toggleActive' = [toggleActive EXCEPT ![e] = ~@]
          /\ IF toggleActive[e] THEN Send(KeysOf(e), {})
                                ELSE Send({}, KeysOf(e))
      BY <1>1, <2>2 DEF ElementDown, KeysTyped
    <3>2. toggleActive[e] \in BOOLEAN /\ toggleActive'[e] = ~toggleActive[e]
      BY <3>1 DEF KeysTyped
    <3>3. /\ Claim(e) = IF toggleActive[e] THEN KeysOf(e) ELSE {}
          /\ Claim(e)' = IF toggleActive'[e] THEN KeysOf(e) ELSE {}
      BY <2>2 DEF Claim, KeysOf
    <3>4. CASE toggleActive[e]
      <4>1. Send(KeysOf(e), {}) /\ Claim(e)' = {} /\ Claim(e) = KeysOf(e)
        BY <3>1, <3>2, <3>3, <3>4
      <4> QED
        BY <2>2, <3>1, <4>1
    <3>5. CASE ~toggleActive[e]
      <4>1. Send({}, KeysOf(e)) /\ Claim(e)' = KeysOf(e) /\ Claim(e) = {}
        BY <3>1, <3>2, <3>3, <3>5
      <4> QED
        BY <2>2, <3>1, <4>1
    <3> QED
      BY <3>4, <3>5
  <2>3. CASE Kind[e] \in {"PAD", "RANGE_BUTTON"}
    <3>1. PICK m \in Moves(e) :
            /\ pressed' = [pressed EXCEPT ![e] = m.now]
            /\ Send(m.up, m.dn)
            /\ UNCHANGED toggleActive
      BY <2>3 DEF ElementDown
    <3>2. toggleActive' = [toggleActive EXCEPT ![e] = @]
      BY <3>1 DEF KeysTyped
    <3>3. pressed'[e] = m.now
      BY <3>1 DEF KeysTyped
    <3>4. /\ m.now \subseteq Places(e) /\ m.up \subseteq KeysOf(e)
          /\ m.dn \subseteq KeysAt(e, m.now)
          /\ KeysAt(e, m.now) \subseteq KeysAt(e, {}) \cup m.dn
          /\ \A k \in KeysAt(e, m.now) : OnlyOn(e, k) => k \notin m.up
      BY <1>1, <2>3, MovesType
    <3>6. m.dn = KeysAt(e, m.now)
      BY <2>0, <3>4
    <3>5. Claim(e) = {} /\ Claim(e)' = KeysAt(e, m.now)
      BY <1>1, <2>0, <2>3, <3>3 DEF Claim, KeysAt
    <3> QED
      <4> DEFINE S == m.now
                 up == m.up
                 dn == m.dn
      <4>1. /\ S \subseteq Places(e) /\ pressed' = [pressed EXCEPT ![e] = S]
            /\ Send(up, dn) /\ up \subseteq KeysOf(e) /\ dn = Claim(e)'
            /\ Claim(e) \subseteq up
            /\ \A k \in dn : OnlyOn(e, k) => k \notin up
        BY <3>1, <3>4, <3>5, <3>6
      <4>2. toggleActive' = [toggleActive EXCEPT
                               ![e] = IF Kind[e] = "TOGGLE" THEN ~@ ELSE @]
        BY <2>3, <3>2
      <4> HIDE DEF S, up, dn
      <4> QED
        BY <4>1, <4>2
  <2> QED
    BY <2>1, <2>2, <2>3 DEF Kinds
<1>3. dn \subseteq KeysOf(e)
  BY <1>2, ClaimOwn DEF Claim, KeysOf, KeysAt
<1>4. \A f \in Elements \ {e} : Claim(f)' = Claim(f)
  BY <1>1, <1>2, ClaimSame DEF KeysTyped
<1>5. /\ down' \subseteq (down \ up) \cup dn
      /\ (down \cup dn) \ up \subseteq down'
      /\ reloaded' = reloaded \ (up \cup dn)
      /\ dropped' = dropped \ (up \cup dn)
      /\ abandoned' = abandoned
  BY <1>2, Sending DEF ElementDown
<1>6. /\ currentPointerId' \in [Elements -> Pointers \cup {NULL}]
      /\ toggleActive' \in [Elements -> BOOLEAN]
      /\ pressed' \in [Elements -> SUBSET Int]
      /\ \A f \in Elements : pressed'[f] \subseteq Places(f)
  <2>1. S \in SUBSET Int
    BY <1>2, BindingType
  <2>2. /\ pressed' \in [Elements -> SUBSET Int]
        /\ \A f \in Elements : pressed'[f] \subseteq Places(f)
    BY <1>2, <2>1 DEF KeysTyped
  <2>3. toggleActive' \in [Elements -> BOOLEAN]
    BY <1>2 DEF KeysTyped
  <2> QED
    BY <1>1, <2>2, <2>3 DEF KeysTyped
<1>7. /\ down' \in SUBSET Keys /\ reloaded' \in SUBSET Keys
      /\ dropped' \in SUBSET Keys /\ abandoned' \in SUBSET Elements
  BY <1>3, <1>5, KeysOfType DEF KeysTyped
<1>8. RestReleased'
  BY <1>1, <1>2 DEF RestReleased, KeysTyped
<1>9. AllAccounted'
  <2> SUFFICES ASSUME NEW k \in down' PROVE Accounted(k)'
    BY DEF AllAccounted
  <2>1. CASE k \in dn
    BY <1>2, <2>1 DEF Accounted
  <2>2. CASE k \notin dn
    <3>1. k \in down /\ k \notin up
      BY <1>5, <2>2
    <3>2. Accounted(k)
      BY <3>1 DEF AllAccounted
    <3> QED
      BY <1>2, <1>4, <1>5, <2>2, <3>1, <3>2 DEF Accounted, heldVars
  <2> QED
    BY <2>1, <2>2
<1>10. HeldIsDown'
  <2> SUFFICES ASSUME NEW f \in Elements, NEW k \in Claim(f)',
                      k \notin {Left, Right}, OnlyOn(f, k)
               PROVE  k \in down'
    BY DEF HeldIsDown, OnlyOn, KeysOf
  <2>1. CASE f = e
    BY <1>2, <1>5, <2>1
  <2>2. CASE f # e
    <3>1. k \in Claim(f) /\ k \in down
      BY <1>4, <2>2 DEF HeldIsDown
    <3>2. k \notin up
      BY <1>2, <2>2, OnlyOnApart
    <3> QED
      BY <1>5, <3>1, <3>2
  <2> QED
    BY <2>1, <2>2
<1> QED
  BY <1>6, <1>7, <1>8, <1>9, <1>10 DEF KeysTyped

\* The elements' part of a finger that moves: the pads and range buttons of all
\* fingers are told.
LEMMA ElementsMoveKeepsKeys ==
    ASSUME KeysInv, FingersTyped, NEW p \in Pointers, ElementsMove(p),
           UNCHANGED heldVars
    PROVE  KeysInv'
<1> USE KeysAssumption DEF KeysInv
<1> DEFINE Told == {e \in Elements : /\ Kind[e] \in {"PAD", "RANGE_BUTTON"}
                                     /\ currentPointerId[e] \in touching}
<1> DEFINE may == [e \in Told |-> {m \in Moves(e) :
                          currentPointerId[e] # p => m.now = pressed[e]}]
<1>0. PICK move \in [Told -> UNION {may[e] : e \in Told}] :
        /\ \A e \in Told : move[e] \in may[e]
        /\ pressed' = [e \in Elements |->
                         IF e \in Told THEN move[e].now ELSE pressed[e]]
        /\ Send(UNION {move[e].up : e \in Told}, UNION {move[e].dn : e \in Told})
        /\ UNCHANGED <<currentPointerId, toggleActive, abandoned>>
  BY DEF ElementsMove
<1>1. /\ \A e \in Told : move[e] \in Moves(e)
      /\ pressed' = [e \in Elements |->
                       IF e \in Told THEN move[e].now ELSE pressed[e]]
      /\ Send(UNION {move[e].up : e \in Told}, UNION {move[e].dn : e \in Told})
      /\ UNCHANGED <<currentPointerId, toggleActive, abandoned>>
  BY <1>0
<1> HIDE DEF may
<1> DEFINE up == UNION {move[e].up : e \in Told}
           dn == UNION {move[e].dn : e \in Told}
<1>2. /\ down' \subseteq (down \ up) \cup dn
      /\ (down \cup dn) \ up \subseteq down'
      /\ reloaded' = reloaded \ (up \cup dn)
      /\ dropped' = dropped \ (up \cup dn)
  BY <1>1, Sending
<1>3. \A e \in Told : pressed'[e] = move[e].now
  BY <1>1
<1>4. \A e \in Elements \ Told : pressed'[e] = pressed[e]
  BY <1>1
<1>5. \A e \in Told :
        /\ move[e].now \subseteq Places(e)
        /\ move[e].up \subseteq KeysOf(e)
        /\ move[e].dn \subseteq KeysAt(e, move[e].now)
        /\ KeysAt(e, pressed[e]) \subseteq KeysAt(e, move[e].now) \cup move[e].up
        /\ KeysAt(e, move[e].now) \subseteq KeysAt(e, pressed[e]) \cup move[e].dn
        /\ \A k \in KeysAt(e, move[e].now) : OnlyOn(e, k) => k \notin move[e].up
  BY <1>1, MovesType
<1>6. \A e \in Told : /\ Claim(e) = KeysAt(e, pressed[e])
                      /\ Claim(e)' = KeysAt(e, move[e].now)
  BY <1>3 DEF Claim, KeysAt
<1>7. \A e \in Elements \ Told : Claim(e)' = Claim(e)
  BY <1>1, <1>4, ClaimSame
<1>8. /\ \A e \in Told : move[e].up \subseteq up /\ move[e].dn \subseteq dn
      /\ \A k \in up : \E e \in Told : k \in move[e].up
      /\ \A k \in dn : \E e \in Told : k \in move[e].dn
  OBVIOUS
<1>9. up \subseteq Keys /\ dn \subseteq Keys
  <2>1. \A e \in Told : move[e].up \subseteq Keys /\ move[e].dn \subseteq Keys
    BY <1>5, KeysAtOwn, KeysOfType
  <2> QED
    BY <1>8, <2>1
<1> HIDE DEF up, dn
<1>10. KeysTyped'
  <2>1. \A e \in Elements : pressed'[e] \subseteq Places(e)
    BY <1>3, <1>4, <1>5 DEF KeysTyped
  <2>2. pressed' \in [Elements -> SUBSET Int]
    BY <1>1, <2>1, BindingType
  <2> QED
    BY <1>1, <1>2, <1>9, <2>1, <2>2 DEF KeysTyped, Places
<1>11. RestReleased'
  <2>1. \A e \in Told : currentPointerId[e] # NULL
    BY DEF FingersTyped
  <2> QED
    BY <1>1, <1>4, <2>1 DEF RestReleased
<1>12. AllAccounted'
  <2> SUFFICES ASSUME NEW k \in down' PROVE Accounted(k)'
    BY DEF AllAccounted
  <2>1. CASE k \in dn
    BY <1>5, <1>6, <1>8, <2>1 DEF Accounted
  <2>2. CASE k \notin dn
    <3>1. k \in down /\ k \notin up /\ Accounted(k)
      BY <1>2, <2>2 DEF AllAccounted
    <3>2. CASE \E e \in Elements : k \in Claim(e)
      BY <1>5, <1>6, <1>7, <1>8, <3>1, <3>2 DEF Accounted
    <3>3. CASE ~\E e \in Elements : k \in Claim(e)
      BY <1>2, <2>2, <3>1, <3>3 DEF Accounted, heldVars
    <3> QED
      BY <3>2, <3>3
  <2> QED
    BY <2>1, <2>2
<1>13. HeldIsDown'
  <2> SUFFICES ASSUME NEW e \in Elements, NEW k \in Claim(e)',
                      k \notin {Left, Right}, OnlyOn(e, k)
               PROVE  k \in down'
    BY DEF HeldIsDown, OnlyOn, KeysOf
  <2>1. k \notin up
    <3> SUFFICES ASSUME NEW f \in Told, k \in move[f].up PROVE FALSE
      BY <1>8
    <3>1. f = e
      BY <1>5, OnlyOnApart
    <3> QED
      BY <1>5, <1>6, <3>1
  <2>2. k \in Claim(e) \/ k \in dn
    BY <1>5, <1>6, <1>7, <1>8
  <2> QED
    BY <1>2, <2>1, <2>2 DEF HeldIsDown
<1> QED
  BY <1>10, <1>11, <1>12, <1>13

\* The elements' part of a finger that is lifted: its elements release what
\* they claim, toggle switches apart, and a button that is no longer held is
\* released, too.  Clicks only add to what is released.
LEMMA LiftKeepsKeys ==
    ASSUME KeysInv, FlagsTyped, NEW p \in Pointers, NEW last \in BOOLEAN,
           Lift(p, last)
    PROVE  KeysInv'
<1> USE KeysAssumption DEF KeysInv
<1> DEFINE Own == {e \in Elements : currentPointerId[e] = p}
           all == AllPointersReleased(last, FreeAfterUp(p),
                                      [pointerOnElement EXCEPT ![p] = "none"])
<1>1. PICK taps :
        Send((UNION {ReleasedOnUp(e) : e \in Own})
                \cup If(all /\ leftButtonHeld, {Left})
                \cup If(all /\ rightButtonHeld, {Right})
                \cup If(all, Clicked(taps)), {})
  BY DEF Lift
<1> DEFINE buttons == If(all /\ leftButtonHeld, {Left})
                         \cup If(all /\ rightButtonHeld, {Right})
                         \cup If(all, Clicked(taps))
           up == (UNION {ReleasedOnUp(e) : e \in Own}) \cup buttons
<1>2. /\ down' = down \ up
      /\ reloaded' = reloaded \ up /\ dropped' = dropped \ up
  <2>1. up = (UNION {ReleasedOnUp(e) : e \in Own})
                \cup If(all /\ leftButtonHeld, {Left})
                \cup If(all /\ rightButtonHeld, {Right})
                \cup If(all, Clicked(taps))
    OBVIOUS
  <2> HIDE DEF up
  <2>2. Send(up, {})
    BY <1>1, <2>1
  <2> QED
    BY <2>2, Sending
<1>3. /\ currentPointerId' = [e \in Elements |-> IF e \in Own THEN NULL
                                                 ELSE currentPointerId[e]]
      /\ pressed' = [e \in Elements |-> IF e \in Own THEN {} ELSE pressed[e]]
      /\ toggleActive' = toggleActive
      /\ leftButtonHeld' = (leftButtonHeld /\ ~all)
      /\ rightButtonHeld' = (rightButtonHeld /\ ~all)
      /\ abandoned' \subseteq Elements
  BY DEF Lift
<1>4. /\ leftButtonHeld => leftButtonHeld' \/ Left \in buttons
      /\ rightButtonHeld => rightButtonHeld' \/ Right \in buttons
  BY <1>3 DEF If, FlagsTyped
<1>5. buttons \subseteq {Left, Right}
  BY DEF If, Clicked
<1> HIDE DEF buttons, all
<1>6. \A e \in Elements \ Own : Claim(e)' = Claim(e)
  BY <1>3, ClaimSame
<1>7. \A e \in Own : /\ Claim(e) \subseteq Claim(e)' \cup ReleasedOnUp(e)
                     /\ ReleasedOnUp(e) \subseteq KeysOf(e)
                     /\ Claim(e)' \subseteq Claim(e)
                     /\ Claim(e)' \cap ReleasedOnUp(e) = {}
  <2> SUFFICES ASSUME NEW e \in Own
               PROVE  /\ Claim(e) \subseteq Claim(e)' \cup ReleasedOnUp(e)
                      /\ ReleasedOnUp(e) \subseteq KeysOf(e)
                      /\ Claim(e)' \subseteq Claim(e)
                      /\ Claim(e)' \cap ReleasedOnUp(e) = {}
    OBVIOUS
  <2>1. currentPointerId'[e] = NULL /\ pressed'[e] = {}
    BY <1>3
  <2>2. CASE Kind[e] = "BUTTON"
    <3>1. Claim(e)' = {} /\ ReleasedOnUp(e) = KeysOf(e)
      BY <2>1, <2>2 DEF Claim, ReleasedOnUp
    <3> QED
      BY <3>1, ClaimOwn
  <2>3. CASE Kind[e] = "TOGGLE"
    <3>1. Claim(e)' = Claim(e) /\ ReleasedOnUp(e) = {}
      BY <1>3, <2>3 DEF Claim, ReleasedOnUp, KeysOf
    <3> QED
      BY <3>1
  <2>4. CASE Kind[e] \in {"PAD", "RANGE_BUTTON"}
    <3>1. Claim(e)' = {}
      BY <2>1, <2>4 DEF Claim, KeysAt
    <3>2. Claim(e) = KeysAt(e, pressed[e])
          /\ ReleasedOnUp(e) = KeysAt(e, pressed[e])
      BY <2>4 DEF Claim, ReleasedOnUp
    <3> QED
      BY <3>1, <3>2, KeysAtOwn
  <2> QED
    BY <2>2, <2>3, <2>4 DEF Kinds
<1>8. KeysTyped'
  <2>1. /\ currentPointerId' \in [Elements -> Pointers \cup {NULL}]
        /\ pressed' \in [Elements -> SUBSET Int]
        /\ \A e \in Elements : pressed'[e] \subseteq Places(e)
    BY <1>3 DEF KeysTyped
  <2>2. toggleActive' \in [Elements -> BOOLEAN]
    BY <1>3 DEF KeysTyped
  <2> QED
    BY <1>2, <1>3, <2>1, <2>2 DEF KeysTyped, Places
<1>9. RestReleased'
  BY <1>3 DEF RestReleased
<1>10. AllAccounted'
  <2> SUFFICES ASSUME NEW k \in down' PROVE Accounted(k)'
    BY DEF AllAccounted
  <2>1. k \in down /\ k \notin up /\ Accounted(k)
    BY <1>2 DEF AllAccounted
  <2>2. CASE \E e \in Elements : k \in Claim(e)
    BY <1>6, <1>7, <2>1, <2>2 DEF Accounted
  <2>3. CASE k \in reloaded \cup dropped
    BY <1>2, <2>1, <2>3 DEF Accounted
  <2>4. CASE (leftButtonHeld /\ k = Left) \/ (rightButtonHeld /\ k = Right)
    BY <1>4, <2>1, <2>4 DEF Accounted
  <2> QED
    BY <2>1, <2>2, <2>3, <2>4 DEF Accounted
<1>11. HeldIsDown'
  <2> SUFFICES ASSUME NEW e \in Elements, NEW k \in Claim(e)',
                      k \notin {Left, Right}, OnlyOn(e, k)
               PROVE  k \in down'
    BY DEF HeldIsDown, OnlyOn, KeysOf
  <2>1. k \in Claim(e)
    BY <1>6, <1>7
  <2>2. k \in down
    BY <2>1 DEF HeldIsDown
  <2>3. \A f \in Own : k \notin ReleasedOnUp(f)
    BY <1>7, OnlyOnApart
  <2> QED
    BY <1>2, <1>5, <2>2, <2>3
<1> QED
  BY <1>8, <1>9, <1>10, <1>11

\* The elements let go or are thrown away: what stays pressed is recorded.
LEMMA AtRestKeepsKeys ==
    ASSUME KeysInv, ReleaseAllKeys \/ ReloadElements, UNCHANGED heldVars
    PROVE  KeysInv'
<1> USE KeysAssumption DEF KeysInv
<1>1. ElementsAtRest
  BY DEF ReleaseAllKeys, ReloadElements
<1>2. PICK up :
        /\ down' = down \ up
        /\ \A k : k \in reloaded' \cup dropped' <=>
                    /\ k \notin up
                    /\ \/ k \in reloaded \cup dropped
                       \/ k \in down /\ \E e \in Elements : k \in Claim(e)
  <2>1. \A k : k \in Claimed <=>
                 k \in down /\ \E e \in Elements : k \in Claim(e)
    BY DEF Claimed
  <2>2. CASE ReleaseAllKeys
    <3> DEFINE up == UNION {ReleasedByForce(e) : e \in Elements}
    <3>1. /\ down' = down \ up /\ reloaded' = reloaded \ up
          /\ dropped' = (dropped \cup Claimed) \ up
      BY <2>2 DEF ReleaseAllKeys
    <3> HIDE DEF up
    <3>3. \A k : k \in reloaded' \cup dropped' <=>
                   /\ k \notin up
                   /\ \/ k \in reloaded \cup dropped
                      \/ k \in down /\ \E e \in Elements : k \in Claim(e)
      BY <3>1, <2>1
    <3> QED
      BY <3>1, <3>3
  <2>3. CASE ReloadElements
    <3> DEFINE none == {}
    <3>1. /\ down' = down \ none /\ reloaded' = reloaded \cup Claimed
          /\ dropped' = dropped
      BY <2>3 DEF ReloadElements
    <3>3. \A k : k \in reloaded' \cup dropped' <=>
                   /\ k \notin none
                   /\ \/ k \in reloaded \cup dropped
                      \/ k \in down /\ \E e \in Elements : k \in Claim(e)
      BY <3>1, <2>1
    <3> HIDE DEF none
    <3> QED
      BY <3>1, <3>3
  <2> QED
    BY <2>2, <2>3
<1>3. abandoned' = {}
  BY <1>1 DEF ElementsAtRest
<1>4. KeysTyped'
  <2>1. /\ down' \in SUBSET Keys
        /\ reloaded' \in SUBSET Keys /\ dropped' \in SUBSET Keys
    BY <1>2, ClaimOwn, KeysOfType DEF KeysTyped
  <2>2. /\ currentPointerId' \in [Elements -> Pointers \cup {NULL}]
        /\ pressed' \in [Elements -> SUBSET Int]
        /\ \A e \in Elements : pressed'[e] \subseteq Places(e)
    BY <1>1 DEF ElementsAtRest
  <2>3. toggleActive' \in [Elements -> BOOLEAN]
    BY <1>1 DEF ElementsAtRest
  <2> QED
    BY <1>3, <2>1, <2>2, <2>3 DEF KeysTyped, Places
<1>5. RestReleased'
  BY <1>1 DEF RestReleased, ElementsAtRest
<1>6. HeldIsDown'
  BY <1>1, ClaimAtRest DEF HeldIsDown
<1>7. AllAccounted'
  <2> SUFFICES ASSUME NEW k \in down' PROVE Accounted(k)'
    BY DEF AllAccounted
  <2>1. k \in down /\ k \notin up /\ Accounted(k)
    BY <1>2 DEF AllAccounted
  <2> QED
    BY <1>2, <2>1 DEF Accounted, heldVars
<1> QED
  BY <1>4, <1>5, <1>6, <1>7

\* Neither elements nor what they claim change.
LEMMA SameClaims ==
    ASSUME UNCHANGED elementVars
    PROVE  \A e \in Elements : Claim(e)' = Claim(e)
  BY ClaimSame DEF elementVars

LEMMA HoldKeepsKeys == ASSUME KeysInv, Hold PROVE KeysInv'
<1> USE DEF KeysInv
<1>1. UNCHANGED elementVars
  BY DEF Hold
<1>2. PICK dn \in SUBSET {Left, Right} :
        /\ down' = down \cup dn
        /\ reloaded' = reloaded \ dn /\ dropped' = dropped \ dn
        /\ Left \in dn => leftButtonHeld' \/ (Right = Left /\ rightButtonHeld')
        /\ Right \in dn => rightButtonHeld' \/ (Right = Left /\ leftButtonHeld')
        /\ leftButtonHeld => leftButtonHeld'
        /\ rightButtonHeld => rightButtonHeld'
  <2>1. CASE Send({}, {Right}) /\ rightButtonHeld' = TRUE
             /\ leftButtonHeld' = leftButtonHeld
    BY <2>1 DEF Send
  <2>2. CASE Send({}, {Left}) /\ leftButtonHeld' = TRUE
             /\ rightButtonHeld' = rightButtonHeld
    BY <2>2 DEF Send
  <2>3. CASE UNCHANGED <<heldVars, keyVars>>
    BY <2>3 DEF heldVars, keyVars
  <2> QED
    BY <2>1, <2>2, <2>3 DEF Hold
<1>3. KeysTyped'
  BY <1>1, <1>2 DEF KeysTyped, elementVars, Keys, Places
<1>4. RestReleased' /\ HeldIsDown'
  BY <1>1, <1>2, SameClaims DEF RestReleased, HeldIsDown, OnlyOn, KeysOf, elementVars
<1>5. AllAccounted'
  <2> SUFFICES ASSUME NEW k \in down' PROVE Accounted(k)'
    BY DEF AllAccounted
  <2>1. CASE k \in dn
    BY <1>2, <2>1 DEF Accounted
  <2>2. CASE k \notin dn
    <3>1. k \in down /\ Accounted(k)
      BY <1>2, <2>2 DEF AllAccounted
    <3> QED
      BY <1>1, <1>2, <2>2, <3>1, SameClaims DEF Accounted
  <2> QED
    BY <2>1, <2>2
<1> QED
  BY <1>3, <1>4, <1>5

LEMMA SameKeys ==
    ASSUME KeysInv, UNCHANGED <<elementVars, heldVars, keyVars>> PROVE KeysInv'
<1>1. UNCHANGED elementVars
  OBVIOUS
<1> QED
  BY <1>1, SameClaims
     DEF KeysInv, KeysTyped, Places, RestReleased, AllAccounted, Accounted,
         HeldIsDown, OnlyOn, KeysOf, elementVars, heldVars, keyVars

-----------------------------------------------------------------------------
(* The fingers.                                                            *)

LEMMA FreeFinite ==
    ASSUME FingersTyped
    PROVE  /\ IsFiniteSet(Free) /\ Cardinality(Free) \in Nat
           /\ Cardinality(Free) = 0 <=> Free = {}
<1>1. Free \in SUBSET Pointers
  BY DEF Free
<1>2. IsFiniteSet(Free)
  BY <1>1, KeysAssumption, FS_Subset
<1> QED
  BY <1>2, FS_CardinalityType, FS_EmptySet

LEMMA DownKeepsFingers ==
    ASSUME FingersInv, NEW p \in Pointers, NEW e \in Elements \cup {NULL},
           Down(p, e)
    PROVE  FingersInv'
<1> USE KeysAssumption DEF FingersInv
<1>1. /\ p \notin touching /\ touching' = touching \cup {p}
      /\ UNCHANGED <<touchGestures, leftButtonHeld, rightButtonHeld, tapCount>>
  BY DEF Down, heldVars
<1>2. pointerOnElement[p] = "none"
  BY <1>1 DEF PointersAgree
<1>3. GestureOver'
  BY <1>1 DEF GestureOver
<1>4. CASE e # NULL /\ UNCHANGED <<freePointerCount, mousePointerId,
                                   holdDetector, twoFingerScrollActive>>
           /\ pointerOnElement' = [pointerOnElement EXCEPT ![p] = "element"]
  <2>1. FingersTyped'
    BY <1>1, <1>4 DEF FingersTyped
  <2>2. FlagsTyped'
    BY <1>1, <1>4 DEF FlagsTyped
  <2>3. Free' = Free
    BY <1>2, <1>4 DEF Free, FingersTyped
  <2>4. touching' = {q \in Pointers : pointerOnElement'[q] # "none"}
    BY <1>1, <1>4 DEF FingersTyped, PointersAgree
  <2>5. PointersAgree'
    BY <1>4, <2>3, <2>4 DEF PointersAgree
  <2> QED
    BY <1>3, <2>1, <2>2, <2>5
<1>5. CASE /\ pointerOnElement' = [pointerOnElement EXCEPT ![p] = "free"]
           /\ freePointerCount' = freePointerCount + 1
           /\ mousePointerId' = IF mousePointerId = NULL THEN p
                                                         ELSE mousePointerId
           /\ holdDetector' = (holdDetector \/ freePointerCount' \in {1, 2})
           /\ twoFingerScrollActive' =
                 (twoFingerScrollActive /\ freePointerCount' # 2)
  <2>1. FingersTyped'
    BY <1>1, <1>5 DEF FingersTyped
  <2>2. FlagsTyped'
    BY <1>1, <1>5 DEF FlagsTyped
  <2>3. Free' = Free \cup {p} /\ p \notin Free
    BY <1>2, <1>5 DEF Free, FingersTyped
  <2>4. freePointerCount' = Cardinality(Free')
    BY <1>5, <2>3, FreeFinite, FS_AddElement DEF PointersAgree
  <2>5. touching' = {q \in Pointers : pointerOnElement'[q] # "none"}
    BY <1>1, <1>5 DEF FingersTyped, PointersAgree
  <2>6. PointersAgree'
    BY <1>5, <2>3, <2>4, <2>5 DEF PointersAgree
  <2> QED
    BY <1>3, <2>1, <2>2, <2>6
<1> QED
  BY <1>4, <1>5 DEF Down

LEMMA MoveKeepsFingers ==
    ASSUME FingersInv, NEW p \in Pointers, Move(p) PROVE FingersInv'
<1> USE DEF FingersInv
<1>1. /\ p \in touching /\ freePointerCount' = Cardinality(Free)
      /\ UNCHANGED <<touchGestures, touching, pointerOnElement,
                     mousePointerId, tapCount, leftButtonHeld,
                     rightButtonHeld>>
  BY DEF Move, heldVars
<1>2. /\ holdDetector' \in {holdDetector, FALSE}
      /\ twoFingerScrollActive' \in {twoFingerScrollActive, TRUE}
  BY DEF Move
<1>3. Free' = Free
  BY <1>1 DEF Free
<1>4. FingersTyped'
  BY <1>1, FreeFinite DEF FingersTyped
<1>5. FlagsTyped'
  BY <1>1, <1>2 DEF FlagsTyped
<1>6. PointersAgree'
  BY <1>1, <1>3 DEF PointersAgree
<1>7. GestureOver'
  BY <1>1 DEF GestureOver
<1> QED
  BY <1>4, <1>5, <1>6, <1>7

\* A lifted finger: the count follows the entries, and what remains of the
\* gesture, if anything, has a finger on the view.
LEMMA LiftKeepsFingers ==
    ASSUME FingersInv, NEW p \in touching,
           \/ /\ touching' = touching \ {p} /\ Lift(p, touching' = {})
           \/ touching' = {} /\ Lift(p, TRUE)
    PROVE  /\ FingersInv'
           /\ \A q \in touching' : q # p /\ pointerOnElement'[q] = pointerOnElement[q]
<1> USE KeysAssumption DEF FingersInv
<1> DEFINE on == [pointerOnElement EXCEPT ![p] = "none"]
           last == touching' = {}
           all == AllPointersReleased(last, FreeAfterUp(p), on)
<1>1. Lift(p, last)
  OBVIOUS
<1>2. /\ freePointerCount' = IF all THEN 0 ELSE FreeAfterUp(p)
      /\ pointerOnElement' = IF all THEN [q \in Pointers |-> "none"] ELSE on
      /\ mousePointerId' = IF all \/ mousePointerId = p THEN NULL
                                                        ELSE mousePointerId
      /\ twoFingerScrollActive' = (twoFingerScrollActive /\ ~all)
      /\ leftButtonHeld' = (leftButtonHeld /\ ~all)
      /\ rightButtonHeld' = (rightButtonHeld /\ ~all)
      /\ holdDetector' = FALSE
      /\ touchGestures' = touchGestures
  BY <1>1 DEF Lift
<1>3. tapCount' \in 0..2
  <2>1. PICK taps \in {tapCount} \cup {tapCount + 1} :
          tapCount' = (IF all THEN 0 ELSE taps)
          /\ (taps = tapCount \/ tapCount < 2)
    BY <1>1 DEF Lift, If
  <2> QED
    BY <2>1 DEF FingersTyped
<1>4. p \in Pointers /\ pointerOnElement[p] \in {"free", "element"}
  BY DEF FingersTyped, PointersAgree
<1>5. on \in [Pointers -> {"none", "free", "element"}]
      /\ touching \ {p} = {q \in Pointers : on[q] # "none"}
  BY <1>4 DEF FingersTyped, PointersAgree
<1>6. FreeAfterUp(p) = Cardinality(Free \ {p}) /\ FreeAfterUp(p) \in Nat
  <2>1. CASE pointerOnElement[p] = "element"
    <3>1. Free \ {p} = Free
      BY <2>1 DEF Free
    <3> QED
      BY <2>1, <3>1 DEF FreeAfterUp, PointersAgree, FingersTyped
  <2>2. CASE pointerOnElement[p] = "free"
    <3>1. p \in Free /\ Free # {}
      BY <1>4, <2>2 DEF Free
    <3>2. Cardinality(Free \ {p}) = Cardinality(Free) - 1
      BY <3>1, FreeFinite, FS_RemoveElement
    <3>3. freePointerCount # 0
      BY <3>1, FreeFinite DEF PointersAgree
    <3> QED
      BY <2>2, <3>2, <3>3 DEF FreeAfterUp, PointersAgree, FingersTyped
  <2> QED
    BY <1>4, <2>1, <2>2
<1>7. all <=> touching' = {}
  <2>1. CASE touching' = touching \ {p}
    BY <1>5, <2>1 DEF AllPointersReleased
  <2>2. CASE touching' = {}
    BY <2>2 DEF AllPointersReleased
  <2> QED
    BY <2>1, <2>2
<1> HIDE DEF all, on, last
<1>8. CASE touching' = {}
  <2>1. /\ freePointerCount' = 0 /\ mousePointerId' = NULL
        /\ pointerOnElement' = [q \in Pointers |-> "none"]
    BY <1>2, <1>7, <1>8
  <2>2. FingersTyped'
    BY <1>3, <1>8, <2>1 DEF FingersTyped
  <2>3. FlagsTyped' /\ GestureOver'
    BY <1>2, <1>7, <1>8 DEF FlagsTyped, GestureOver
  <2>4. Free' = {}
    BY <2>1 DEF Free
  <2>5. PointersAgree'
    BY <1>8, <2>1, <2>4, FS_EmptySet DEF PointersAgree
  <2> QED
    BY <1>8, <2>2, <2>3, <2>5
<1>9. CASE touching' # {}
  <2>1. /\ touching' = touching \ {p}
        /\ freePointerCount' = FreeAfterUp(p) /\ pointerOnElement' = on
        /\ mousePointerId' = IF mousePointerId = p THEN NULL
                                                   ELSE mousePointerId
    BY <1>2, <1>7, <1>9
  <2>2. FingersTyped'
    BY <1>3, <1>5, <1>6, <2>1 DEF FingersTyped
  <2>3. FlagsTyped' /\ GestureOver'
    BY <1>2, <1>9 DEF FlagsTyped, GestureOver
  <2>4. Free' = Free \ {p}
    BY <1>4, <2>1 DEF Free, on, FingersTyped
  <2>5. PointersAgree'
    BY <1>5, <1>6, <2>1, <2>4 DEF PointersAgree
  <2>6. \A q \in touching' : q # p /\ pointerOnElement'[q] = pointerOnElement[q]
    BY <2>1 DEF on, FingersTyped
  <2> QED
    BY <2>2, <2>3, <2>5, <2>6
<1> QED
  BY <1>8, <1>9

\* The hold detector runs only while a finger is on the view.
LEMMA HoldKeepsFingers == ASSUME FingersInv, Hold PROVE FingersInv'
<1> USE DEF FingersInv
<1>1. UNCHANGED <<touchGestures, fingerVars>> /\ holdDetector' = FALSE
      /\ holdDetector
  BY DEF Hold
<1>2. touching # {}
  BY <1>1 DEF GestureOver
<1>3. FingersTyped' /\ PointersAgree'
  BY <1>1 DEF FingersTyped, PointersAgree, Free, fingerVars
<1>4. leftButtonHeld' \in BOOLEAN /\ rightButtonHeld' \in BOOLEAN
  BY DEF Hold, FlagsTyped, heldVars
<1>5. FlagsTyped'
  BY <1>1, <1>4 DEF FlagsTyped, fingerVars
<1>6. GestureOver'
  BY <1>1, <1>2 DEF GestureOver, fingerVars
<1> QED
  BY <1>3, <1>5, <1>6

LEMMA SameFingers ==
    ASSUME FingersInv, UNCHANGED <<fingerVars, heldVars, holdDetector>>,
           touchGestures' \in {touchGestures, ~touchGestures}
    PROVE  FingersInv'
<1>1. FlagsTyped'
  BY DEF FingersInv, FlagsTyped, fingerVars, heldVars
<1>2. FingersTyped' /\ PointersAgree' /\ GestureOver'
  BY DEF FingersInv, FingersTyped, PointersAgree, GestureOver, Free,
         fingerVars, heldVars
<1> QED
  BY <1>1, <1>2 DEF FingersInv

-----------------------------------------------------------------------------
(* Which fingers the elements follow.                                      *)

\* A new finger, whose id an abandoned element may still follow.
LEMMA DownKeepsKnown ==
    ASSUME IInv, NEW p \in Pointers, NEW e \in Elements \cup {NULL}, Down(p, e)
    PROVE  FingersKnown'
<1> SUFFICES ASSUME NEW f \in Elements, currentPointerId'[f] # NULL,
                    f \notin abandoned'
             PROVE  HasFinger(f)'
  BY DEF FingersKnown
<1>1. /\ p \notin touching /\ touching' = touching \cup {p}
      /\ abandoned' = abandoned
      /\ \A q \in touching : pointerOnElement'[q] = pointerOnElement[q]
  BY DEF Down, ElementDown, elementVars, IInv, FingersInv, FingersTyped
<1>2. CASE currentPointerId'[f] = currentPointerId[f]
  BY <1>1, <1>2 DEF IInv, FingersKnown, HasFinger
<1>3. CASE currentPointerId'[f] # currentPointerId[f]
  <2>1. /\ currentPointerId' = [currentPointerId EXCEPT ![e] = p]
        /\ pointerOnElement' = [pointerOnElement EXCEPT ![p] = "element"]
    BY <1>3 DEF Down, ElementDown, elementVars
  <2>2. currentPointerId'[f] = p /\ pointerOnElement'[p] = "element"
    BY <1>3, <2>1 DEF IInv, KeysInv, KeysTyped, FingersInv, FingersTyped
  <2> QED
    BY <1>1, <2>2 DEF HasFinger
<1> QED
  BY <1>2, <1>3

\* A finger that leaves tells its elements; one that a cancelled gesture takes
\* away leaves them abandoned.
LEMMA LiftKeepsKnown ==
    ASSUME IInv, NEW p \in touching, Lift(p, touching' = {}),
           \A q \in touching' : q # p /\ pointerOnElement'[q] = pointerOnElement[q]
    PROVE  FingersKnown'
<1> SUFFICES ASSUME NEW f \in Elements, currentPointerId'[f] # NULL,
                    f \notin abandoned'
             PROVE  HasFinger(f)'
  BY DEF FingersKnown
<1>1. /\ currentPointerId[f] # p /\ currentPointerId'[f] = currentPointerId[f]
      /\ f \notin abandoned /\ currentPointerId[f] \in touching'
  BY DEF Lift
<1> QED
  BY <1>1 DEF IInv, FingersKnown, HasFinger

LEMMA SameKnown ==
    ASSUME FingersKnown, UNCHANGED <<currentPointerId, abandoned, touching,
                                     pointerOnElement>>
    PROVE  FingersKnown'
  BY DEF FingersKnown, HasFinger

-----------------------------------------------------------------------------
LEMMA NextKeepsIInv == IInv /\ [Next]_vars => IInv'
<1> SUFFICES ASSUME IInv, [Next]_vars PROVE IInv'
  OBVIOUS
<1> USE DEF IInv
<1>1. ASSUME NEW p \in Pointers, Move(p) PROVE IInv'
  <2>1. ElementsMove(p) /\ UNCHANGED heldVars
    BY <1>1 DEF Move
  <2>2. FingersKnown'
    BY <1>1, <2>1, SameKnown DEF Move, ElementsMove
  <2> QED
    BY <1>1, <2>1, <2>2, ElementsMoveKeepsKeys, MoveKeepsFingers DEF FingersInv
<1>2. ASSUME NEW p \in Pointers, Up(p) \/ Cancel(p) PROVE IInv'
  <2>1. /\ p \in touching
        /\ \/ touching' = touching \ {p} /\ Lift(p, touching' = {})
           \/ touching' = {} /\ Lift(p, TRUE)
    BY <1>2 DEF Up, Cancel
  <2>2. Lift(p, touching' = {}) /\ (touching' = {}) \in BOOLEAN
    BY <2>1
  <2>3. KeysInv'
    BY <2>2, LiftKeepsKeys DEF FingersInv
  <2>4. /\ FingersInv'
        /\ \A q \in touching' : q # p /\ pointerOnElement'[q] = pointerOnElement[q]
    BY <2>1, LiftKeepsFingers
  <2>5. FingersKnown'
    BY <2>1, <2>2, <2>4, LiftKeepsKnown
  <2> QED
    BY <2>3, <2>4, <2>5
<1>3. ASSUME NEW p \in Pointers, NEW e \in Elements \cup {NULL}, Down(p, e)
      PROVE  IInv'
  <2>1. FingersInv' /\ FingersKnown'
    BY <1>3, DownKeepsFingers, DownKeepsKnown
  <2>2. UNCHANGED heldVars
    BY <1>3 DEF Down
  <2>3. CASE e # NULL /\ ElementDown(e, p)
    BY <2>1, <2>2, <2>3, ElementDownKeepsKeys
  <2>4. CASE UNCHANGED <<elementVars, keyVars>>
    BY <2>1, <2>2, <2>4, SameKeys
  <2> QED
    BY <1>3, <2>3, <2>4 DEF Down
<1>4. CASE Hold
  <2>1. FingersKnown'
    BY <1>4, SameKnown DEF Hold, elementVars, fingerVars
  <2> QED
    BY <1>4, <2>1, HoldKeepsKeys, HoldKeepsFingers
<1>5. CASE Show \/ Hide \/ Resize \/ Pause
  <2>1. /\ ReleaseAllKeys \/ ReloadElements
        /\ UNCHANGED <<touchGestures, fingerVars, heldVars, holdDetector>>
    BY <1>5 DEF Show, Hide, Resize, Pause
  <2>2. FingersKnown'
    BY <2>1 DEF ReleaseAllKeys, ReloadElements, ElementsAtRest, FingersKnown
  <2> QED
    BY <2>1, <2>2, AtRestKeepsKeys, SameFingers
<1>6. CASE SetTouchGestures
  BY <1>6, SameKeys, SameFingers, SameKnown
     DEF SetTouchGestures, elementVars, fingerVars
<1>7. CASE UNCHANGED vars
  BY <1>7, SameKeys, SameFingers, SameKnown DEF vars, elementVars, fingerVars
<1> QED
  BY <1>1, <1>2, <1>3, <1>4, <1>5, <1>6, <1>7 DEF Next

LEMMA Invariance == Spec => []IInv
  BY InitIInv, NextKeepsIInv, PTL DEF Spec

\* Every state has the types of its variables; in particular every place a
\* range button has activated is one of its range, however far it is scrolled.
THEOREM TypesOfKeys == Spec => []TypeOK
<1>1. IInv => TypeOK
  BY Typed DEF IInv, KeysInv, FingersInv
<1> QED
  BY Invariance, <1>1, PTL

\* In every profile, whatever the fingers and the activity do, what the server
\* takes for pressed is a switch that is on, an element with its finger on it or
\* a held mouse button, or is due to one of the three lapses of the code: a
\* cancelled gesture, a reload, a dropped scroller.
THEOREM NoKeySticks == Spec => []NothingStuck
<1>1. IInv => NothingStuck
  <2> SUFFICES ASSUME IInv, NEW k \in down
               PROVE  \/ \E e \in Elements :
                            /\ Kind[e] = "TOGGLE" \/ HasFinger(e) \/ e \in abandoned
                            /\ k \in Claim(e)
                      \/ k \in reloaded \cup dropped
                      \/ leftButtonHeld /\ k = Left
                      \/ rightButtonHeld /\ k = Right
    BY DEF NothingStuck, If
  <2>1. ASSUME NEW e \in Elements, k \in Claim(e)
        PROVE  Kind[e] = "TOGGLE" \/ HasFinger(e) \/ e \in abandoned
    <3> SUFFICES ASSUME currentPointerId[e] = NULL, Kind[e] # "TOGGLE"
                 PROVE  FALSE
      BY DEF IInv, FingersKnown
    <3>1. pressed[e] = {}
      BY DEF IInv, KeysInv, RestReleased
    <3>2. Kind[e] \in Kinds
      BY KeysAssumption
    <3> QED
      BY <2>1, <3>1, <3>2 DEF Claim, KeysAt, Kinds
  <2> QED
    BY <2>1 DEF IInv, KeysInv, AllAccounted, Accounted
<1> QED
  BY Invariance, <1>1, PTL

\* What an element shows as pressed or switched on is pressed in the server, if
\* it is at no other place of the profile: what the elements of other fingers
\* send, and what cancelled gestures and reloads leave behind, never releases it.
THEOREM ShownIsPressed == Spec => []HeldIsDown
<1>1. IInv => HeldIsDown
  BY DEF IInv, KeysInv
<1> QED
  BY Invariance, <1>1, PTL

\* The count of free fingers, kept by increments in onTouchEvent, agrees with
\* the entries of the fingers for any number of them.
THEOREM CountsAgree == Spec => []PointersAgree
<1>1. IInv => PointersAgree
  BY DEF IInv, FingersInv
<1> QED
  BY Invariance, <1>1, PTL

\* No mouse button is held, and no hold detector posted, once the last finger
\* has left the view.
THEOREM NothingOutlivesGesture == Spec => []GestureOver
<1>1. IInv => GestureOver
  BY DEF IInv, FingersInv
<1> QED
  BY Invariance, <1>1, PTL
=============================================================================
