------------------------------- MODULE Keymap -------------------------------
(***************************************************************************)
(* How the X server turns characters into key events (InputXKB.c).         *)
(*                                                                         *)
(* A character (EVENT_UNICODE) is typed by pressing and releasing a key    *)
(* that gives its keysym, with Shift and the level three modifier pressed  *)
(* or released around it as needed; a keysym that no key gives is put on a *)
(* spare keycode first.  Physical keys (EVENT_KEY) only enter the event    *)
(* queue.  Both cases run on the input thread, under the input lock; X     *)
(* clients change the map on the main thread meanwhile.                    *)
(***************************************************************************)
EXTENDS Integers, Sequences, SequencesExt, FiniteSets

CONSTANTS
  Keys,        \* keycodes, positive numbers
  fakeKeys,    \* keycodes no real keyboard sends
  BaseMap,     \* the map a client loads: Keys -> key records
  KeyType,     \* key types by name: modifiers, shift levels, preserved modifiers
  altKeysym,   \* pairs of keysyms with the same meaning
  Upper,       \* XkbConvertCase, as two functions on keysyms
  Lower,
  Typed,       \* keysyms the activity asks for
  PhysKeys,    \* keys of the physical keyboard
  MaxHeld,     \* bound: physical keys held at a time
  MaxQueue,    \* bound: events waiting in the queue
  MaxChanges   \* bound: changes of the map by clients

NoSymbol == "NoSymbol"
Mods == {"Shift", "Lock", "Num", "Level3"}
NoAction == [kind |-> "none", mods |-> {}, useModMap |-> FALSE]

ASSUME KeymapAssumption ==
  /\ Keys \subseteq Nat \ {0} /\ IsFiniteSet(Keys)
  /\ fakeKeys \subseteq Keys /\ PhysKeys \subseteq Keys
  /\ NoSymbol \notin Typed
  /\ DOMAIN BaseMap = Keys
  /\ \A k \in Keys : BaseMap[k].groups = <<>> => k \notin PhysKeys

VARIABLES
  map,         \* xkbInfo->desc: what each keycode means
  kbd,         \* keys down with the modifiers they set, locked modifiers, group
  queue,       \* key events not processed yet (mieq)
  pressedKeys, \* the keysym for which a keycode was pressed
  addedKeysyms,\* keysyms put on spare keycodes, most recently used first
  typing,      \* the keysym between its press and its release, or NoSymbol
  held,        \* physical keys the user holds
  got,         \* history: the keysym a client sees for the one being typed
  used,        \* history: pairs of spare keycodes in use, the first used no earlier
  reloads,     \* maps loaded by clients so far
  taken        \* keys mapped by clients so far

vars == <<map, kbd, queue, pressedKeys, addedKeysyms, typing, held, got, used, reloads, taken>>

-----------------------------------------------------------------------------
(* Reading the map. *)

KeyDown(k) == [press |-> TRUE, key |-> k]
KeyUp(k) == [press |-> FALSE, key |-> k]

\* The group a key uses in the given group state.
XkbKeyEffectiveGroup(rec, group) ==
  LET n == Len(rec.groups)
  IN  CASE group < n -> group
        [] group >= n /\ rec.oor = "wrap" -> group % n
        [] group >= n /\ rec.oor = "clamp" -> n - 1
        [] group >= n /\ rec.oor = "redirect" -> IF rec.to < n THEN rec.to ELSE 0

GroupOf(rec, st) == rec.groups[XkbKeyEffectiveGroup(rec, st.group) + 1]

\* The shift level that the modifiers select in a key type.
Level(type, mods) ==
  LET relevant == mods \cap type.mods
  IN  IF relevant \in DOMAIN type.levels THEN type.levels[relevant] ELSE 1

Preserved(type, mods) ==
  LET relevant == mods \cap type.mods
  IN  IF relevant \in DOMAIN type.preserve THEN type.preserve[relevant] ELSE {}

\* The keysym of a key, and the modifiers that may have been consumed.
XkbTranslateKeyCode(rec, st) ==
  IF rec.groups = <<>>
  THEN [sym |-> NoSymbol, mods |-> {}]
  ELSE LET g == GroupOf(rec, st)
           type == KeyType[g.type]
       IN  [sym |-> g.syms[Level(type, st.mods)], mods |-> type.mods \ Preserved(type, st.mods)]

XkbKeyActionPtr(rec, st) ==
  IF rec.groups = <<>>
  THEN NoAction
  ELSE LET g == GroupOf(rec, st) IN g.acts[Level(KeyType[g.type], st.mods)]

ActionMods(rec, act) == IF act.useModMap THEN rec.modmap ELSE act.mods

\* The modifiers a key would set when pressed.
SetsMods(rec, st) ==
  LET act == XkbKeyActionPtr(rec, st)
  IN  IF act.kind = "set" THEN ActionMods(rec, act) ELSE {}

\* The keysym with an unconsumed Lock applied, as Xlib applies it too.
WithLock(t, st) ==
  IF t.sym # NoSymbol /\ "Lock" \in st.mods \ t.mods THEN Upper[t.sym] ELSE t.sym
Symbol(rec, st) == WithLock(XkbTranslateKeyCode(rec, st), st)

lorieGetKeyboardState(kb) ==
  [mods |-> kb.locked \cup UNION Range(kb.down), group |-> kb.group]

FirstKey(ks) == IF ks = {} THEN 0 ELSE Min(ks)
FirstOf(key, other) == IF key # 0 THEN key ELSE other

\* The first key that gives the keysym in this state; fake keys come last.
RealFirst(ks) == FirstOf(FirstKey(ks \ fakeKeys), FirstKey(ks))
KeyFor(m, sym, st) == RealFirst({k \in Keys : Symbol(m[k], st) = sym})

LevelThreeKey(m, st) == FirstOf(KeyFor(m, "ISO_Level3_Shift", st), KeyFor(m, "Mode_switch", st))

Bare(st) == [st EXCEPT !.mods = {}]

lorieGetLevelThreeMask(m, st) ==
  UNION {SetsMods(m[k], Bare(st)) : k \in {LevelThreeKey(m, Bare(st))} \ {0}}

Toggle(st, mask) ==
  [st EXCEPT !.mods = IF @ \cap mask = {} THEN @ \cup mask ELSE @ \ mask]

\* The states in which a key is looked for, in this order: as things are, with
\* Shift toggled, with level three toggled, with both.
StatesTried(st, l3) ==
  LET shift == Toggle(st, {"Shift"})
  IN  IF l3 = {} THEN <<st, shift>> ELSE <<st, shift, Toggle(st, l3), Toggle(shift, l3)>>

FirstHit(hits) ==
  IF \E i \in DOMAIN hits : hits[i].key # 0
  THEN hits[CHOOSE i \in DOMAIN hits : hits[i].key # 0 /\ \A j \in 1..(i - 1) : hits[j].key = 0]
  ELSE Last(hits)

\* A key and the first of these states in which it gives the keysym.
Hits(m, sym, states) == [i \in DOMAIN states |-> [key |-> KeyFor(m, sym, states[i]), state |-> states[i]]]
lorieKeysymToKeycode(m, sym, st) ==
  FirstHit(Hits(m, sym, StatesTried(st, lorieGetLevelThreeMask(m, st))))

Alternatives(sym) ==
  {b \in {p[2] : p \in altKeysym} : <<sym, b>> \in altKeysym}
    \cup {a \in {p[1] : p \in altKeysym} : <<a, sym>> \in altKeysym}

\* The keysym itself, or else one with the same meaning.
AnyOf(others, r) == IF others = {} THEN r ELSE CHOOSE x \in others : TRUE
AlternativeKeys(m, sym, st) ==
  {r \in {lorieKeysymToKeycode(m, a, st) : a \in Alternatives(sym)} : r.key # 0}
OrAlternative(r, m, sym, st) == IF r.key # 0 THEN r ELSE AnyOf(AlternativeKeys(m, sym, st), r)
FindKey(m, sym, st) == OrAlternative(lorieKeysymToKeycode(m, sym, st), m, sym, st)

\* Does NumLock change what this key gives?  (The modifier map is read at the
\* key itself and not at the Num_Lock key, as in the code.)
lorieIsAffectedByNumLock(m, key, st) ==
  \E numlock \in {KeyFor(m, "Num_Lock", Bare(st))} \ {0} :
    LET act == XkbKeyActionPtr(m[numlock], Bare(st))
        mask == IF act.useModMap THEN m[key].modmap ELSE act.mods
    IN  act.kind = "lock" /\ KeyType[GroupOf(m[key], Bare(st)).type].mods \cap mask # {}

\* A fake Shift on a key that NumLock changes, which some programs misread.
ShiftsNumpad(m, st, r) ==
  /\ "Shift" \in (st.mods \ r.state.mods) \cup (r.state.mods \ st.mods)
  /\ lorieIsAffectedByNumLock(m, r.key, st)

AvoidFakeShift(m, sym, st, r) ==
  IF ShiftsNumpad(m, st, r)
  THEN AnyOf({x \in AlternativeKeys(m, sym, st) : ~ShiftsNumpad(m, st, x)}, r)
  ELSE r

\* Shift and Tab together must stay so, whatever keysym that gives.
KeepShiftTab(sym, st, r) ==
  IF sym = "Tab" /\ "Shift" \in st.mods
  THEN [r EXCEPT !.state.mods = @ \cup {"Shift"}]
  ELSE r

-----------------------------------------------------------------------------
(* Spare keycodes. *)

\* What a keycode means after a keysym was put on it; "named" stands for the
\* key name that begins with T.
AddedKey(sym) ==
  [groups |-> <<[type |-> "ALPHABETIC", syms |-> <<Lower[sym], Upper[sym]>>,
                 acts |-> <<NoAction, NoAction>>]>>,
   oor |-> "wrap", to |-> 0, modmap |-> {}, named |-> TRUE]

Unused(m) == {k \in Keys : m[k].groups = <<>>}

\* Nobody else has changed the key since its keysym was added.
Unmodified(m, item) ==
  /\ m[item.key].groups # <<>>
  /\ m[item.key].groups[1].syms[1] = item.sym
  /\ m[item.key].named

\* The oldest usable item goes, and every unusable one behind it.
getReusableKeycode(m, added) ==
  LET usable == {i \in DOMAIN added : Unmodified(m, added[i])}
  IN  IF usable = {} THEN [key |-> 0, rest |-> <<>>]
      ELSE [key |-> added[Max(usable)].key, rest |-> SubSeq(added, 1, Max(usable) - 1)]

\* Mutant: the keysym asked for is saved, which is not always the first one.
SavedAsAsked(sym) == sym
\* Mutant: the item keeps its place.
NotMoved(added, key) == added

SavedKeysym(sym) == Lower[sym]

lorieAddKeysym(m, added, sym) ==
  LET r == IF Unused(m) # {} THEN [key |-> Max(Unused(m)), rest |-> added]
           ELSE getReusableKeycode(m, added)
  IN  IF r.key = 0 THEN [map |-> m, added |-> r.rest]
      ELSE [map |-> [m EXCEPT ![r.key] = AddedKey(sym)],
            added |-> <<[key |-> r.key, sym |-> SavedKeysym(sym)]>> \o r.rest]

\* The key's item moves to the front of the list.
vncOnKeyUsed(added, key) ==
  LET at == {i \in DOMAIN added : added[i].key = key}
  IN  IF at = {} THEN added
      ELSE <<added[Min(at)]>> \o RemoveAt(added, Min(at))

-----------------------------------------------------------------------------
(* The server's side of the event queue (external: dix and XKB). *)

ProcessPress(m, kb, k) ==
  LET st == lorieGetKeyboardState(kb)
      act == XkbKeyActionPtr(m[k], st)
      mask == ActionMods(m[k], act)
  IN  IF k \in DOMAIN kb.down THEN kb
      ELSE [down |-> [x \in DOMAIN kb.down \cup {k} |-> IF x = k THEN SetsMods(m[k], st) ELSE kb.down[x]],
            locked |-> IF act.kind = "lock" THEN (kb.locked \ mask) \cup (mask \ kb.locked)
                       ELSE kb.locked,
            group |-> IF act.kind = "group" THEN 1 - kb.group ELSE kb.group]

ProcessRelease(kb, k) == [kb EXCEPT !.down = [x \in DOMAIN @ \ {k} |-> @[x]]]

Process(m, kb, e) == IF e.press THEN ProcessPress(m, kb, e.key) ELSE ProcessRelease(kb, e.key)

mieqProcessInputEvents(m, kb, events) ==
  LET after[i \in 0..Len(events)] == IF i = 0 THEN kb ELSE Process(m, after[i - 1], events[i])
  IN  after[Len(events)]

-----------------------------------------------------------------------------
(* Fake modifiers: what to send before the key, what to send after it. *)

NoFake == [ok |-> TRUE, before |-> <<>>, after |-> <<>>]
FakeFails == [ok |-> FALSE, before |-> <<>>, after |-> <<>>]
InOrder(ks) == CHOOSE s \in [1..Cardinality(ks) -> ks] : \A i, j \in DOMAIN s : i < j => s[i] < s[j]
Events(ks, down) == [i \in 1..Cardinality(ks) |-> [press |-> down, key |-> InOrder(ks)[i]]]
FakePress(key) ==
  IF key = 0 THEN FakeFails ELSE [ok |-> TRUE, before |-> <<KeyDown(key)>>, after |-> <<KeyUp(key)>>]
FakeRelease(ks) ==
  IF ks = {} THEN FakeFails ELSE [ok |-> TRUE, before |-> Events(ks, FALSE), after |-> Events(ks, TRUE)]

loriePressShift(m, st) == FirstKey({k \in Keys : "Shift" \in SetsMods(m[k], st)})

\* The keys that hold the modifier down.  At most eight are released.
HoldingKeys(m, kb, mask) ==
  LET ks == {k \in DOMAIN kb.down : SetsMods(m[k], lorieGetKeyboardState(kb)) \cap mask # {}}
  IN  IF Cardinality(ks) > 8 THEN {} ELSE ks

loriePressLevelThree(m, st) ==
  FirstKey({k \in {LevelThreeKey(m, st)} \ {0} : XkbKeyActionPtr(m[k], st).kind = "set"})

lorieReleaseShift(m, kb) == HoldingKeys(m, kb, {"Shift"})
lorieReleaseLevelThree(m, kb, l3) == HoldingKeys(m, kb, l3)

FakeShift(m, kb, st, new) ==
  CASE "Shift" \in new.mods \ st.mods -> FakePress(loriePressShift(m, st))
    [] "Shift" \in st.mods \ new.mods -> FakeRelease(lorieReleaseShift(m, kb))
    [] OTHER -> NoFake

FakeLevelThree(m, kb, st, new) ==
  LET l3 == IF new.mods \ {"Shift"} # st.mods \ {"Shift"}
            THEN lorieGetLevelThreeMask(m, st) ELSE {}
  IN  CASE st.mods \cap l3 = {} /\ new.mods \cap l3 # {} -> FakePress(loriePressLevelThree(m, st))
        [] st.mods \cap l3 # {} /\ new.mods \cap l3 = {} -> FakeRelease(lorieReleaseLevelThree(m, kb, l3))
        [] OTHER -> NoFake

UndoFakes(shift, l3) == l3.after \o shift.after

-----------------------------------------------------------------------------
Init ==
  /\ map = BaseMap
  /\ kbd = [down |-> <<>>, locked |-> {}, group |-> 0]
  /\ queue = <<>> /\ pressedKeys = [k \in Keys |-> NoSymbol]
  /\ addedKeysyms = <<>> /\ typing = NoSymbol /\ held = {}
  /\ got = NoSymbol /\ used = {} /\ reloads = 0 /\ taken = 0

\* Mutant: the modifiers are looked at before the queue is processed.
TypingAtOnce == kbd

\* What is in the queue is processed before the modifiers are looked at.
BeforeTyping == mieqProcessInputEvents(map, kbd, queue)

\* The key, its state and the map to type sym with: key 0 if there is none.
\* The given key is used if there is one, and the keysym is added otherwise.
Chosen(m, added, sym, st, r) ==
  [map |-> m, added |-> added,
   hit |-> IF r.key = 0 THEN r ELSE KeepShiftTab(sym, st, AvoidFakeShift(m, sym, st, r))]
ChosenAfterAdding(add, sym, st) ==
  Chosen(add.map, add.added, sym, st, lorieKeysymToKeycode(add.map, sym, st))
KeyOrAdd(m, added, sym, st, r) ==
  IF r.key # 0 THEN Chosen(m, added, sym, st, r)
  ELSE ChosenAfterAdding(lorieAddKeysym(m, added, sym), sym, st)
Choice(m, added, sym, st) == KeyOrAdd(m, added, sym, st, FindKey(m, sym, st))

\* What is sent for a choice: fake modifiers, the key, the modifiers undone; kb
\* is the keyboard before and faked the one with the fake modifiers.
Sent(c, kb, shift, l3, faked) ==
  LET ok == c.hit.key # 0 /\ shift.ok /\ l3.ok
  IN  [ok |-> ok, key |-> c.hit.key, map |-> c.map,
       added |-> IF ok THEN vncOnKeyUsed(c.added, c.hit.key) ELSE c.added,
       kbd |-> IF ok THEN mieqProcessInputEvents(c.map, faked,
                            <<KeyDown(c.hit.key)>> \o UndoFakes(shift, l3))
               ELSE kb,
       \* a fake Shift stays in the queue if level three cannot follow
       queue |-> IF ~ok /\ c.hit.key # 0 /\ shift.ok THEN shift.before ELSE <<>>,
       out |-> IF ok THEN Symbol(c.map[c.hit.key], lorieGetKeyboardState(faked)) ELSE NoSymbol]

SentWith(c, kb, shift, l3) ==
  Sent(c, kb, shift, l3, mieqProcessInputEvents(c.map, kb, shift.before \o l3.before))

SentFor(c, kb, st) ==
  SentWith(c, kb, FakeShift(c.map, kb, st, c.hit.state), FakeLevelThree(c.map, kb, st, c.hit.state))

\* lorieKeysymKeyboardEvent(sym, TRUE) with the map and the keyboard it finds.
Plan(m, kb, sym) ==
  LET st == lorieGetKeyboardState(kb) IN SentFor(Choice(m, addedKeysyms, sym, st), kb, st)

\* History: the spare keycodes in use, and their use now.
InUse(order) == {p[1] : p \in order}
Without(order, ks) == {p \in order : p[1] \notin ks /\ p[2] \notin ks}
Touch(order, ks) == Without(order, ks) \cup (ks \X (ks \cup InUse(order)))

\* lorieKeysymKeyboardEvent(sym, TRUE).
PressKeysym(sym) ==
  /\ typing = NoSymbol
  /\ typing' = sym
  /\ \E p \in {Plan(map, BeforeTyping, sym)} :
       /\ map' = p.map /\ kbd' = p.kbd /\ queue' = p.queue
       /\ addedKeysyms' = p.added
       /\ pressedKeys' = [k \in Keys |->
            CASE p.ok /\ k = p.key -> sym
              [] p.ok /\ k # p.key /\ pressedKeys[k] = sym -> NoSymbol
              [] OTHER -> pressedKeys[k]]
       /\ got' = p.out
       /\ used' = LET changed == Touch(used, {k \in Keys : map[k] # p.map[k]})
                  IN  IF p.ok THEN Touch(changed, {p.key} \cap InUse(changed)) ELSE changed
  /\ UNCHANGED <<held, reloads, taken>>

\* Mutant: the release looks the keysym up in the map again.
PressedByMap(sym) == lorieKeysymToKeycode(map, sym, lorieGetKeyboardState(kbd)).key

\* The keycode that was pressed for the keysym, or 0.
PressedFor(sym) == FirstKey({k \in Keys : pressedKeys[k] = sym})

\* lorieKeysymKeyboardEvent(sym, FALSE).
ReleaseKeysym ==
  /\ typing # NoSymbol
  /\ typing' = NoSymbol /\ got' = NoSymbol
  /\ \/ /\ PressedFor(typing) # 0
        /\ pressedKeys' = [pressedKeys EXCEPT ![PressedFor(typing)] = NoSymbol]
        /\ kbd' = mieqProcessInputEvents(map, kbd, Append(queue, KeyUp(PressedFor(typing))))
        /\ queue' = <<>>
     \/ /\ PressedFor(typing) = 0
        /\ UNCHANGED <<pressedKeys, kbd, queue>>
  /\ UNCHANGED <<map, addedKeysyms, held, used, reloads, taken>>

\* EVENT_KEY: the user presses or lets go of a physical key.
PhysicalKey(k) ==
  /\ typing = NoSymbol
  /\ Len(queue) < MaxQueue
  /\ \/ k \notin held /\ Cardinality(held) < MaxHeld
        /\ held' = held \cup {k} /\ queue' = Append(queue, KeyDown(k))
     \/ k \in held
        /\ held' = held \ {k} /\ queue' = Append(queue, KeyUp(k))
  /\ UNCHANGED <<map, kbd, pressedKeys, addedKeysyms, typing, got, used, reloads, taken>>

\* The server's main thread processes the queue; the input lock keeps it out
\* while a character is being typed.
ProcessInputEvents ==
  /\ typing = NoSymbol /\ queue # <<>>
  /\ kbd' = mieqProcessInputEvents(map, kbd, queue)
  /\ queue' = <<>>
  /\ UNCHANGED <<map, pressedKeys, addedKeysyms, typing, held, got, used, reloads, taken>>

\* A client loads a map (setxkbmap); the list of added keysyms is not told.
ClientLoadsMap ==
  /\ reloads + taken < MaxChanges /\ reloads' = reloads + 1
  /\ map' = BaseMap /\ used' = {}
  /\ UNCHANGED <<kbd, queue, pressedKeys, addedKeysyms, typing, held, got, taken>>

\* A client maps a spare keycode itself (xmodmap); the key name stays.
ClientMapsKey(k) ==
  /\ reloads + taken < MaxChanges /\ taken' = taken + 1
  /\ BaseMap[k].groups = <<>>
  /\ map' = [map EXCEPT ![k] = [AddedKey("client") EXCEPT !.named = map[k].named]]
  /\ used' = Without(used, {k})
  /\ UNCHANGED <<kbd, queue, pressedKeys, addedKeysyms, typing, held, got, reloads>>

Next ==
  \/ \E sym \in Typed : PressKeysym(sym)
  \/ ReleaseKeysym
  \/ \E k \in PhysKeys : PhysicalKey(k)
  \/ ProcessInputEvents
  \/ ClientLoadsMap
  \/ \E k \in Keys : ClientMapsKey(k)

Spec == Init /\ [][Next]_vars

-----------------------------------------------------------------------------
\* Keyboard as it is once the queue has been processed.
Settled == mieqProcessInputEvents(map, kbd, queue)

\* What a character may come out as: itself, a keysym with the same meaning,
\* or what Tab gives together with Shift.
Meets(sym, out) ==
  \/ out = sym \/ out \in Alternatives(sym)
  \/ sym = "Tab" /\ "Shift" \in lorieGetKeyboardState(kbd).mods

\* A client that looks the pressed keycode up in the modifier state of that
\* moment gets the character asked for, whatever keys are held or locked; a
\* character is dropped only if clients have taken every spare keycode.
TypesWhatIsAsked ==
  typing # NoSymbol /\ reloads = 0 =>
    \/ got # NoSymbol /\ Meets(typing, got)
    \/ got = NoSymbol /\ taken > 0

\* No keycode is remembered as pressed between two characters.
NothingRemembered == typing = NoSymbol => \A k \in Keys : pressedKeys[k] = NoSymbol

\* Between two characters no key is down that the user does not hold, and none
\* is remembered as pressed, whether or not a client changed the map between
\* the press and the release.
NothingLeftDown ==
  /\ typing = NoSymbol => DOMAIN Settled.down \subseteq held
  /\ NothingRemembered

\* "Items in this list are maintained in LRU order": a key in use is given a
\* new meaning only when it is the one unused for longest, and never a key
\* that a client has mapped.
ReusesOldest ==
  [][\A k \in Keys :
       /\ typing = NoSymbol /\ typing' # NoSymbol
       /\ map[k].groups # <<>> /\ map'[k] # map[k]
       => /\ k \in InUse(used)
          /\ reloads = 0 => \A j \in InUse(used) : <<j, k>> \in used]_vars

-----------------------------------------------------------------------------
\* The keyboard as the user knows it: the modifiers of the keys held down.
Base == [mods |-> {}, group |-> 0]
BaseAction(k) == XkbKeyActionPtr(BaseMap[k], Base)
Sets(k) == SetsMods(BaseMap[k], Base)
Locks(k) == IF BaseAction(k).kind = "lock" THEN ActionMods(BaseMap[k], BaseAction(k)) ELSE {}
Board == INSTANCE Keyboard WITH
  SetBy <- [k \in PhysKeys |-> Sets(k)],
  LockedBy <- [k \in PhysKeys |-> Locks(k)],
  mods <- lorieGetKeyboardState(Settled).mods,
  locked <- Settled.locked

\* Typing characters is invisible to the modifiers: once its queue is
\* processed, the server sees those of the keys the user holds and has
\* locked, however many were faked in between.
Implements == Board!Spec

-----------------------------------------------------------------------------
(* Layouts of the usual kind, for which the properties hold in general. *)

States == [mods : SUBSET Mods, group : {0, 1}]
LevelThree == {"ISO_Level3_Shift", "Mode_switch"}
Spares == Typed \cup {"client"}

\* A key acts on the same modifiers in every state.
ActionsAreFixed ==
  \A k \in Keys :
    /\ ActionMods(BaseMap[k], BaseAction(k)) \subseteq Mods
    /\ \A st \in States : XkbKeyActionPtr(BaseMap[k], st) = BaseAction(k)

\* A level three key is one in every state, and no key locks its modifiers.
LevelThreeIsFixed ==
  \A k \in Keys, st \in States :
    /\ \A s \in LevelThree : Symbol(BaseMap[k], st) = s <=> Symbol(BaseMap[k], Bare(st)) = s
    /\ Symbol(BaseMap[k], st) \in LevelThree => \A j \in Keys : Locks(j) \cap Sets(k) = {}

\* The keys that characters are found on are no modifiers.
CharactersAreNoModifiers ==
  /\ \A k \in Keys, st \in States, sym \in Typed :
       Symbol(BaseMap[k], st) \in {sym} \cup Alternatives(sym)
       => BaseAction(k).kind \notin {"set", "lock", "group"}
  /\ \A sym \in Spares, st \in States :
       /\ Symbol(AddedKey(sym), st) \notin LevelThree
       /\ XkbKeyActionPtr(AddedKey(sym), st) = NoAction

OrdinaryLayout == ActionsAreFixed /\ LevelThreeIsFixed /\ CharactersAreNoModifiers /\ MaxHeld \in 0..8

\* A keysym on a spare keycode is found there; clients put other ones on theirs.
SparesGiveCharacters ==
  /\ KeyType["ALPHABETIC"] =
       [mods |-> {"Shift", "Lock"}, levels |-> [m \in {{"Shift"}, {"Lock"}} |-> 2], preserve |-> <<>>]
  /\ \A sym \in Typed : sym \in {Lower[sym], Upper[sym]} /\ Lower[sym] # Lower["client"]
  /\ \A sym \in Spares : NoSymbol \notin {Lower[sym], Upper[sym]}

\* Shift and level three are set by keys that set nothing else; Shift is never locked.
ShiftsAreAlone ==
  /\ \E k \in Keys : "Shift" \in Sets(k)
  /\ \A k \in Keys :
       /\ "Shift" \notin Locks(k)
       /\ "Shift" \in Sets(k) => Sets(k) = {"Shift"}
       /\ \A st \in States : Symbol(BaseMap[k], st) \in LevelThree =>
            "Shift" \notin Sets(k) /\ \A j \in Keys : Sets(j) \cap Sets(k) # {} => Sets(j) \subseteq Sets(k)

\* There is a spare keycode, and something to see for every character.
CharactersAreSeen ==
  /\ Unused(BaseMap) # {}
  /\ \A sym \in Typed : NoSymbol \notin Alternatives(sym)
  /\ \A k \in Keys, st \in States :
       Symbol(BaseMap[k], st) \in {"Tab"} \cup Alternatives("Tab")
       => Symbol(BaseMap[k], [st EXCEPT !.mods = @ \cup {"Shift"}]) # NoSymbol
=============================================================================
