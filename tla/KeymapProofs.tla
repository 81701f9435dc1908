---------------------------- MODULE KeymapProofs ----------------------------
(***************************************************************************)
(* Proofs about module Keymap, for every set of keys, of keysyms and every *)
(* layout.  That a release finds its press needs nothing of the layout;    *)
(* the other theorems are about layouts of the usual kind, as the end of   *)
(* module Keymap defines them.                                             *)
(*                                                                         *)
(* What is computed by recursion (the queue) or by choice (the order of    *)
(* keys, the least one) is reasoned about with the principle that a set of *)
(* numbers that is not empty has a least element (Least, Induction).       *)
(***************************************************************************)
EXTENDS Keymap, FiniteSetTheorems, WellFoundedInduction, TLAPS

\* At most one keycode is remembered as pressed, and for the keysym being typed.
Remembered ==
  /\ DOMAIN pressedKeys = Keys
  /\ \A k \in Keys : pressedKeys[k] \in {NoSymbol, typing}
  /\ \A j, k \in Keys : pressedKeys[j] # NoSymbol /\ pressedKeys[k] # NoSymbol => j = k

\* A keycode that is remembered is the one that the release finds.
LEMMA PressedIsFound ==
  ASSUME Remembered, typing # NoSymbol, NEW k \in Keys, pressedKeys[k] # NoSymbol
  PROVE  PressedFor(typing) = k /\ k # 0
<1>1. {x \in Keys : pressedKeys[x] = typing} = {k}
  BY DEF Remembered
<1>2. k \in Nat \ {0}
  BY KeymapAssumption
<1>3. Min({k}) = k
  BY <1>2 DEF Min
<1> QED
  BY <1>1, <1>2, <1>3, Zenon DEF PressedFor, FirstKey

LEMMA RememberedPress ==
  ASSUME Remembered, NEW sym \in Typed, PressKeysym(sym)
  PROVE  Remembered'
<1>1. typing = NoSymbol /\ typing' = sym
  BY DEF PressKeysym
<1>2. PICK ok, key : pressedKeys' = [k \in Keys |->
            CASE ok /\ k = key -> sym
              [] ok /\ k # key /\ pressedKeys[k] = sym -> NoSymbol
              [] OTHER -> pressedKeys[k]]
  <2>1. PICK p : pressedKeys' = [k \in Keys |->
            CASE p.ok /\ k = p.key -> sym
              [] p.ok /\ k # p.key /\ pressedKeys[k] = sym -> NoSymbol
              [] OTHER -> pressedKeys[k]]
    BY Zenon DEF PressKeysym
  <2> QED
    BY <2>1, Zenon
<1>3. \A k \in Keys : pressedKeys[k] = NoSymbol
  BY <1>1 DEF Remembered
<1>4. \A k \in Keys : pressedKeys'[k] = IF ok /\ k = key THEN sym ELSE NoSymbol
  BY <1>2, <1>3
<1>5. DOMAIN pressedKeys' = Keys
  BY <1>2
<1> QED
  BY <1>1, <1>4, <1>5 DEF Remembered

LEMMA RememberedRelease ==
  ASSUME Remembered, ReleaseKeysym
  PROVE  Remembered'
<1>1. typing # NoSymbol /\ typing' = NoSymbol
  BY DEF ReleaseKeysym
<1>2. CASE \A k \in Keys : pressedKeys[k] = NoSymbol
  <2>1. UNCHANGED pressedKeys \/ \E key : pressedKeys' = [pressedKeys EXCEPT ![key] = NoSymbol]
    BY DEF ReleaseKeysym
  <2> QED
    BY <1>1, <1>2, <2>1 DEF Remembered
<1>3. ASSUME NEW k \in Keys, pressedKeys[k] # NoSymbol
      PROVE  Remembered'
  <2>1. PressedFor(typing) = k /\ k # 0
    BY <1>1, <1>3, PressedIsFound
  <2>2. pressedKeys' = [pressedKeys EXCEPT ![k] = NoSymbol]
    BY <2>1, Zenon DEF ReleaseKeysym
  <2>3. \A j \in Keys : pressedKeys'[j] = NoSymbol
    BY <1>3, <2>2 DEF Remembered
  <2>4. DOMAIN pressedKeys' = Keys
    BY <2>2 DEF Remembered
  <2> QED
    BY <1>1, <2>3, <2>4 DEF Remembered
<1> QED
  BY <1>2, <1>3

LEMMA NextRemembered == Remembered /\ [Next]_vars => Remembered'
<1> SUFFICES ASSUME Remembered, [Next]_vars PROVE Remembered'
  OBVIOUS
<1>1. CASE UNCHANGED <<pressedKeys, typing>>
  BY <1>1 DEF Remembered
<1>2. CASE \/ (\E k \in PhysKeys : PhysicalKey(k)) \/ ProcessInputEvents \/ ClientLoadsMap
           \/ (\E k \in Keys : ClientMapsKey(k)) \/ UNCHANGED vars
  BY <1>1, <1>2 DEF PhysicalKey, ProcessInputEvents, ClientLoadsMap, ClientMapsKey, vars
<1> QED
  BY <1>2, RememberedPress, RememberedRelease DEF Next

\* Every release of a typed character finds the keycode of its press, whatever
\* clients did to the map in between: between two characters no keycode is
\* remembered as pressed (lorieKeysymKeyboardEvent).
THEOREM ReleaseFindsItsPress == Spec => []NothingRemembered
<1>1. Init => Remembered
  BY DEF Init, Remembered
<1>2. Remembered => NothingRemembered
  BY DEF Remembered, NothingRemembered
<1> QED
  BY <1>1, <1>2, NextRemembered, PTL DEF Spec

-----------------------------------------------------------------------------
(* Induction over the natural numbers, for sets instead of predicates. *)

Less == {p \in Nat \X Nat : p[1] < p[2]}

LEMMA LessIsWellFounded == IsWellFoundedOn(Less, Nat)
  BY NatLessThanWellFounded DEF OpToRel, Less

\* A set of natural numbers that is not empty has a least element.
LEMMA Least ==
  ASSUME NEW S, S \subseteq Nat, S # {}
  PROVE  \E x \in S : \A y \in S : x <= y
<1>1. PICK x \in S : \A y \in S : ~ (<<y, x>> \in Less)
  BY LessIsWellFounded, WFMin
<1>2. ASSUME NEW y \in S PROVE x <= y
  <2>1. <<y, x>> \in Nat \X Nat /\ x \in Nat /\ y \in Nat
    BY <1>2
  <2>2. y < x => <<y, x>> \in Less
    BY <2>1 DEF Less
  <2> QED
    BY <1>1, <2>1, <2>2
<1> QED
  BY <1>2

LEMMA Induction ==
  ASSUME NEW S, 0 \in S, \A n \in Nat : n \in S => n + 1 \in S
  PROVE  Nat \subseteq S
<1> SUFFICES ASSUME Nat \ S # {} PROVE FALSE
  OBVIOUS
<1>1. PICK x \in Nat \ S : \A y \in Nat \ S : x <= y
  BY Least
<1>2. x # 0 /\ x - 1 \in Nat
  BY <1>1
<1>3. x - 1 \in S
  BY <1>1, <1>2
<1>4. (x - 1) + 1 = x
  BY <1>1
<1> QED
  BY <1>2, <1>3, <1>4

-----------------------------------------------------------------------------
(* Processing a queue of events, one after the other. *)

Event == [press : BOOLEAN, key : Keys]

\* What mieqProcessInputEvents builds: the keyboard after each event.
IsAfter(f, m, kb, es) ==
  f = [i \in 0..Len(es) |-> IF i = 0 THEN kb ELSE Process(m, f[i - 1], es[i])]

LEMMA AfterIsOne ==
  ASSUME NEW es \in Seq(Event), NEW m, NEW kb, NEW f, NEW g,
         IsAfter(f, m, kb, es), IsAfter(g, m, kb, es)
  PROVE  f = g
<1> DEFINE S == {i \in Nat : i <= Len(es) => f[i] = g[i]}
<1>0. Len(es) \in Nat
  OBVIOUS
<1>1. f[0] = kb /\ g[0] = kb
  BY <1>0 DEF IsAfter
<1>2. \A n \in Nat : n \in S => n + 1 \in S
  <2> SUFFICES ASSUME NEW n \in Nat, n \in S, n + 1 <= Len(es) PROVE f[n + 1] = g[n + 1]
    OBVIOUS
  <2>1. n + 1 \in 0..Len(es) /\ n + 1 # 0 /\ (n + 1) - 1 = n /\ n <= Len(es)
    BY <1>0
  <2>2. f[n + 1] = Process(m, f[n], es[n + 1])
    BY <2>1 DEF IsAfter
  <2>3. g[n + 1] = Process(m, g[n], es[n + 1])
    BY <2>1 DEF IsAfter
  <2> QED
    BY <2>1, <2>2, <2>3
<1>3. 0 \in S
  BY <1>1
<1>4. Nat \subseteq S
  <2> HIDE DEF S
  <2> QED
    BY <1>2, <1>3, Induction
<1>5. \A i \in 0..Len(es) : f[i] = g[i]
  BY <1>0, <1>4
<1>6. DOMAIN f = 0..Len(es) /\ DOMAIN g = 0..Len(es)
  BY DEF IsAfter
<1>7. f = [i \in 0..Len(es) |-> f[i]] /\ g = [i \in 0..Len(es) |-> g[i]]
  BY DEF IsAfter
<1> QED
  BY <1>5, <1>7

LEMMA AfterExtends ==
  ASSUME NEW es \in Seq(Event), NEW e \in Event, NEW m, NEW kb, NEW f, IsAfter(f, m, kb, es)
  PROVE  \E g : /\ IsAfter(g, m, kb, Append(es, e))
                /\ g[Len(es) + 1] = Process(m, f[Len(es)], e)
<1> DEFINE n == Len(es)
           g == [i \in 0..(n + 1) |-> IF i = n + 1 THEN Process(m, f[n], e) ELSE f[i]]
           es2 == Append(es, e)
<1>1. n \in Nat /\ Len(es2) = n + 1 /\ es2[n + 1] = e /\ \A i \in 1..n : es2[i] = es[i]
  OBVIOUS
<1>2. ASSUME NEW i \in 0..(n + 1)
      PROVE  g[i] = IF i = 0 THEN kb ELSE Process(m, g[i - 1], es2[i])
  <2>1. CASE i = 0
    <3>1. g[i] = f[0]
      BY <1>1, <2>1
    <3>2. f[0] = kb
      BY <1>1 DEF IsAfter
    <3> QED
      BY <2>1, <3>1, <3>2
  <2>2. CASE i = n + 1
    <3>1. g[i] = Process(m, f[n], e) /\ g[i - 1] = f[n] /\ es2[i] = e /\ i # 0
      BY <1>1, <2>2
    <3> QED
      BY <3>1, Zenon
  <2>3. CASE i \in 1..n
    <3>1. g[i] = f[i] /\ g[i - 1] = f[i - 1] /\ es2[i] = es[i] /\ i # 0 /\ i \in 0..n
      BY <1>1, <2>3
    <3>2. f[i] = Process(m, f[i - 1], es[i])
      BY <3>1 DEF IsAfter
    <3> QED
      BY <3>1, <3>2, Zenon
  <2> QED
    BY <1>1, <2>1, <2>2, <2>3
<1>3. IsAfter(g, m, kb, es2)
  <2> DEFINE h == [i \in 0..(n + 1) |-> IF i = 0 THEN kb ELSE Process(m, g[i - 1], es2[i])]
  <2>1. DOMAIN g = 0..(n + 1) /\ g = [i \in 0..(n + 1) |-> g[i]]
    OBVIOUS
  <2> HIDE DEF g, es2, n
  <2>2. g = h
    BY <1>2, <2>1
  <2> QED
    BY <1>1, <2>2 DEF IsAfter
<1>4. g[n + 1] = Process(m, f[n], e)
  BY <1>1
<1> QED
  BY <1>3, <1>4

LEMMA AfterExists ==
  ASSUME NEW m, NEW kb, NEW es \in Seq(Event)
  PROVE  \E f : IsAfter(f, m, kb, es)
<1> DEFINE S == {n \in Nat : \A q \in Seq(Event) : Len(q) = n => \E f : IsAfter(f, m, kb, q)}
<1>1. 0 \in S
  <2> SUFFICES ASSUME NEW q \in Seq(Event), Len(q) = 0 PROVE \E f : IsAfter(f, m, kb, q)
    OBVIOUS
  <2>1. IsAfter([i \in 0..0 |-> kb], m, kb, q)
    BY DEF IsAfter
  <2> QED
    BY <2>1
<1>2. \A n \in Nat : n \in S => n + 1 \in S
  <2> SUFFICES ASSUME NEW n \in Nat, n \in S PROVE n + 1 \in S
    OBVIOUS
  <2> SUFFICES ASSUME NEW q \in Seq(Event), Len(q) = n + 1 PROVE \E f : IsAfter(f, m, kb, q)
    OBVIOUS
  <2>1. /\ SubSeq(q, 1, n) \in Seq(Event) /\ Len(SubSeq(q, 1, n)) = n /\ q[n + 1] \in Event
        /\ q = Append(SubSeq(q, 1, n), q[n + 1])
    OBVIOUS
  <2>2. PICK f : IsAfter(f, m, kb, SubSeq(q, 1, n))
    BY <2>1
  <2>3. \E g : IsAfter(g, m, kb, Append(SubSeq(q, 1, n), q[n + 1]))
    BY <2>1, <2>2, AfterExtends
  <2> QED
    BY <2>1, <2>3
<1>3. Nat \subseteq S
  <2> HIDE DEF S
  <2> QED
    BY <1>1, <1>2, Induction
<1>4. Len(es) \in S
  BY <1>3
<1> QED
  BY <1>4

LEMMA QueueByAfter ==
  ASSUME NEW m, NEW kb, NEW es \in Seq(Event), NEW f, IsAfter(f, m, kb, es)
  PROVE  mieqProcessInputEvents(m, kb, es) = f[Len(es)]
<1> DEFINE F == CHOOSE g : IsAfter(g, m, kb, es)
<1>1. mieqProcessInputEvents(m, kb, es) = F[Len(es)]
  BY DEF mieqProcessInputEvents, IsAfter
<1>2. IsAfter(F, m, kb, es)
  BY Zenon
<1>3. F = f
  <2> HIDE DEF F
  <2> QED
    BY <1>2, AfterIsOne
<1> QED
  BY <1>1, <1>3

\* An empty queue changes nothing, and the last event acts on what the others left.
LEMMA QueueEmpty == ASSUME NEW m, NEW kb PROVE mieqProcessInputEvents(m, kb, <<>>) = kb
<1>1. IsAfter([i \in 0..0 |-> kb], m, kb, <<>>)
  BY DEF IsAfter
<1> QED
  BY <1>1, QueueByAfter

LEMMA QueueAppend ==
  ASSUME NEW m, NEW kb, NEW es \in Seq(Event), NEW e \in Event
  PROVE  mieqProcessInputEvents(m, kb, Append(es, e))
           = Process(m, mieqProcessInputEvents(m, kb, es), e)
<1>1. PICK f : IsAfter(f, m, kb, es)
  BY AfterExists
<1>2. PICK g : IsAfter(g, m, kb, Append(es, e)) /\ g[Len(es) + 1] = Process(m, f[Len(es)], e)
  BY <1>1, AfterExtends
<1>3. mieqProcessInputEvents(m, kb, es) = f[Len(es)]
  BY <1>1, QueueByAfter
<1>4. Append(es, e) \in Seq(Event) /\ Len(Append(es, e)) = Len(es) + 1
  OBVIOUS
<1>5. mieqProcessInputEvents(m, kb, Append(es, e)) = g[Len(es) + 1]
  BY <1>2, <1>4, QueueByAfter
<1> QED
  BY <1>2, <1>3, <1>5

\* Induction over sequences: every one is built by appending to the empty one.
LEMMA SequenceInduction ==
  ASSUME NEW T, NEW S, <<>> \in S, \A q \in Seq(T), e \in T : q \in S => Append(q, e) \in S
  PROVE  Seq(T) \subseteq S
<1> DEFINE N == {n \in Nat : \A q \in Seq(T) : Len(q) = n => q \in S}
<1>1. 0 \in N
  <2>1. \A q \in Seq(T) : Len(q) = 0 => q = <<>>
    OBVIOUS
  <2> QED
    BY <2>1
<1>2. \A n \in Nat : n \in N => n + 1 \in N
  <2> SUFFICES ASSUME NEW n \in Nat, n \in N PROVE n + 1 \in N
    OBVIOUS
  <2> SUFFICES ASSUME NEW q \in Seq(T), Len(q) = n + 1 PROVE q \in S
    OBVIOUS
  <2>1. /\ SubSeq(q, 1, n) \in Seq(T) /\ Len(SubSeq(q, 1, n)) = n /\ q[n + 1] \in T
        /\ q = Append(SubSeq(q, 1, n), q[n + 1])
    OBVIOUS
  <2>2. SubSeq(q, 1, n) \in S
    BY <2>1
  <2>3. Append(SubSeq(q, 1, n), q[n + 1]) \in S
    BY <2>1, <2>2
  <2> QED
    BY <2>1, <2>3
<1>3. Nat \subseteq N
  <2> HIDE DEF N
  <2> QED
    BY <1>1, <1>2, Induction
<1> QED
  BY <1>3

LEMMA QueueConcat ==
  ASSUME NEW m, NEW kb, NEW p \in Seq(Event), NEW q \in Seq(Event)
  PROVE  mieqProcessInputEvents(m, kb, p \o q)
           = mieqProcessInputEvents(m, mieqProcessInputEvents(m, kb, p), q)
<1> DEFINE kb2 == mieqProcessInputEvents(m, kb, p)
           S == {r \in Seq(Event) :
                   mieqProcessInputEvents(m, kb, p \o r) = mieqProcessInputEvents(m, kb2, r)}
<1>1. <<>> \in S
  <2>1. p \o <<>> = p /\ <<>> \in Seq(Event)
    OBVIOUS
  <2>2. mieqProcessInputEvents(m, kb2, <<>>) = kb2
    BY QueueEmpty
  <2> QED
    BY <2>1, <2>2
<1>2. \A r \in Seq(Event), e \in Event : r \in S => Append(r, e) \in S
  <2> SUFFICES ASSUME NEW r \in Seq(Event), NEW e \in Event, r \in S PROVE Append(r, e) \in S
    OBVIOUS
  <2>1. p \o Append(r, e) = Append(p \o r, e) /\ p \o r \in Seq(Event) /\ Append(r, e) \in Seq(Event)
    OBVIOUS
  <2>2. mieqProcessInputEvents(m, kb, Append(p \o r, e))
          = Process(m, mieqProcessInputEvents(m, kb, p \o r), e)
    BY <2>1, QueueAppend
  <2>3. mieqProcessInputEvents(m, kb2, Append(r, e)) = Process(m, mieqProcessInputEvents(m, kb2, r), e)
    BY QueueAppend
  <2> QED
    BY <2>1, <2>2, <2>3
<1>3. Seq(Event) \subseteq S
  <2> HIDE DEF S
  <2> QED
    BY <1>1, <1>2, SequenceInduction
<1> QED
  BY <1>3

LEMMA QueueOne ==
  ASSUME NEW m, NEW kb, NEW e \in Event
  PROVE  mieqProcessInputEvents(m, kb, <<e>>) = Process(m, kb, e)
<1>1. <<e>> = Append(<<>>, e) /\ <<>> \in Seq(Event)
  OBVIOUS
<1>2. mieqProcessInputEvents(m, kb, Append(<<>>, e)) = Process(m, mieqProcessInputEvents(m, kb, <<>>), e)
  BY <1>1, QueueAppend
<1>3. mieqProcessInputEvents(m, kb, <<>>) = kb
  BY QueueEmpty
<1> QED
  BY <1>1, <1>2, <1>3

-----------------------------------------------------------------------------
(* The map: only keys that are spare in BaseMap ever change their meaning. *)

GivesAdded(rec, sym) ==
  rec.groups = AddedKey(sym).groups /\ rec.oor = AddedKey(sym).oor /\ rec.to = AddedKey(sym).to
IsSpareKey(rec) == rec.groups = <<>> \/ \E sym \in Spares : GivesAdded(rec, sym)

OKMap(m) ==
  /\ DOMAIN m = Keys
  /\ \A k \in Keys : IF BaseMap[k].groups # <<>> THEN m[k] = BaseMap[k] ELSE IsSpareKey(m[k])

\* The name of a key says nothing of what it gives and does.
LEMMA NameIsNothing ==
  ASSUME NEW rec, NEW sym, GivesAdded(rec, sym), NEW st
  PROVE  /\ Symbol(rec, st) = Symbol(AddedKey(sym), st)
         /\ XkbKeyActionPtr(rec, st) = XkbKeyActionPtr(AddedKey(sym), st)
<1> DEFINE old == AddedKey(sym)
<1>1. rec.groups = old.groups /\ rec.oor = old.oor /\ rec.to = old.to
  BY DEF GivesAdded
<1> HIDE DEF old
<1>2. GroupOf(rec, st) = GroupOf(old, st)
  BY <1>1 DEF GroupOf, XkbKeyEffectiveGroup
<1>3. Symbol(rec, st) = Symbol(old, st)
  BY <1>1, <1>2 DEF Symbol, XkbTranslateKeyCode
<1>4. XkbKeyActionPtr(rec, st) = XkbKeyActionPtr(old, st)
  BY <1>1, <1>2 DEF XkbKeyActionPtr
<1> QED
  BY <1>3, <1>4 DEF old

\* In every map and state a key sets, locks and switches what it does in BaseMap.
LEMMA ActsAsInBase ==
  ASSUME ActionsAreFixed, CharactersAreNoModifiers,
         NEW m, OKMap(m), NEW k \in Keys, NEW st \in States
  PROVE  /\ XkbKeyActionPtr(m[k], st).kind = BaseAction(k).kind
         /\ SetsMods(m[k], st) = Sets(k)
         /\ BaseAction(k).kind = "lock" => ActionMods(m[k], XkbKeyActionPtr(m[k], st)) = Locks(k)
<1>1. CASE BaseMap[k].groups # <<>>
  <2>1. m[k] = BaseMap[k]
    BY <1>1 DEF OKMap
  <2>2. XkbKeyActionPtr(BaseMap[k], st) = BaseAction(k)
    BY DEF ActionsAreFixed
  <2>3. SetsMods(m[k], st) = Sets(k)
    BY <2>1, <2>2 DEF SetsMods, Sets, BaseAction
  <2> QED
    BY <2>1, <2>2, <2>3 DEF Locks
<1>2. CASE BaseMap[k].groups = <<>>
  <2>1. BaseAction(k) = NoAction
    BY <1>2 DEF BaseAction, XkbKeyActionPtr
  <2>2. Sets(k) = {}
    BY <2>1 DEF Sets, SetsMods, BaseAction, NoAction
  <2>3. XkbKeyActionPtr(m[k], st) = NoAction
    <3>1. CASE m[k].groups = <<>>
      BY <3>1 DEF XkbKeyActionPtr
    <3>2. ASSUME NEW sym \in Spares, GivesAdded(m[k], sym)
          PROVE  XkbKeyActionPtr(m[k], st) = NoAction
      <4>1. XkbKeyActionPtr(m[k], st) = XkbKeyActionPtr(AddedKey(sym), st)
        BY <3>2, NameIsNothing
      <4> QED
        BY <4>1 DEF CharactersAreNoModifiers
    <3> QED
      BY <1>2, <3>1, <3>2 DEF OKMap, IsSpareKey
  <2>4. SetsMods(m[k], st) = {}
    BY <2>3 DEF SetsMods, NoAction
  <2> QED
    BY <2>1, <2>2, <2>3, <2>4 DEF NoAction
<1> QED
  BY <1>1, <1>2

-----------------------------------------------------------------------------
(* The keyboard: every key that is down sets what it sets in BaseMap. *)

Kb(D, l, g) == [down |-> [k \in D |-> Sets(k)], locked |-> l, group |-> g]
ModsOf(D, l) == l \cup UNION {Sets(k) : k \in D}
Flip(k, g) == IF BaseAction(k).kind = "group" THEN 1 - g ELSE g
Lockable == UNION {Locks(k) : k \in Keys}

LEMMA KbParts ==
  ASSUME NEW D, NEW l, NEW g
  PROVE  /\ Kb(D, l, g).down = [k \in D |-> Sets(k)] /\ DOMAIN Kb(D, l, g).down = D
         /\ Kb(D, l, g).locked = l /\ Kb(D, l, g).group = g
  BY DEF Kb

LEMMA SetsAreMods ==
  ASSUME ActionsAreFixed, NEW k \in Keys
  PROVE  Sets(k) \subseteq Mods /\ Locks(k) \subseteq Mods
  BY DEF ActionsAreFixed, Sets, SetsMods, BaseAction, Locks

LEMMA KbState ==
  ASSUME ActionsAreFixed, NEW D \in SUBSET Keys, NEW l \in SUBSET Lockable, NEW g \in {0, 1}
  PROVE  /\ lorieGetKeyboardState(Kb(D, l, g)) = [mods |-> ModsOf(D, l), group |-> g]
         /\ lorieGetKeyboardState(Kb(D, l, g)) \in States
         /\ ModsOf(D, l) \subseteq Mods
<1>1. UNION Range([k \in D |-> Sets(k)]) = UNION {Sets(k) : k \in D}
  BY DEF Range
<1>2. lorieGetKeyboardState(Kb(D, l, g)) = [mods |-> ModsOf(D, l), group |-> g]
  <2>1. /\ Kb(D, l, g).down = [k \in D |-> Sets(k)]
        /\ Kb(D, l, g).locked = l /\ Kb(D, l, g).group = g
    BY KbParts
  <2> QED
    BY <1>1, <2>1, Zenon DEF lorieGetKeyboardState, ModsOf
<1>3. ModsOf(D, l) \subseteq Mods
  BY SetsAreMods DEF ModsOf, Lockable
<1> QED
  BY <1>2, <1>3 DEF States

AfterPress(k, D, l, g) ==
  IF k \in D THEN Kb(D, l, g)
  ELSE Kb(D \cup {k}, (l \ Locks(k)) \cup (Locks(k) \ l), Flip(k, g))

LEMMA PressOnKb ==
  ASSUME ActionsAreFixed, CharactersAreNoModifiers, NEW m, OKMap(m),
         NEW D \in SUBSET Keys, NEW l \in SUBSET Lockable, NEW g \in {0, 1}, NEW k \in Keys
  PROVE  Process(m, Kb(D, l, g), KeyDown(k)) = AfterPress(k, D, l, g)
<1> DEFINE kb == Kb(D, l, g)
           st == lorieGetKeyboardState(kb)
           act == XkbKeyActionPtr(m[k], st)
<1>0. Process(m, kb, KeyDown(k)) = ProcessPress(m, kb, k)
  BY DEF Process, KeyDown
<1>1. st \in States
  BY KbState
<1>2. kb.down = [x \in D |-> Sets(x)] /\ DOMAIN kb.down = D /\ kb.locked = l /\ kb.group = g
  BY KbParts
<1>3. /\ act.kind = BaseAction(k).kind /\ SetsMods(m[k], st) = Sets(k)
      /\ BaseAction(k).kind = "lock" => ActionMods(m[k], act) = Locks(k)
  <2> HIDE DEF st
  <2> QED
    BY <1>1, ActsAsInBase
<1> HIDE DEF kb, st, act
<1>4. CASE k \in D
  BY <1>0, <1>2, <1>4 DEF ProcessPress, AfterPress, kb
<1>5. CASE k \notin D
  <2>1. [x \in DOMAIN kb.down \cup {k} |-> IF x = k THEN Sets(k) ELSE kb.down[x]] = [x \in D \cup {k} |-> Sets(x)]
    BY <1>2
  <2>2. (IF act.kind = "lock" THEN (kb.locked \ ActionMods(m[k], act)) \cup (ActionMods(m[k], act) \ kb.locked)
         ELSE kb.locked) = (l \ Locks(k)) \cup (Locks(k) \ l)
    <3>1. CASE act.kind = "lock"
      BY <1>2, <1>3, <3>1
    <3>2. CASE act.kind # "lock"
      <4>1. Locks(k) = {}
        BY <1>3, <3>2 DEF Locks
      <4> QED
        BY <1>2, <3>2, <4>1
    <3> QED
      BY <3>1, <3>2
  <2>3. (IF act.kind = "group" THEN 1 - kb.group ELSE kb.group) = Flip(k, g)
    BY <1>2, <1>3 DEF Flip
  <2>4. ProcessPress(m, kb, k) =
          [down |-> [x \in DOMAIN kb.down \cup {k} |-> IF x = k THEN SetsMods(m[k], st) ELSE kb.down[x]],
           locked |-> IF act.kind = "lock"
                      THEN (kb.locked \ ActionMods(m[k], act)) \cup (ActionMods(m[k], act) \ kb.locked)
                      ELSE kb.locked,
           group |-> IF act.kind = "group" THEN 1 - kb.group ELSE kb.group]
    BY <1>2, <1>5, Zenon DEF ProcessPress, st, act
  <2>5. ProcessPress(m, kb, k) = Kb(D \cup {k}, (l \ Locks(k)) \cup (Locks(k) \ l), Flip(k, g))
    BY <1>3, <2>1, <2>2, <2>3, <2>4, Zenon DEF Kb
  <2> QED
    BY <1>0, <1>5, <2>5 DEF AfterPress, kb
<1> QED
  BY <1>4, <1>5

LEMMA ReleaseOnKb ==
  ASSUME NEW m, NEW D, NEW l, NEW g, NEW k
  PROVE  Process(m, Kb(D, l, g), KeyUp(k)) = Kb(D \ {k}, l, g)
<1>1. Process(m, Kb(D, l, g), KeyUp(k)) = ProcessRelease(Kb(D, l, g), k)
  BY DEF Process, KeyUp
<1>2. [x \in D \ {k} |-> [y \in D |-> Sets(y)][x]] = [x \in D \ {k} |-> Sets(x)]
  OBVIOUS
<1>3. ProcessRelease(Kb(D, l, g), k) = Kb(D \ {k}, l, g)
  <2> DEFINE kb == Kb(D, l, g)
  <2>1. kb.down = [x \in D |-> Sets(x)] /\ DOMAIN kb.down = D
    BY KbParts
  <2>2. [x \in DOMAIN kb.down \ {k} |-> kb.down[x]] = [x \in D \ {k} |-> Sets(x)]
    BY <1>2, <2>1
  <2>3. ProcessRelease(kb, k) = [kb EXCEPT !.down = [x \in D \ {k} |-> Sets(x)]]
    BY <2>2, Zenon DEF ProcessRelease
  <2> QED
    BY <2>3 DEF Kb
<1> QED
  BY <1>1, <1>3

KbForm(kb) == \E D \in SUBSET Keys, l \in SUBSET Lockable, g \in {0, 1} : kb = Kb(D, l, g)

LEMMA ProcessOnKb ==
  ASSUME ActionsAreFixed, CharactersAreNoModifiers, NEW m, OKMap(m), NEW n, OKMap(n),
         NEW kb, KbForm(kb), NEW e \in Event
  PROVE  KbForm(Process(m, kb, e)) /\ Process(m, kb, e) = Process(n, kb, e)
<1>1. PICK D \in SUBSET Keys, l \in SUBSET Lockable, g \in {0, 1} : kb = Kb(D, l, g)
  BY DEF KbForm
<1>2. PICK k \in Keys : e = KeyDown(k) \/ e = KeyUp(k)
  BY DEF Event, KeyDown, KeyUp
<1> DEFINE l2 == (l \ Locks(k)) \cup (Locks(k) \ l)
<1>3. D \cup {k} \in SUBSET Keys /\ D \ {k} \in SUBSET Keys
  OBVIOUS
<1>4. l2 \in SUBSET Lockable
  BY DEF Lockable
<1>5. Flip(k, g) \in {0, 1}
  BY DEF Flip
<1>6. CASE e = KeyDown(k)
  <2>1. Process(m, kb, e) = AfterPress(k, D, l, g)
    BY <1>1, <1>6, PressOnKb
  <2>2. Process(n, kb, e) = AfterPress(k, D, l, g)
    BY <1>1, <1>6, PressOnKb
  <2>3. AfterPress(k, D, l, g) = IF k \in D THEN Kb(D, l, g) ELSE Kb(D \cup {k}, l2, Flip(k, g))
    BY DEF AfterPress
  <2> HIDE DEF l2
  <2> QED
    BY <1>3, <1>4, <1>5, <2>1, <2>2, <2>3 DEF KbForm
<1>7. CASE e = KeyUp(k)
  <2>1. Process(m, kb, e) = Kb(D \ {k}, l, g) /\ Process(n, kb, e) = Kb(D \ {k}, l, g)
    BY <1>1, <1>7, ReleaseOnKb
  <2> QED
    BY <1>3, <2>1 DEF KbForm
<1> QED
  BY <1>2, <1>6, <1>7

\* A queue does the same under every map.
LEMMA QueueOnKb ==
  ASSUME ActionsAreFixed, CharactersAreNoModifiers, NEW m, OKMap(m), NEW n, OKMap(n),
         NEW kb, KbForm(kb), NEW q \in Seq(Event)
  PROVE  /\ KbForm(mieqProcessInputEvents(m, kb, q))
         /\ mieqProcessInputEvents(m, kb, q) = mieqProcessInputEvents(n, kb, q)
<1> DEFINE S == {r \in Seq(Event) :
                   /\ KbForm(mieqProcessInputEvents(m, kb, r))
                   /\ mieqProcessInputEvents(m, kb, r) = mieqProcessInputEvents(n, kb, r)}
<1>1. <<>> \in S
  <2>1. mieqProcessInputEvents(m, kb, <<>>) = kb /\ mieqProcessInputEvents(n, kb, <<>>) = kb
    BY QueueEmpty
  <2>2. <<>> \in Seq(Event)
    OBVIOUS
  <2> QED
    BY <2>1, <2>2
<1>2. \A r \in Seq(Event), e \in Event : r \in S => Append(r, e) \in S
  <2> SUFFICES ASSUME NEW r \in Seq(Event), NEW e \in Event, r \in S PROVE Append(r, e) \in S
    OBVIOUS
  <2> DEFINE kb2 == mieqProcessInputEvents(m, kb, r)
  <2>1. /\ mieqProcessInputEvents(m, kb, Append(r, e)) = Process(m, kb2, e)
        /\ mieqProcessInputEvents(n, kb, Append(r, e)) = Process(n, kb2, e)
    BY QueueAppend
  <2>2. KbForm(kb2)
    OBVIOUS
  <2>3. KbForm(Process(m, kb2, e)) /\ Process(m, kb2, e) = Process(n, kb2, e)
    <3> HIDE DEF kb2
    <3> QED
      BY <2>2, ProcessOnKb
  <2>4. Append(r, e) \in Seq(Event)
    OBVIOUS
  <2> QED
    BY <2>1, <2>3, <2>4
<1>3. Seq(Event) \subseteq S
  <2> HIDE DEF S
  <2> QED
    BY <1>1, <1>2, SequenceInduction
<1> QED
  BY <1>3

-----------------------------------------------------------------------------
(* A set of keys pressed or released in the order of their keycodes. *)

Sorted(s, ks) ==
  s \in [1..Cardinality(ks) -> ks] /\ \A i, j \in 1..Cardinality(ks) : i < j => s[i] < s[j]

LEMMA OrderExists ==
  ASSUME NEW ks \in SUBSET Nat, IsFiniteSet(ks)
  PROVE  \E s : Sorted(s, ks)
<1> DEFINE S == {n \in Nat : \A c \in SUBSET Nat :
                               IsFiniteSet(c) /\ Cardinality(c) = n => \E s : Sorted(s, c)}
<1>1. 0 \in S
  <2> SUFFICES ASSUME NEW c \in SUBSET Nat, IsFiniteSet(c), Cardinality(c) = 0
               PROVE  \E s : Sorted(s, c)
    OBVIOUS
  <2>1. Sorted([i \in 1..0 |-> 0], c)
    BY DEF Sorted
  <2> QED
    BY <2>1
<1>2. \A n \in Nat : n \in S => n + 1 \in S
  <2> SUFFICES ASSUME NEW n \in Nat, n \in S PROVE n + 1 \in S
    OBVIOUS
  <2> SUFFICES ASSUME NEW c \in SUBSET Nat, IsFiniteSet(c), Cardinality(c) = n + 1
               PROVE  \E s : Sorted(s, c)
    OBVIOUS
  <2>1. c # {}
    BY FS_EmptySet
  <2>2. PICK x \in c : \A y \in c : x <= y
    BY <2>1, Least
  <2>3. IsFiniteSet(c \ {x}) /\ Cardinality(c \ {x}) = n
    <3>1. /\ IsFiniteSet(c \ {x})
          /\ Cardinality(c \ {x}) = IF x \in c THEN Cardinality(c) - 1 ELSE Cardinality(c)
      BY FS_RemoveElement, Zenon
    <3> QED
      BY <2>2, <3>1
  <2>4. PICK s : Sorted(s, c \ {x})
    BY <2>3
  <2>5. s \in [1..n -> c \ {x}] /\ \A i, j \in 1..n : i < j => s[i] < s[j]
    BY <2>3, <2>4 DEF Sorted
  <2> DEFINE t == [i \in 1..(n + 1) |-> IF i = 1 THEN x ELSE s[i - 1]]
  <2>6. \A i \in 1..(n + 1) : i # 1 => i - 1 \in 1..n
    OBVIOUS
  <2>7. \A i \in 1..(n + 1) : i # 1 => t[i] = s[i - 1] /\ t[i] \in c \ {x}
    BY <2>5, <2>6
  <2>8. t[1] = x
    OBVIOUS
  <2>9. t \in [1..(n + 1) -> c]
    BY <2>2, <2>5, <2>6
  <2>10. ASSUME NEW i \in 1..(n + 1), NEW j \in 1..(n + 1), i < j PROVE t[i] < t[j]
    <3>1. j # 1 /\ t[j] = s[j - 1] /\ t[j] \in c \ {x} /\ j - 1 \in 1..n
      BY <2>6, <2>7, <2>10
    <3>2. CASE i = 1
      <4>1. x \in Nat /\ t[j] \in Nat /\ x <= t[j] /\ x # t[j]
        BY <2>2, <3>1
      <4> HIDE DEF t
      <4> QED
        BY <2>8, <3>2, <4>1
    <3>3. CASE i # 1
      <4>1. t[i] = s[i - 1] /\ i - 1 \in 1..n /\ i - 1 < j - 1
        BY <2>6, <2>7, <2>10, <3>3
      <4> QED
        BY <2>5, <3>1, <4>1
    <3> QED
      BY <3>2, <3>3
  <2>11. Sorted(t, c)
    <3> HIDE DEF t
    <3> QED
      BY <2>9, <2>10 DEF Sorted
  <2> QED
    BY <2>11
<1>3. Nat \subseteq S
  <2> HIDE DEF S
  <2> QED
    BY <1>1, <1>2, Induction
<1>4. Cardinality(ks) \in Nat
  BY FS_CardinalityType
<1> QED
  BY <1>3, <1>4

LEMMA OrderIsAll ==
  ASSUME NEW ks \in SUBSET Nat, IsFiniteSet(ks)
  PROVE  /\ Cardinality(ks) \in Nat
         /\ InOrder(ks) \in [1..Cardinality(ks) -> ks]
         /\ \A i, j \in 1..Cardinality(ks) : i < j => InOrder(ks)[i] < InOrder(ks)[j]
         /\ \A x \in ks : \E i \in 1..Cardinality(ks) : InOrder(ks)[i] = x
<1> DEFINE n == Cardinality(ks)
           s == InOrder(ks)
<1>1. n \in Nat
  BY FS_CardinalityType
<1>2. \E c \in [1..n -> ks] : \A i, j \in DOMAIN c : i < j => c[i] < c[j]
  BY OrderExists DEF Sorted
<1>3. s \in [1..n -> ks] /\ \A i, j \in DOMAIN s : i < j => s[i] < s[j]
  <2>1. s = CHOOSE c \in [1..n -> ks] : \A i, j \in DOMAIN c : i < j => c[i] < c[j]
    BY DEF InOrder
  <2> HIDE DEF s, n
  <2> QED
    BY <1>2, <2>1, Zenon
<1> HIDE DEF s, n
<1>4. \A i, j \in 1..n : i # j => s[i] # s[j]
  <2> SUFFICES ASSUME NEW i \in 1..n, NEW j \in 1..n, i # j PROVE s[i] # s[j]
    OBVIOUS
  <2>0. i \in Int /\ j \in Int
    BY <1>1
  <2>1. s[i] \in Nat /\ s[j] \in Nat /\ DOMAIN s = 1..n
    <3>1. s[i] \in ks /\ s[j] \in ks /\ DOMAIN s = 1..n
      BY <1>3
    <3> QED
      BY <3>1
  <2>2. s[i] < s[j] \/ s[j] < s[i]
    BY <1>3, <2>0, <2>1
  <2> QED
    BY <2>1, <2>2
<1>5. s \in Injection(1..n, ks)
  BY <1>3, <1>4 DEF Injection, IsInjective
<1>6. Cardinality(1..n) = n
  BY <1>1, FS_Interval
<1>7. s \in Surjection(1..n, ks)
  BY <1>5, <1>6, FS_Injection DEF n
<1> QED
  BY <1>1, <1>3, <1>7 DEF Surjection, n, s

Marked(q, down) == [i \in 1..Len(q) |-> [press |-> down, key |-> q[i]]]
Members(q) == {q[i] : i \in 1..Len(q)}
SetKeys == {k \in Keys : Sets(k) # {}}

LEMMA MarkedAppend ==
  ASSUME NEW q \in Seq(Keys), NEW k \in Keys, NEW down \in BOOLEAN
  PROVE  /\ Marked(q, down) \in Seq(Event)
         /\ [press |-> down, key |-> k] \in Event
         /\ Marked(Append(q, k), down) = Append(Marked(q, down), [press |-> down, key |-> k])
         /\ Members(Append(q, k)) = Members(q) \cup {k}
<1>1. \A i \in 1..Len(q) : q[i] \in Keys
  OBVIOUS
<1>2. Marked(q, down) \in Seq(Event)
  BY <1>1 DEF Marked, Event
<1>3. [press |-> down, key |-> k] \in Event
  BY DEF Event
<1>4. /\ Len(Append(q, k)) = Len(q) + 1 /\ Append(q, k)[Len(q) + 1] = k
      /\ \A i \in 1..Len(q) : Append(q, k)[i] = q[i]
  OBVIOUS
<1>5. Marked(Append(q, k), down) = Append(Marked(q, down), [press |-> down, key |-> k])
  BY <1>4 DEF Marked
<1>6. 1..(Len(q) + 1) = 1..Len(q) \cup {Len(q) + 1}
  OBVIOUS
<1>7. Members(Append(q, k)) = Members(q) \cup {k}
  BY <1>4, <1>6 DEF Members
<1> QED
  BY <1>2, <1>3, <1>5, <1>7

ReleasesAll(q, m, D, l, g) ==
  mieqProcessInputEvents(m, Kb(D, l, g), Marked(q, FALSE)) = Kb(D \ Members(q), l, g)
PressesAll(q, m, D, l, g) ==
  mieqProcessInputEvents(m, Kb(D, l, g), Marked(q, TRUE)) = Kb(D \cup Members(q), l, g)

LEMMA ReleaseSequence ==
  ASSUME NEW m, NEW D, NEW l, NEW g, NEW q \in Seq(Keys)
  PROVE  ReleasesAll(q, m, D, l, g)
<1> DEFINE S == {r \in Seq(Keys) : mieqProcessInputEvents(m, Kb(D, l, g), Marked(r, FALSE)) = Kb(D \ Members(r), l, g)}
<1>1. <<>> \in S
  <2>1. Marked(<<>>, FALSE) = <<>> /\ Members(<<>>) = {} /\ <<>> \in Seq(Keys) /\ D \ {} = D
    BY DEF Marked, Members
  <2>2. mieqProcessInputEvents(m, Kb(D, l, g), <<>>) = Kb(D, l, g)
    BY QueueEmpty
  <2> QED
    BY <2>1, <2>2
<1>2. \A r \in Seq(Keys), k \in Keys : r \in S => Append(r, k) \in S
  <2> SUFFICES ASSUME NEW r \in Seq(Keys), NEW k \in Keys, r \in S PROVE Append(r, k) \in S
    OBVIOUS
  <2>1. /\ Marked(r, FALSE) \in Seq(Event) /\ KeyUp(k) \in Event
        /\ Marked(Append(r, k), FALSE) = Append(Marked(r, FALSE), KeyUp(k))
        /\ Members(Append(r, k)) = Members(r) \cup {k}
    BY MarkedAppend DEF KeyUp
  <2>2. mieqProcessInputEvents(m, Kb(D, l, g), Append(Marked(r, FALSE), KeyUp(k)))
          = Process(m, mieqProcessInputEvents(m, Kb(D, l, g), Marked(r, FALSE)), KeyUp(k))
    BY <2>1, QueueAppend
  <2>3. Process(m, Kb(D \ Members(r), l, g), KeyUp(k)) = Kb((D \ Members(r)) \ {k}, l, g)
    BY ReleaseOnKb
  <2>4. (D \ Members(r)) \ {k} = D \ Members(Append(r, k))
    BY <2>1
  <2>5. Append(r, k) \in Seq(Keys)
    OBVIOUS
  <2> QED
    BY <2>1, <2>2, <2>3, <2>4, <2>5
<1>3. Seq(Keys) \subseteq S
  <2> HIDE DEF S
  <2> QED
    BY <1>1, <1>2, SequenceInduction
<1> QED
  BY <1>3 DEF ReleasesAll

LEMMA PressSetKey ==
  ASSUME NEW k \in SetKeys, NEW D, NEW l, NEW g
  PROVE  AfterPress(k, D, l, g) = Kb(D \cup {k}, l, g)
<1>1. BaseAction(k).kind = "set"
  BY DEF SetKeys, Sets, SetsMods, BaseAction
<1>2. Locks(k) = {} /\ Flip(k, g) = g
  BY <1>1 DEF Locks, Flip
<1>3. (l \ Locks(k)) \cup (Locks(k) \ l) = l
  BY <1>2
<1>4. CASE k \in D
  <2>1. D \cup {k} = D
    BY <1>4
  <2> QED
    BY <1>4, <2>1 DEF AfterPress
<1>5. CASE k \notin D
  BY <1>2, <1>3, <1>5 DEF AfterPress
<1> QED
  BY <1>4, <1>5

LEMMA PressSequence ==
  ASSUME ActionsAreFixed, CharactersAreNoModifiers, NEW m, OKMap(m),
         NEW D \in SUBSET Keys, NEW l \in SUBSET Lockable, NEW g \in {0, 1}, NEW q \in Seq(SetKeys)
  PROVE  PressesAll(q, m, D, l, g)
<1> DEFINE S == {r \in Seq(SetKeys) : mieqProcessInputEvents(m, Kb(D, l, g), Marked(r, TRUE)) = Kb(D \cup Members(r), l, g)}
<1>1. <<>> \in S
  <2>1. Marked(<<>>, TRUE) = <<>> /\ Members(<<>>) = {} /\ <<>> \in Seq(SetKeys) /\ D \cup {} = D
    BY DEF Marked, Members
  <2>2. mieqProcessInputEvents(m, Kb(D, l, g), <<>>) = Kb(D, l, g)
    BY QueueEmpty
  <2> QED
    BY <2>1, <2>2
<1>2. \A r \in Seq(SetKeys), k \in SetKeys : r \in S => Append(r, k) \in S
  <2> SUFFICES ASSUME NEW r \in Seq(SetKeys), NEW k \in SetKeys, r \in S PROVE Append(r, k) \in S
    OBVIOUS
  <2>0. r \in Seq(Keys) /\ k \in Keys /\ Append(r, k) \in Seq(SetKeys)
    BY DEF SetKeys
  <2>1. /\ Marked(r, TRUE) \in Seq(Event) /\ KeyDown(k) \in Event
        /\ Marked(Append(r, k), TRUE) = Append(Marked(r, TRUE), KeyDown(k))
        /\ Members(Append(r, k)) = Members(r) \cup {k}
    BY <2>0, MarkedAppend DEF KeyDown
  <2>2. mieqProcessInputEvents(m, Kb(D, l, g), Append(Marked(r, TRUE), KeyDown(k)))
          = Process(m, mieqProcessInputEvents(m, Kb(D, l, g), Marked(r, TRUE)), KeyDown(k))
    BY <2>1, QueueAppend
  <2>3. D \cup Members(r) \in SUBSET Keys
    BY <2>0 DEF Members
  <2>4. Process(m, Kb(D \cup Members(r), l, g), KeyDown(k)) = AfterPress(k, D \cup Members(r), l, g)
    <3> DEFINE D2 == D \cup Members(r)
    <3> HIDE DEF D2
    <3>1. D2 \in SUBSET Keys
      BY <2>3 DEF D2
    <3>2. Process(m, Kb(D2, l, g), KeyDown(k)) = AfterPress(k, D2, l, g)
      BY <2>0, <3>1, PressOnKb
    <3> QED
      BY <3>2 DEF D2
  <2>5. AfterPress(k, D \cup Members(r), l, g) = Kb((D \cup Members(r)) \cup {k}, l, g)
    BY PressSetKey
  <2>6. (D \cup Members(r)) \cup {k} = D \cup Members(Append(r, k))
    BY <2>1
  <2> QED
    BY <2>0, <2>1, <2>2, <2>4, <2>5, <2>6
<1>3. Seq(SetKeys) \subseteq S
  <2> HIDE DEF S
  <2> QED
    BY <1>1, <1>2, SequenceInduction
<1> QED
  BY <1>3 DEF PressesAll

LEMMA EventsInOrder ==
  ASSUME NEW ks \in SUBSET Keys
  PROVE  /\ InOrder(ks) \in Seq(ks) /\ InOrder(ks) \in Seq(Keys)
         /\ Members(InOrder(ks)) = ks
         /\ \A down : Events(ks, down) = Marked(InOrder(ks), down)
         /\ \A down \in BOOLEAN : Events(ks, down) \in Seq(Event)
<1>0. Keys \subseteq Nat /\ IsFiniteSet(Keys)
  BY KeymapAssumption
<1>1. IsFiniteSet(ks) /\ ks \in SUBSET Nat
  BY <1>0, FS_Subset
<1> DEFINE n == Cardinality(ks)
           s == InOrder(ks)
<1>2. n \in Nat /\ s \in [1..n -> ks] /\ \A x \in ks : \E i \in 1..n : s[i] = x
  BY <1>1, OrderIsAll
<1> HIDE DEF n, s
<1>3. s \in Seq(ks) /\ Len(s) = n
  BY <1>2
<1>4. Members(s) = ks
  BY <1>2, <1>3 DEF Members
<1>5. \A down : Events(ks, down) = Marked(s, down)
  BY <1>3 DEF Events, Marked, n, s
<1>6. s \in Seq(Keys)
  BY <1>3
<1>7. ASSUME NEW down \in BOOLEAN PROVE Events(ks, down) \in Seq(Event)
  <2>1. \A i \in 1..n : [press |-> down, key |-> s[i]] \in Event
    BY <1>2 DEF Event
  <2>2. Events(ks, down) = [i \in 1..n |-> [press |-> down, key |-> s[i]]]
    BY DEF Events, n, s
  <2> QED
    BY <1>2, <2>1, <2>2
<1> QED
  BY <1>3, <1>4, <1>5, <1>6, <1>7 DEF s

\* Releasing, and pressing, a set of keys in the order of their keycodes.
TurnsIn(es, P, R, m, D, l, g) ==
  mieqProcessInputEvents(m, Kb(D, l, g), es) = Kb((D \ R) \cup P, l, g)

LEMMA ReleaseEvents ==
  ASSUME NEW ks \in SUBSET Keys, NEW m, NEW D, NEW l, NEW g
  PROVE  TurnsIn(Events(ks, FALSE), {}, ks, m, D, l, g)
<1> DEFINE s == InOrder(ks)
<1>1. Members(s) = ks /\ Events(ks, FALSE) = Marked(s, FALSE) /\ s \in Seq(Keys)
  BY EventsInOrder
<1> HIDE DEF s
<1>2. ReleasesAll(s, m, D, l, g)
  BY <1>1, ReleaseSequence
<1>3. (D \ ks) \cup {} = D \ ks
  OBVIOUS
<1> QED
  BY <1>1, <1>2, <1>3 DEF ReleasesAll, TurnsIn

LEMMA PressEvents ==
  ASSUME ActionsAreFixed, CharactersAreNoModifiers, NEW m, OKMap(m), NEW ks \in SUBSET SetKeys,
         NEW D \in SUBSET Keys, NEW l \in SUBSET Lockable, NEW g \in {0, 1}
  PROVE  TurnsIn(Events(ks, TRUE), ks, {}, m, D, l, g)
<1>0. ks \in SUBSET Keys
  BY DEF SetKeys
<1> DEFINE s == InOrder(ks)
<1>1. Members(s) = ks /\ Events(ks, TRUE) = Marked(s, TRUE) /\ s \in Seq(ks)
  BY <1>0, EventsInOrder
<1> HIDE DEF s
<1>2. s \in Seq(SetKeys)
  BY <1>1
<1>3. PressesAll(s, m, D, l, g)
  BY <1>2, PressSequence
<1>4. (D \ {}) \cup ks = D \cup ks
  OBVIOUS
<1> QED
  BY <1>1, <1>3, <1>4 DEF PressesAll, TurnsIn

-----------------------------------------------------------------------------
(* Looking for keys. *)

LEMMA FirstKeyIsOne ==
  ASSUME NEW ks \in SUBSET Keys
  PROVE  (ks = {} /\ FirstKey(ks) = 0) \/ (FirstKey(ks) \in ks /\ FirstKey(ks) \in Keys /\ FirstKey(ks) # 0)
<1>0. Keys \subseteq Nat \ {0}
  BY KeymapAssumption
<1>1. CASE ks = {}
  BY <1>1 DEF FirstKey
<1>2. CASE ks # {}
  <2>1. \E x \in ks : \A y \in ks : x <= y
    BY <1>0, <1>2, Least
  <2>2. Min(ks) = CHOOSE x \in ks : \A y \in ks : x <= y
    BY DEF Min
  <2>3. Min(ks) \in ks
    BY <2>1, <2>2, Zenon
  <2>4. FirstKey(ks) = Min(ks)
    BY <1>2 DEF FirstKey
  <2> QED
    BY <1>0, <2>3, <2>4
<1> QED
  BY <1>1, <1>2

LEMMA KeyForIsOne ==
  ASSUME NEW m, NEW sym, NEW st
  PROVE  \/ KeyFor(m, sym, st) = 0 /\ ~ \E k \in Keys : Symbol(m[k], st) = sym
         \/ /\ KeyFor(m, sym, st) \in Keys /\ KeyFor(m, sym, st) # 0
            /\ Symbol(m[KeyFor(m, sym, st)], st) = sym
<1> DEFINE ks == {k \in Keys : Symbol(m[k], st) = sym}
           a == FirstKey(ks \ fakeKeys)
           b == FirstKey(ks)
<1>1. KeyFor(m, sym, st) = IF a # 0 THEN a ELSE b
  BY DEF KeyFor, RealFirst, FirstOf
<1>2. ks \in SUBSET Keys /\ ks \ fakeKeys \in SUBSET Keys
  OBVIOUS
<1>3. a = 0 \/ (a \in ks \ fakeKeys /\ a # 0)
  <2> HIDE DEF ks
  <2> QED
    BY <1>2, FirstKeyIsOne
<1>4. (ks = {} /\ b = 0) \/ (b \in ks /\ b # 0)
  <2> HIDE DEF ks
  <2> QED
    BY <1>2, FirstKeyIsOne
<1> HIDE DEF a, b
<1>5. CASE a # 0
  BY <1>1, <1>3, <1>5
<1>6. CASE a = 0
  BY <1>1, <1>4, <1>6
<1> QED
  BY <1>5, <1>6

LEMMA BareState ==
  ASSUME NEW st \in States
  PROVE  Bare(st) \in States /\ Bare(st) = [mods |-> {}, group |-> st.group]
  BY DEF States, Bare

\* The keysym of a spare key is never one of level three.
LEMMA SpareSymbol ==
  ASSUME CharactersAreNoModifiers, NEW rec, IsSpareKey(rec), NEW st \in States
  PROVE  Symbol(rec, st) \notin LevelThree
<1>1. CASE rec.groups = <<>>
  BY <1>1 DEF Symbol, WithLock, XkbTranslateKeyCode, NoSymbol, LevelThree
<1>2. ASSUME NEW sym \in Spares, GivesAdded(rec, sym)
      PROVE  Symbol(rec, st) \notin LevelThree
  <2>1. Symbol(rec, st) = Symbol(AddedKey(sym), st)
    BY <1>2, NameIsNothing
  <2> QED
    BY <2>1 DEF CharactersAreNoModifiers
<1> QED
  BY <1>1, <1>2 DEF IsSpareKey

LEMMA LevelThreeSymbol ==
  ASSUME CharactersAreNoModifiers, LevelThreeIsFixed, NEW m, OKMap(m), NEW k \in Keys,
         NEW st \in States, NEW s \in LevelThree
  PROVE  /\ Symbol(m[k], st) = s <=> Symbol(m[k], Bare(st)) = s
         /\ Symbol(m[k], st) = s => \A j \in Keys : Locks(j) \cap Sets(k) = {}
<1>1. CASE BaseMap[k].groups # <<>>
  <2>1. m[k] = BaseMap[k]
    BY <1>1 DEF OKMap
  <2> QED
    BY <2>1 DEF LevelThreeIsFixed
<1>2. CASE BaseMap[k].groups = <<>>
  <2>1. IsSpareKey(m[k])
    BY <1>2 DEF OKMap
  <2>2. Symbol(m[k], st) \notin LevelThree /\ Symbol(m[k], Bare(st)) \notin LevelThree
    BY <2>1, SpareSymbol, BareState
  <2> QED
    BY <2>2
<1> QED
  BY <1>1, <1>2

\* The level three key is the same in every state of a group.
LEMMA LevelThreeKeySame ==
  ASSUME CharactersAreNoModifiers, LevelThreeIsFixed, NEW m, OKMap(m), NEW st \in States
  PROVE  LevelThreeKey(m, st) = LevelThreeKey(m, Bare(st))
<1>1. ASSUME NEW s \in LevelThree PROVE KeyFor(m, s, st) = KeyFor(m, s, Bare(st))
  <2>1. {k \in Keys : Symbol(m[k], st) = s} = {k \in Keys : Symbol(m[k], Bare(st)) = s}
    BY LevelThreeSymbol
  <2> QED
    BY <2>1 DEF KeyFor
<1> QED
  BY <1>1 DEF LevelThreeKey, LevelThree

LEMMA LevelThreeKeyIsOne ==
  ASSUME CharactersAreNoModifiers, LevelThreeIsFixed, NEW m, OKMap(m), NEW st \in States
  PROVE  \/ LevelThreeKey(m, st) = 0
         \/ /\ LevelThreeKey(m, st) \in Keys /\ LevelThreeKey(m, st) # 0
            /\ \A j \in Keys : Locks(j) \cap Sets(LevelThreeKey(m, st)) = {}
<1> DEFINE a == KeyFor(m, "ISO_Level3_Shift", st)
           b == KeyFor(m, "Mode_switch", st)
<1>1. LevelThreeKey(m, st) = IF a # 0 THEN a ELSE b
  BY DEF LevelThreeKey, FirstOf
<1>2. a = 0 \/ (a \in Keys /\ a # 0 /\ Symbol(m[a], st) = "ISO_Level3_Shift")
  BY KeyForIsOne
<1>3. b = 0 \/ (b \in Keys /\ b # 0 /\ Symbol(m[b], st) = "Mode_switch")
  BY KeyForIsOne
<1> HIDE DEF a, b
<1>4. a = 0 \/ \A j \in Keys : Locks(j) \cap Sets(a) = {}
  BY <1>2, LevelThreeSymbol DEF LevelThree
<1>5. b = 0 \/ \A j \in Keys : Locks(j) \cap Sets(b) = {}
  BY <1>3, LevelThreeSymbol DEF LevelThree
<1> QED
  BY <1>1, <1>2, <1>3, <1>4, <1>5

LEMMA LevelThreeMask ==
  ASSUME ActionsAreFixed, CharactersAreNoModifiers, LevelThreeIsFixed,
         NEW m, OKMap(m), NEW st \in States
  PROVE  \/ LevelThreeKey(m, st) = 0 /\ lorieGetLevelThreeMask(m, st) = {}
         \/ /\ LevelThreeKey(m, st) \in Keys /\ LevelThreeKey(m, st) # 0
            /\ lorieGetLevelThreeMask(m, st) = Sets(LevelThreeKey(m, st))
            /\ lorieGetLevelThreeMask(m, st) \cap Lockable = {}
<1> DEFINE k == LevelThreeKey(m, st)
<1>1. k = LevelThreeKey(m, Bare(st)) /\ Bare(st) \in States
  BY LevelThreeKeySame, BareState
<1>2. lorieGetLevelThreeMask(m, st) = UNION {SetsMods(m[j], Bare(st)) : j \in {k} \ {0}}
  BY <1>1 DEF lorieGetLevelThreeMask
<1>3. \/ k = 0
      \/ k \in Keys /\ k # 0 /\ \A j \in Keys : Locks(j) \cap Sets(k) = {}
  BY LevelThreeKeyIsOne
<1> HIDE DEF k
<1>4. CASE k = 0
  BY <1>2, <1>4 DEF k
<1>5. CASE k # 0
  <2>1. SetsMods(m[k], Bare(st)) = Sets(k)
    BY <1>1, <1>3, <1>5, ActsAsInBase
  <2>2. lorieGetLevelThreeMask(m, st) = Sets(k)
    BY <1>2, <1>5, <2>1
  <2> QED
    BY <1>3, <1>5, <2>2 DEF k, Lockable
<1> QED
  BY <1>4, <1>5

-----------------------------------------------------------------------------
(* Fake modifiers: the keys P are pressed and R released before the key, and *)
(* the other way round after it.                                             *)

Turns(es, P, R) ==
  \A m, D, l, g :
    OKMap(m) /\ D \in SUBSET Keys /\ l \in SUBSET Lockable /\ g \in {0, 1} => TurnsIn(es, P, R, m, D, l, g)

IsFake(f, P, R) ==
  /\ P \in SUBSET SetKeys /\ R \in SUBSET SetKeys
  /\ f.before \in Seq(Event) /\ f.after \in Seq(Event)
  /\ Turns(f.before, P, R) /\ Turns(f.after, R, P)

LEMMA TurnsNothing == Turns(<<>>, {}, {})
<1> SUFFICES ASSUME NEW m, NEW D, NEW l, NEW g
             PROVE  TurnsIn(<<>>, {}, {}, m, D, l, g)
  BY DEF Turns
<1>1. (D \ {}) \cup {} = D
  OBVIOUS
<1> QED
  BY <1>1, QueueEmpty DEF TurnsIn

LEMMA TurnsOneOn ==
  ASSUME ActionsAreFixed, CharactersAreNoModifiers, NEW k \in SetKeys
  PROVE  <<KeyDown(k)>> \in Seq(Event) /\ Turns(<<KeyDown(k)>>, {k}, {})
<1>0. k \in Keys /\ KeyDown(k) \in Event
  BY DEF SetKeys, KeyDown, Event
<1>1. ASSUME NEW m, OKMap(m), NEW D \in SUBSET Keys, NEW l \in SUBSET Lockable, NEW g \in {0, 1}
      PROVE  TurnsIn(<<KeyDown(k)>>, {k}, {}, m, D, l, g)
  <2>1. mieqProcessInputEvents(m, Kb(D, l, g), <<KeyDown(k)>>) = Process(m, Kb(D, l, g), KeyDown(k))
    BY <1>0, QueueOne
  <2>2. Process(m, Kb(D, l, g), KeyDown(k)) = AfterPress(k, D, l, g)
    BY <1>0, <1>1, PressOnKb
  <2>3. AfterPress(k, D, l, g) = Kb(D \cup {k}, l, g)
    BY PressSetKey
  <2>4. (D \ {}) \cup {k} = D \cup {k}
    OBVIOUS
  <2> QED
    BY <2>1, <2>2, <2>3, <2>4, Zenon DEF TurnsIn
<1>2. <<KeyDown(k)>> \in Seq(Event)
  BY <1>0
<1> QED
  BY <1>1, <1>2 DEF Turns

LEMMA TurnsOneOff ==
  ASSUME NEW k \in SetKeys
  PROVE  <<KeyUp(k)>> \in Seq(Event) /\ Turns(<<KeyUp(k)>>, {}, {k})
<1>0. k \in Keys /\ KeyUp(k) \in Event
  BY DEF SetKeys, KeyUp, Event
<1>1. ASSUME NEW m, NEW D, NEW l, NEW g
      PROVE  TurnsIn(<<KeyUp(k)>>, {}, {k}, m, D, l, g)
  <2>1. mieqProcessInputEvents(m, Kb(D, l, g), <<KeyUp(k)>>) = Process(m, Kb(D, l, g), KeyUp(k))
    BY <1>0, QueueOne
  <2>2. Process(m, Kb(D, l, g), KeyUp(k)) = Kb(D \ {k}, l, g)
    BY ReleaseOnKb
  <2>3. (D \ {k}) \cup {} = D \ {k}
    OBVIOUS
  <2> QED
    BY <2>1, <2>2, <2>3, Zenon DEF TurnsIn
<1>2. <<KeyUp(k)>> \in Seq(Event)
  BY <1>0
<1> QED
  BY <1>1, <1>2 DEF Turns

LEMMA TurnsManyOff ==
  ASSUME NEW ks \in SUBSET SetKeys
  PROVE  Events(ks, FALSE) \in Seq(Event) /\ Turns(Events(ks, FALSE), {}, ks)
<1>0. ks \in SUBSET Keys
  BY DEF SetKeys
<1>1. ASSUME NEW m, NEW D, NEW l, NEW g
      PROVE  TurnsIn(Events(ks, FALSE), {}, ks, m, D, l, g)
  BY <1>0, ReleaseEvents
<1>2. Events(ks, FALSE) \in Seq(Event)
  BY <1>0, EventsInOrder
<1> QED
  BY <1>1, <1>2 DEF Turns

LEMMA TurnsManyOn ==
  ASSUME ActionsAreFixed, CharactersAreNoModifiers, NEW ks \in SUBSET SetKeys
  PROVE  Events(ks, TRUE) \in Seq(Event) /\ Turns(Events(ks, TRUE), ks, {})
<1>0. ks \in SUBSET Keys
  BY DEF SetKeys
<1>1. ASSUME NEW m, OKMap(m), NEW D \in SUBSET Keys, NEW l \in SUBSET Lockable, NEW g \in {0, 1}
      PROVE  TurnsIn(Events(ks, TRUE), ks, {}, m, D, l, g)
  BY <1>1, PressEvents
<1>2. Events(ks, TRUE) \in Seq(Event)
  BY <1>0, EventsInOrder
<1> QED
  BY <1>1, <1>2 DEF Turns

LEMMA NoFakeIsFake == IsFake(NoFake, {}, {}) /\ NoFake.ok
<1>1. NoFake.before = <<>> /\ NoFake.after = <<>> /\ NoFake.ok /\ <<>> \in Seq(Event)
  BY DEF NoFake
<1> QED
  BY <1>1, TurnsNothing DEF IsFake

LEMMA FakePressIsFake ==
  ASSUME ActionsAreFixed, CharactersAreNoModifiers, NEW k \in SetKeys
  PROVE  IsFake(FakePress(k), {k}, {}) /\ FakePress(k).ok
<1>0. k # 0
  BY KeymapAssumption DEF SetKeys
<1>1. FakePress(k).before = <<KeyDown(k)>> /\ FakePress(k).after = <<KeyUp(k)>> /\ FakePress(k).ok
  BY <1>0 DEF FakePress
<1>2. /\ <<KeyDown(k)>> \in Seq(Event) /\ Turns(<<KeyDown(k)>>, {k}, {})
      /\ <<KeyUp(k)>> \in Seq(Event) /\ Turns(<<KeyUp(k)>>, {}, {k})
  BY TurnsOneOn, TurnsOneOff
<1> QED
  BY <1>1, <1>2 DEF IsFake

LEMMA FakeReleaseIsFake ==
  ASSUME ActionsAreFixed, CharactersAreNoModifiers, NEW ks \in SUBSET SetKeys, ks # {}
  PROVE  IsFake(FakeRelease(ks), {}, ks) /\ FakeRelease(ks).ok
<1>1. /\ FakeRelease(ks).before = Events(ks, FALSE) /\ FakeRelease(ks).after = Events(ks, TRUE)
      /\ FakeRelease(ks).ok
  BY DEF FakeRelease
<1>2. /\ Events(ks, FALSE) \in Seq(Event) /\ Turns(Events(ks, FALSE), {}, ks)
      /\ Events(ks, TRUE) \in Seq(Event) /\ Turns(Events(ks, TRUE), ks, {})
  BY TurnsManyOn, TurnsManyOff
<1> QED
  BY <1>1, <1>2 DEF IsFake

LEMMA FailsIsNotOk ==
  ~FakePress(0).ok /\ ~FakeRelease({}).ok
  BY DEF FakePress, FakeRelease, FakeFails

FakeBy(f, D, P, R) == IsFake(f, P, R) /\ P \cap D = {} /\ R \subseteq D
FakeOn(f, D) == \E P, R : FakeBy(f, D, P, R)

\* A key that sets some modifier of a mask is a modifier key.
HoldersOf(D, mask) == {k \in D : Sets(k) \cap mask # {}}
IsHolding(ks, D, mask) ==
  /\ HoldersOf(D, mask) \in SUBSET SetKeys /\ HoldersOf(D, mask) \in SUBSET D
  /\ ks = IF Cardinality(HoldersOf(D, mask)) > 8 THEN {} ELSE HoldersOf(D, mask)

LEMMA HoldingKeysAre ==
  ASSUME ActionsAreFixed, CharactersAreNoModifiers, NEW m, OKMap(m),
         NEW D \in SUBSET Keys, NEW l \in SUBSET Lockable, NEW g \in {0, 1}, NEW mask
  PROVE  IsHolding(HoldingKeys(m, Kb(D, l, g), mask), D, mask)
<1> DEFINE st == lorieGetKeyboardState(Kb(D, l, g))
<1>1. st \in States
  BY KbState
<1>2. DOMAIN Kb(D, l, g).down = D
  BY KbParts
<1>3. \A k \in D : SetsMods(m[k], st) = Sets(k)
  <2> HIDE DEF st
  <2> QED
    BY <1>1, ActsAsInBase
<1>4. {k \in DOMAIN Kb(D, l, g).down : SetsMods(m[k], st) \cap mask # {}} = HoldersOf(D, mask)
  <2> HIDE DEF st
  <2> QED
    BY <1>2, <1>3 DEF HoldersOf
<1>5. HoldingKeys(m, Kb(D, l, g), mask)
        = IF Cardinality(HoldersOf(D, mask)) > 8 THEN {} ELSE HoldersOf(D, mask)
  BY <1>4, Zenon DEF HoldingKeys
<1> QED
  BY <1>5 DEF HoldersOf, SetKeys, IsHolding

\* Which keys a fake Shift and a fake level three press and release.
ShiftTurn(st, new, D, P, R) ==
  \/ "Shift" \in new.mods \ st.mods /\ R = {} /\ \E k \in Keys : P = {k} /\ "Shift" \in Sets(k)
  \/ "Shift" \in st.mods \ new.mods /\ P = {} /\ R = HoldersOf(D, {"Shift"})
  \/ P = {} /\ R = {} /\ ("Shift" \in new.mods <=> "Shift" \in st.mods)

LevelTurn(mask, st, new, D, P, R) ==
  \/ /\ new.mods \ {"Shift"} # st.mods \ {"Shift"} /\ st.mods \cap mask = {} /\ new.mods \cap mask # {}
     /\ R = {} /\ \E k \in Keys : P = {k} /\ Sets(k) = mask
  \/ /\ new.mods \ {"Shift"} # st.mods \ {"Shift"} /\ st.mods \cap mask # {} /\ new.mods \cap mask = {}
     /\ P = {} /\ R = HoldersOf(D, mask)
  \/ /\ P = {} /\ R = {}
     /\ \/ new.mods \ {"Shift"} = st.mods \ {"Shift"}
        \/ st.mods \cap mask = {} <=> new.mods \cap mask = {}

LEMMA ShiftIsFake ==
  ASSUME ActionsAreFixed, CharactersAreNoModifiers, NEW m, OKMap(m),
         NEW D \in SUBSET Keys, NEW l \in SUBSET Lockable, NEW g \in {0, 1}, NEW st, NEW new,
         st = lorieGetKeyboardState(Kb(D, l, g)), FakeShift(m, Kb(D, l, g), st, new).ok
  PROVE  \E P, R : FakeBy(FakeShift(m, Kb(D, l, g), st, new), D, P, R) /\ ShiftTurn(st, new, D, P, R)
<1> DEFINE f == FakeShift(m, Kb(D, l, g), st, new)
<1>1. st \in States /\ st.mods = ModsOf(D, l)
  BY KbState
<1>2. CASE "Shift" \in new.mods \ st.mods
  <2> DEFINE key == loriePressShift(m, st)
             ks == {k \in Keys : "Shift" \in SetsMods(m[k], st)}
  <2>1. f = FakePress(key)
    BY <1>2 DEF FakeShift
  <2>2. key = FirstKey(ks)
    BY DEF loriePressShift
  <2>3. key # 0
    <3> HIDE DEF key
    <3> QED
      BY <2>1, FailsIsNotOk
  <2>4. key \in ks
    <3>1. ks \in SUBSET Keys
      OBVIOUS
    <3> HIDE DEF ks, key
    <3> QED
      BY <2>2, <2>3, <3>1, FirstKeyIsOne
  <2> HIDE DEF key
  <2>5. key \in Keys /\ "Shift" \in Sets(key)
    BY <1>1, <2>4, ActsAsInBase
  <2>6. key \in SetKeys /\ key \notin D
    BY <1>1, <1>2, <2>5 DEF SetKeys, ModsOf
  <2>7. IsFake(FakePress(key), {key}, {})
    BY <2>6, FakePressIsFake
  <2>8. {key} \cap D = {} /\ {} \subseteq D
    BY <2>6
  <2>9. FakeBy(f, D, {key}, {})
    BY <2>1, <2>7, <2>8 DEF FakeBy
  <2>10. ShiftTurn(st, new, D, {key}, {})
    BY <1>2, <2>5 DEF ShiftTurn
  <2> QED
    BY <2>9, <2>10
<1>3. CASE "Shift" \notin new.mods \ st.mods /\ "Shift" \in st.mods \ new.mods
  <2> DEFINE ks == HoldingKeys(m, Kb(D, l, g), {"Shift"})
  <2>1. f = FakeRelease(ks)
    BY <1>3 DEF FakeShift, lorieReleaseShift
  <2>2. ks \in SUBSET SetKeys /\ ks \in SUBSET D /\ (ks # {} => ks = HoldersOf(D, {"Shift"}))
    <3>1. IsHolding(ks, D, {"Shift"})
      BY HoldingKeysAre
    <3> HIDE DEF ks
    <3> QED
      BY <3>1 DEF IsHolding
  <2> HIDE DEF ks
  <2>3. ks # {}
    BY <2>1, FailsIsNotOk
  <2>4. IsFake(FakeRelease(ks), {}, ks)
    BY <2>2, <2>3, FakeReleaseIsFake
  <2>5. FakeBy(f, D, {}, ks)
    BY <2>1, <2>2, <2>4 DEF FakeBy
  <2>6. ShiftTurn(st, new, D, {}, ks)
    BY <1>3, <2>2, <2>3 DEF ShiftTurn
  <2> QED
    BY <2>5, <2>6
<1>4. CASE "Shift" \notin new.mods \ st.mods /\ "Shift" \notin st.mods \ new.mods
  <2>1. f = NoFake
    BY <1>4 DEF FakeShift
  <2>2. FakeBy(f, D, {}, {})
    BY <2>1, NoFakeIsFake DEF FakeBy
  <2>3. ShiftTurn(st, new, D, {}, {})
    BY <1>4 DEF ShiftTurn
  <2> QED
    BY <2>2, <2>3
<1> QED
  BY <1>2, <1>3, <1>4

LEMMA LevelThreeIsFake ==
  ASSUME ActionsAreFixed, CharactersAreNoModifiers, LevelThreeIsFixed, NEW m, OKMap(m),
         NEW D \in SUBSET Keys, NEW l \in SUBSET Lockable, NEW g \in {0, 1}, NEW st, NEW new,
         st = lorieGetKeyboardState(Kb(D, l, g)), Cardinality(D) <= 8
  PROVE  /\ FakeLevelThree(m, Kb(D, l, g), st, new).ok
         /\ \E P, R : /\ FakeBy(FakeLevelThree(m, Kb(D, l, g), st, new), D, P, R)
                      /\ LevelTurn(lorieGetLevelThreeMask(m, st), st, new, D, P, R)
<1> DEFINE f == FakeLevelThree(m, Kb(D, l, g), st, new)
           mask == lorieGetLevelThreeMask(m, st)
           l3 == IF new.mods \ {"Shift"} # st.mods \ {"Shift"} THEN mask ELSE {}
           k == LevelThreeKey(m, st)
<1>1. st \in States /\ st.mods = ModsOf(D, l)
  BY KbState
<1>2. \/ k = 0 /\ mask = {}
      \/ k \in Keys /\ k # 0 /\ mask = Sets(k) /\ mask \cap Lockable = {}
  <2> HIDE DEF mask, k
  <2> QED
    BY <1>1, LevelThreeMask DEF mask, k
<1>3. CASE st.mods \cap l3 = {} /\ new.mods \cap l3 # {}
  <2>1. f = FakePress(loriePressLevelThree(m, st))
    BY <1>3 DEF FakeLevelThree
  <2>2. l3 = mask /\ k \in Keys /\ k # 0 /\ mask = Sets(k) /\ Sets(k) # {}
    <3> HIDE DEF k, mask
    <3> QED
      BY <1>2, <1>3
  <2>3. k \in SetKeys /\ k \notin D
    <3> HIDE DEF k, mask
    <3> QED
      BY <1>1, <1>3, <2>2 DEF SetKeys, ModsOf
  <2>4. XkbKeyActionPtr(m[k], st).kind = "set"
    <3>1. BaseAction(k).kind = "set"
      BY <2>2 DEF Sets, SetsMods, BaseAction
    <3> HIDE DEF k
    <3> QED
      BY <1>1, <2>2, <3>1, ActsAsInBase
  <2>5. {j \in {k} \ {0} : XkbKeyActionPtr(m[j], st).kind = "set"} = {k}
    <3> HIDE DEF k, mask
    <3> QED
      BY <2>2, <2>4
  <2>6. loriePressLevelThree(m, st) = k
    <3>1. loriePressLevelThree(m, st) = FirstKey({k})
      BY <2>5, Zenon DEF loriePressLevelThree
    <3>2. FirstKey({k}) \in {k}
      <4> HIDE DEF k, mask
      <4>1. {k} \in SUBSET Keys /\ {k} # {}
        BY <2>2
      <4> QED
        BY <4>1, FirstKeyIsOne
    <3> QED
      BY <3>1, <3>2
  <2> HIDE DEF k
  <2>7. IsFake(FakePress(k), {k}, {}) /\ FakePress(k).ok
    BY <2>3, FakePressIsFake
  <2>8. {k} \cap D = {} /\ {} \subseteq D
    BY <2>3
  <2>9. FakeBy(f, D, {k}, {}) /\ f.ok
    BY <2>1, <2>6, <2>7, <2>8 DEF FakeBy
  <2>10. LevelTurn(mask, st, new, D, {k}, {})
    <3> HIDE DEF mask
    <3> QED
      BY <1>3, <2>2 DEF LevelTurn
  <2> QED
    BY <2>9, <2>10
<1>4. CASE st.mods \cap l3 # {} /\ new.mods \cap l3 = {}
  <2> DEFINE ks == HoldingKeys(m, Kb(D, l, g), l3)
  <2>1. f = FakeRelease(ks)
    BY <1>4 DEF FakeLevelThree, lorieReleaseLevelThree
  <2>2. l3 = mask /\ mask \cap Lockable = {}
    <3> HIDE DEF k, mask
    <3> QED
      BY <1>2, <1>4
  <2>3. HoldersOf(D, l3) # {}
    <3> HIDE DEF mask
    <3>1. PICK x : x \in st.mods \cap mask
      BY <1>4, <2>2
    <3>2. x \notin l
      BY <2>2, <3>1
    <3>3. PICK j \in D : x \in Sets(j)
      BY <1>1, <3>1, <3>2 DEF ModsOf
    <3> QED
      BY <2>2, <3>1, <3>3 DEF HoldersOf
  <2> HIDE DEF l3
  <2>4. /\ HoldersOf(D, l3) \in SUBSET SetKeys /\ HoldersOf(D, l3) \in SUBSET D
        /\ ks = IF Cardinality(HoldersOf(D, l3)) > 8 THEN {} ELSE HoldersOf(D, l3)
    <3>1. IsHolding(ks, D, l3)
      BY HoldingKeysAre
    <3> HIDE DEF ks
    <3> QED
      BY <3>1 DEF IsHolding
  <2>5. Cardinality(HoldersOf(D, l3)) <= 8
    <3>1. IsFiniteSet(D)
      BY KeymapAssumption, FS_Subset
    <3>2. /\ Cardinality(HoldersOf(D, l3)) <= Cardinality(D)
          /\ Cardinality(D) \in Nat /\ Cardinality(HoldersOf(D, l3)) \in Nat
      BY <2>4, <3>1, FS_Subset, FS_CardinalityType
    <3> QED
      BY <3>2
  <2>6. ks = HoldersOf(D, l3)
    <3>1. Cardinality(HoldersOf(D, l3)) \in Nat
      BY <2>4, KeymapAssumption, FS_Subset, FS_CardinalityType
    <3> QED
      BY <2>4, <2>5, <3>1
  <2> HIDE DEF ks
  <2>7. IsFake(FakeRelease(ks), {}, ks) /\ FakeRelease(ks).ok
    BY <2>3, <2>4, <2>6, FakeReleaseIsFake
  <2>8. FakeBy(f, D, {}, ks) /\ f.ok
    BY <2>1, <2>4, <2>6, <2>7 DEF FakeBy
  <2>9. LevelTurn(mask, st, new, D, {}, ks)
    <3> HIDE DEF mask
    <3> QED
      BY <1>4, <2>2, <2>6 DEF LevelTurn, l3
  <2> QED
    BY <2>8, <2>9
<1>5. CASE ~(st.mods \cap l3 = {} /\ new.mods \cap l3 # {}) /\ ~(st.mods \cap l3 # {} /\ new.mods \cap l3 = {})
  <2>1. f = NoFake
    BY <1>5 DEF FakeLevelThree
  <2>2. FakeBy(f, D, {}, {}) /\ f.ok
    BY <2>1, NoFakeIsFake DEF FakeBy
  <2>3. LevelTurn(mask, st, new, D, {}, {})
    <3> HIDE DEF mask
    <3> QED
      BY <1>5 DEF LevelTurn
  <2> QED
    BY <2>2, <2>3
<1> QED
  BY <1>3, <1>4, <1>5

-----------------------------------------------------------------------------
(* Spare keycodes. *)

LEMMA MinIs ==
  ASSUME NEW S \in SUBSET Nat, S # {}
  PROVE  Min(S) \in S /\ \A y \in S : Min(S) <= y
<1>1. \E x \in S : \A y \in S : x <= y
  BY Least
<1>2. Min(S) = CHOOSE x \in S : \A y \in S : x <= y
  BY DEF Min
<1> QED
  BY <1>1, <1>2, Zenon

LEMMA MaxIs ==
  ASSUME NEW S \in SUBSET Nat, IsFiniteSet(S), S # {}
  PROVE  Max(S) \in S /\ \A y \in S : y <= Max(S)
<1> DEFINE n == Cardinality(S)
           s == InOrder(S)
<1>1. /\ n \in Nat /\ s \in [1..n -> S] /\ \A i, j \in 1..n : i < j => s[i] < s[j]
      /\ \A x \in S : \E i \in 1..n : s[i] = x
  BY OrderIsAll
<1> HIDE DEF s
<1>2. n # 0
  BY FS_EmptySet
<1> HIDE DEF n
<1>3. n \in 1..n /\ s[n] \in S
  BY <1>1, <1>2
<1>4. ASSUME NEW y \in S PROVE s[n] >= y
  <2>1. PICK i \in 1..n : s[i] = y
    BY <1>1
  <2>2. i = n \/ i < n
    BY <1>1
  <2>3. s[i] \in Nat /\ s[n] \in Nat
    BY <1>1, <1>3, <2>1
  <2> QED
    BY <1>1, <1>3, <2>1, <2>2, <2>3
<1>5. \E x \in S : \A y \in S : x >= y
  BY <1>3, <1>4
<1>6. Max(S) = CHOOSE x \in S : \A y \in S : x >= y
  BY DEF Max
<1>7. Max(S) \in S /\ \A y \in S : Max(S) >= y
  BY <1>5, <1>6, Zenon
<1>8. \A y \in S : y \in Nat /\ Max(S) \in Nat
  BY <1>7
<1> QED
  BY <1>7, <1>8

Free == {k \in Keys : BaseMap[k].groups = <<>>}
Item == [key : Free, sym : {Lower[sym] : sym \in Typed}]

LEMMA UnusedIsFree ==
  ASSUME NEW m, OKMap(m)
  PROVE  Unused(m) \in SUBSET Free
  BY DEF OKMap, Unused, Free

LEMMA FreeIsFinite ==
  ASSUME NEW S \in SUBSET Free
  PROVE  S \in SUBSET Nat /\ S \in SUBSET Keys /\ IsFiniteSet(S)
<1>1. S \in SUBSET Keys
  BY DEF Free
<1> QED
  BY <1>1, KeymapAssumption, FS_Subset

LEMMA ReusableIsFree ==
  ASSUME NEW m, NEW added \in Seq(Item)
  PROVE  /\ getReusableKeycode(m, added).rest \in Seq(Item)
         /\ getReusableKeycode(m, added).key \in Free \cup {0}
<1> DEFINE usable == {i \in DOMAIN added : Unmodified(m, added[i])}
<1>0. DOMAIN added = 1..Len(added) /\ Len(added) \in Nat
  OBVIOUS
<1>1. CASE usable = {}
  <2>1. getReusableKeycode(m, added) = [key |-> 0, rest |-> <<>>]
    BY <1>1 DEF getReusableKeycode
  <2> QED
    BY <2>1
<1>2. CASE usable # {}
  <2>1. getReusableKeycode(m, added)
          = [key |-> added[Max(usable)].key, rest |-> SubSeq(added, 1, Max(usable) - 1)]
    BY <1>2 DEF getReusableKeycode
  <2>2. usable \in SUBSET (1..Len(added))
    BY <1>0
  <2> HIDE DEF usable
  <2>3. usable \in SUBSET Nat /\ IsFiniteSet(usable)
    <3>1. IsFiniteSet(1..Len(added))
      BY <1>0, FS_Interval
    <3>2. IsFiniteSet(usable)
      BY <2>2, <3>1, FS_Subset
    <3> QED
      BY <2>2, <3>2
  <2>4. Max(usable) \in usable
    BY <1>2, <2>3, MaxIs
  <2>5. Max(usable) \in 1..Len(added)
    BY <2>2, <2>4
  <2>6. added[Max(usable)] \in Item
    BY <2>5
  <2>7. SubSeq(added, 1, Max(usable) - 1) \in Seq(Item)
    BY <1>0, <2>5
  <2> QED
    BY <2>1, <2>6, <2>7 DEF Item
<1> QED
  BY <1>1, <1>2

LEMMA AddedIsSpare ==
  ASSUME NEW sym \in Typed
  PROVE  IsSpareKey(AddedKey(sym))
  BY DEF IsSpareKey, GivesAdded, Spares

LEMMA AddKeeps ==
  ASSUME NEW m, OKMap(m), NEW added \in Seq(Item), NEW sym \in Typed
  PROVE  /\ OKMap(lorieAddKeysym(m, added, sym).map)
         /\ lorieAddKeysym(m, added, sym).added \in Seq(Item)
<1> DEFINE r == IF Unused(m) # {} THEN [key |-> Max(Unused(m)), rest |-> added]
                ELSE getReusableKeycode(m, added)
<1>1. r.key \in Free \cup {0} /\ r.rest \in Seq(Item)
  <2>1. CASE Unused(m) # {}
    <3>1. Unused(m) \in SUBSET Free
      BY UnusedIsFree
    <3>2. Unused(m) \in SUBSET Nat /\ IsFiniteSet(Unused(m))
      BY <3>1, FreeIsFinite
    <3>3. Max(Unused(m)) \in Unused(m)
      BY <2>1, <3>2, MaxIs
    <3> QED
      BY <2>1, <3>1, <3>3
  <2>2. CASE Unused(m) = {}
    BY <2>2, ReusableIsFree
  <2> QED
    BY <2>1, <2>2
<1>2. lorieAddKeysym(m, added, sym) =
        IF r.key = 0 THEN [map |-> m, added |-> r.rest]
        ELSE [map |-> [m EXCEPT ![r.key] = AddedKey(sym)],
              added |-> <<[key |-> r.key, sym |-> SavedKeysym(sym)]>> \o r.rest]
  BY DEF lorieAddKeysym
<1> HIDE DEF r
<1>3. CASE r.key = 0
  BY <1>1, <1>2, <1>3
<1>4. CASE r.key # 0
  <2>1. r.key \in Free
    BY <1>1, <1>4
  <2>2. [key |-> r.key, sym |-> SavedKeysym(sym)] \in Item
    BY <2>1 DEF Item, SavedKeysym
  <2>3. <<[key |-> r.key, sym |-> SavedKeysym(sym)]>> \o r.rest \in Seq(Item)
    BY <1>1, <2>2
  <2>4. OKMap([m EXCEPT ![r.key] = AddedKey(sym)])
    <3> DEFINE n == [m EXCEPT ![r.key] = AddedKey(sym)]
    <3>1. DOMAIN n = Keys /\ \A k \in Keys : n[k] = IF k = r.key THEN AddedKey(sym) ELSE m[k]
      BY DEF OKMap
    <3>2. BaseMap[r.key].groups = <<>> /\ IsSpareKey(AddedKey(sym))
      BY <2>1, AddedIsSpare DEF Free
    <3> HIDE DEF n
    <3>3. OKMap(n)
      BY <3>1, <3>2 DEF OKMap
    <3> QED
      BY <3>3 DEF n
  <2> QED
    BY <1>2, <1>4, <2>3, <2>4
<1> QED
  BY <1>3, <1>4

LEMMA UsedKeeps ==
  ASSUME NEW added \in Seq(Item), NEW key
  PROVE  vncOnKeyUsed(added, key) \in Seq(Item)
<1> DEFINE at == {i \in DOMAIN added : added[i].key = key}
<1>0. DOMAIN added = 1..Len(added) /\ Len(added) \in Nat
  OBVIOUS
<1>1. CASE at = {}
  BY <1>1 DEF vncOnKeyUsed
<1>2. CASE at # {}
  <2>1. vncOnKeyUsed(added, key) = <<added[Min(at)]>> \o RemoveAt(added, Min(at))
    BY <1>2 DEF vncOnKeyUsed
  <2>2. at \in SUBSET (1..Len(added)) /\ at \in SUBSET Nat
    BY <1>0
  <2> HIDE DEF at
  <2>3. Min(at) \in 1..Len(added)
    BY <1>2, <2>2, MinIs
  <2>4. added[Min(at)] \in Item
    BY <2>3
  <2>5. RemoveAt(added, Min(at)) \in Seq(Item)
    BY <1>0, <2>3 DEF RemoveAt
  <2> QED
    BY <2>1, <2>4, <2>5
<1> QED
  BY <1>1, <1>2

-----------------------------------------------------------------------------
(* The key found for a keysym gives it in one of the states tried. *)

Tried(m, st) ==
  {s \in States : \E i \in DOMAIN StatesTried(st, lorieGetLevelThreeMask(m, st)) :
                    s = StatesTried(st, lorieGetLevelThreeMask(m, st))[i]}

Found(m, syms, st, r) ==
  /\ r = [key |-> r.key, state |-> r.state]
  /\ \/ r.key = 0
     \/ r.key \in Keys /\ r.key # 0 /\ r.state \in Tried(m, st) /\ Symbol(m[r.key], r.state) \in syms

LEMMA ToggleState ==
  ASSUME NEW st \in States, NEW mask \in SUBSET Mods
  PROVE  Toggle(st, mask) \in States
  BY DEF Toggle, States

LEMMA TriedAreStates ==
  ASSUME NEW st \in States, NEW l3 \in SUBSET Mods
  PROVE  StatesTried(st, l3) \in Seq(States) /\ Len(StatesTried(st, l3)) \in {2, 4}
<1> DEFINE a == Toggle(st, {"Shift"})
           b == Toggle(st, l3)
           c == Toggle(a, l3)
<1>0. {"Shift"} \in SUBSET Mods
  BY DEF Mods
<1>1. a \in States
  BY <1>0, ToggleState
<1>2. b \in States
  BY ToggleState
<1>3. c \in States
  <2> HIDE DEF a
  <2> QED
    BY <1>1, ToggleState
<1>4. StatesTried(st, l3) = IF l3 = {} THEN <<st, a>> ELSE <<st, a, b, c>>
  BY DEF StatesTried
<1> HIDE DEF a, b, c
<1> QED
  BY <1>1, <1>2, <1>3, <1>4

LEMMA MaskIsMods ==
  ASSUME ActionsAreFixed, CharactersAreNoModifiers, LevelThreeIsFixed, NEW m, OKMap(m), NEW st \in States
  PROVE  lorieGetLevelThreeMask(m, st) \in SUBSET Mods
<1>1. \/ lorieGetLevelThreeMask(m, st) = {}
      \/ LevelThreeKey(m, st) \in Keys /\ lorieGetLevelThreeMask(m, st) = Sets(LevelThreeKey(m, st))
  BY LevelThreeMask
<1> QED
  BY <1>1, SetsAreMods

LEMMA FirstHitIs ==
  ASSUME NEW hits, NEW n \in {2, 4}, DOMAIN hits = 1..n, Len(hits) = n
  PROVE  \E i \in 1..n : /\ FirstHit(hits) = hits[i]
                         /\ \A j \in 1..(i - 1) : hits[j].key = 0
                         /\ hits[i].key = 0 => \A j \in 1..n : hits[j].key = 0
<1> DEFINE S == {i \in 1..n : hits[i].key # 0}
<1>1. CASE S = {}
  <2>1. FirstHit(hits) = hits[n]
    BY <1>1 DEF FirstHit, Last
  <2> QED
    BY <1>1, <2>1
<1>2. CASE S # {}
  <2>1. S \in SUBSET Nat
    OBVIOUS
  <2>2. PICK x \in S : \A y \in S : x <= y
    <3> HIDE DEF S
    <3> QED
      BY <1>2, <2>1, Least
  <2>3. \A j \in 1..(x - 1) : j \in 1..n /\ hits[j].key = 0
    BY <2>2
  <2> DEFINE i == CHOOSE i \in DOMAIN hits : hits[i].key # 0 /\ \A j \in 1..(i - 1) : hits[j].key = 0
  <2>4. i \in DOMAIN hits /\ hits[i].key # 0 /\ \A j \in 1..(i - 1) : hits[j].key = 0
    <3>1. x \in DOMAIN hits /\ hits[x].key # 0
      BY <2>2
    <3> QED
      BY <2>3, <3>1, Zenon
  <2>5. FirstHit(hits) = hits[i]
    <3>1. \E d \in DOMAIN hits : hits[d].key # 0
      BY <2>2
    <3> QED
      BY <3>1, Zenon DEF FirstHit
  <2> HIDE DEF i
  <2> QED
    BY <2>4, <2>5
<1> QED
  BY <1>1, <1>2

LEMMA KeycodeIsFound ==
  ASSUME ActionsAreFixed, CharactersAreNoModifiers, LevelThreeIsFixed, NEW m, OKMap(m),
         NEW st \in States, NEW sym
  PROVE  Found(m, {sym}, st, lorieKeysymToKeycode(m, sym, st))
<1> DEFINE l3 == lorieGetLevelThreeMask(m, st)
           states == StatesTried(st, l3)
           hits == Hits(m, sym, states)
           n == Len(states)
<1>1. states \in Seq(States) /\ n \in {2, 4}
  <2>1. l3 \in SUBSET Mods
    BY MaskIsMods
  <2> HIDE DEF l3
  <2> QED
    BY <2>1, TriedAreStates
<1> HIDE DEF l3
<1>2. hits = [i \in 1..n |-> [key |-> KeyFor(m, sym, states[i]), state |-> states[i]]]
  <2> HIDE DEF states
  <2> QED
    BY <1>1 DEF Hits
<1>3. DOMAIN hits = 1..n /\ Len(hits) = n
  <2> HIDE DEF hits, states
  <2> QED
    BY <1>1, <1>2
<1>4. lorieKeysymToKeycode(m, sym, st) = FirstHit(hits)
  BY DEF lorieKeysymToKeycode, l3
<1> HIDE DEF hits, states
<1>5. PICK i \in 1..n : FirstHit(hits) = hits[i]
  BY <1>1, <1>3, FirstHitIs
<1>6. hits[i] = [key |-> KeyFor(m, sym, states[i]), state |-> states[i]]
  BY <1>2
<1> DEFINE s == states[i]
           k == KeyFor(m, sym, s)
<1>7. s \in Tried(m, st)
  BY <1>1 DEF Tried, states, l3
<1>8. k = 0 \/ (k \in Keys /\ k # 0 /\ Symbol(m[k], s) = sym)
  BY KeyForIsOne
<1> HIDE DEF s, k
<1>9. FirstHit(hits) = [key |-> k, state |-> s]
  BY <1>5, <1>6 DEF s, k
<1> QED
  BY <1>4, <1>7, <1>8, <1>9 DEF Found

SameMeaning(sym) == {sym} \cup Alternatives(sym)

LEMMA FoundMore ==
  ASSUME NEW m, NEW S, NEW T, S \subseteq T, NEW st, NEW r, Found(m, S, st, r)
  PROVE  Found(m, T, st, r)
  BY DEF Found

LEMMA AlternativesFound ==
  ASSUME ActionsAreFixed, CharactersAreNoModifiers, LevelThreeIsFixed, NEW m, OKMap(m),
         NEW st \in States, NEW sym, NEW r \in AlternativeKeys(m, sym, st)
  PROVE  Found(m, SameMeaning(sym), st, r) /\ r.key # 0
<1>1. PICK a \in Alternatives(sym) : r = lorieKeysymToKeycode(m, a, st) /\ r.key # 0
  BY DEF AlternativeKeys
<1>2. Found(m, {a}, st, r)
  BY <1>1, KeycodeIsFound
<1>3. {a} \subseteq SameMeaning(sym)
  BY DEF SameMeaning
<1> QED
  BY <1>1, <1>2, <1>3, FoundMore

LEMMA FindKeyIsFound ==
  ASSUME ActionsAreFixed, CharactersAreNoModifiers, LevelThreeIsFixed, NEW m, OKMap(m),
         NEW st \in States, NEW sym
  PROVE  /\ Found(m, SameMeaning(sym), st, FindKey(m, sym, st))
         /\ Found(m, SameMeaning(sym), st, lorieKeysymToKeycode(m, sym, st))
<1> DEFINE r == lorieKeysymToKeycode(m, sym, st)
           others == AlternativeKeys(m, sym, st)
<1>1. Found(m, SameMeaning(sym), st, r)
  <2>1. Found(m, {sym}, st, r)
    BY KeycodeIsFound
  <2>2. {sym} \subseteq SameMeaning(sym)
    BY DEF SameMeaning
  <2> HIDE DEF r
  <2> QED
    BY <2>1, <2>2, FoundMore
<1>2. FindKey(m, sym, st) = IF r.key # 0 THEN r ELSE IF others = {} THEN r ELSE CHOOSE x \in others : TRUE
  BY DEF FindKey, OrAlternative, AnyOf
<1>3. \A x \in others : Found(m, SameMeaning(sym), st, x)
  BY AlternativesFound
<1> HIDE DEF r, others
<1>4. CASE r.key # 0 \/ others = {}
  BY <1>1, <1>2, <1>4 DEF r
<1>5. CASE r.key = 0 /\ others # {}
  <2>1. FindKey(m, sym, st) \in others
    BY <1>2, <1>5
  <2> QED
    BY <1>1, <1>3, <2>1 DEF r
<1> QED
  BY <1>4, <1>5

LEMMA AvoidIsFound ==
  ASSUME ActionsAreFixed, CharactersAreNoModifiers, LevelThreeIsFixed, NEW m, OKMap(m),
         NEW st \in States, NEW sym, NEW r, Found(m, SameMeaning(sym), st, r), r.key # 0
  PROVE  Found(m, SameMeaning(sym), st, AvoidFakeShift(m, sym, st, r)) /\ AvoidFakeShift(m, sym, st, r).key # 0
<1> DEFINE others == {x \in AlternativeKeys(m, sym, st) : ~ShiftsNumpad(m, st, x)}
           a == AvoidFakeShift(m, sym, st, r)
<1>1. a = IF ShiftsNumpad(m, st, r) THEN (IF others = {} THEN r ELSE CHOOSE x \in others : TRUE) ELSE r
  BY DEF AvoidFakeShift, AnyOf
<1>2. \A x \in others : Found(m, SameMeaning(sym), st, x) /\ x.key # 0
  BY AlternativesFound
<1> HIDE DEF others
<1>3. a = r \/ a \in others
  BY <1>1
<1> HIDE DEF a
<1> QED
  BY <1>2, <1>3 DEF a

\* What lorieKeysymKeyboardEvent settles on: a key found for the keysym, whose
\* state gets Shift as well if it is Tab.
IsChoice(c, sym, st) ==
  /\ OKMap(c.map) /\ c.added \in Seq(Item)
  /\ \E r : /\ Found(c.map, SameMeaning(sym), st, r)
            /\ c.hit = IF r.key = 0 THEN r ELSE KeepShiftTab(sym, st, r)

LEMMA ChosenIs ==
  ASSUME ActionsAreFixed, CharactersAreNoModifiers, LevelThreeIsFixed, NEW m, OKMap(m),
         NEW added \in Seq(Item), NEW st \in States, NEW sym, NEW r, Found(m, SameMeaning(sym), st, r)
  PROVE  IsChoice(Chosen(m, added, sym, st, r), sym, st)
<1> DEFINE c == Chosen(m, added, sym, st, r)
           a == AvoidFakeShift(m, sym, st, r)
<1>1. /\ c.map = m /\ c.added = added
      /\ c.hit = IF r.key = 0 THEN r ELSE KeepShiftTab(sym, st, a)
  BY DEF Chosen
<1>2. r.key # 0 => Found(m, SameMeaning(sym), st, a) /\ a.key # 0
  BY AvoidIsFound
<1> HIDE DEF c, a
<1>3. CASE r.key = 0
  BY <1>1, <1>3 DEF IsChoice, c
<1>4. CASE r.key # 0
  <2>1. c.hit = IF a.key = 0 THEN a ELSE KeepShiftTab(sym, st, a)
    BY <1>1, <1>2, <1>4
  <2>2. IsChoice(c, sym, st)
    BY <1>1, <1>2, <1>4, <2>1 DEF IsChoice
  <2> QED
    BY <2>2 DEF c
<1> QED
  BY <1>3, <1>4

LEMMA ChoiceIs ==
  ASSUME ActionsAreFixed, CharactersAreNoModifiers, LevelThreeIsFixed, NEW m, OKMap(m),
         NEW added \in Seq(Item), NEW st \in States, NEW sym \in Typed
  PROVE  IsChoice(Choice(m, added, sym, st), sym, st)
<1> DEFINE r == FindKey(m, sym, st)
           add == lorieAddKeysym(m, added, sym)
<1>1. Found(m, SameMeaning(sym), st, r)
  BY FindKeyIsFound
<1>2. OKMap(add.map) /\ add.added \in Seq(Item)
  BY AddKeeps
<1>3. Choice(m, added, sym, st)
        = IF r.key # 0 THEN Chosen(m, added, sym, st, r)
          ELSE Chosen(add.map, add.added, sym, st, lorieKeysymToKeycode(add.map, sym, st))
  BY DEF Choice, KeyOrAdd, ChosenAfterAdding
<1> HIDE DEF r, add
<1>4. CASE r.key # 0
  BY <1>1, <1>3, <1>4, ChosenIs
<1>5. CASE r.key = 0
  <2> DEFINE n == add.map
             d == add.added
             h == lorieKeysymToKeycode(n, sym, st)
  <2> HIDE DEF n, d
  <2>1. OKMap(n) /\ d \in Seq(Item)
    BY <1>2 DEF n, d
  <2>2. Found(n, SameMeaning(sym), st, h)
    BY <2>1, FindKeyIsFound
  <2> HIDE DEF h
  <2>3. IsChoice(Chosen(n, d, sym, st, h), sym, st)
    BY <2>1, <2>2, ChosenIs
  <2>4. Choice(m, added, sym, st) = Chosen(n, d, sym, st, h)
    BY <1>3, <1>5 DEF n, d, h
  <2> QED
    BY <2>3, <2>4
<1> QED
  BY <1>4, <1>5

PlainKey(k) == BaseAction(k).kind \notin {"set", "lock", "group"}

LEMMA FoundIsPlain ==
  ASSUME CharactersAreNoModifiers, NEW m, OKMap(m), NEW st, NEW sym \in Typed, NEW r,
         Found(m, SameMeaning(sym), st, r), r.key # 0
  PROVE  r.key \in Keys /\ PlainKey(r.key)
<1>1. r.key \in Keys /\ r.state \in States /\ Symbol(m[r.key], r.state) \in SameMeaning(sym)
  BY DEF Found, Tried
<1>2. CASE BaseMap[r.key].groups # <<>>
  <2>1. m[r.key] = BaseMap[r.key]
    BY <1>1, <1>2 DEF OKMap
  <2> QED
    BY <1>1, <2>1 DEF CharactersAreNoModifiers, SameMeaning, PlainKey
<1>3. CASE BaseMap[r.key].groups = <<>>
  <2>1. BaseAction(r.key) = NoAction
    BY <1>3 DEF BaseAction, XkbKeyActionPtr
  <2> QED
    BY <1>1, <2>1 DEF NoAction, PlainKey
<1> QED
  BY <1>2, <1>3

LEMMA ChoiceIsPlain ==
  ASSUME CharactersAreNoModifiers, NEW st, NEW sym \in Typed, NEW c, IsChoice(c, sym, st), c.hit.key # 0
  PROVE  c.hit.key \in Keys /\ PlainKey(c.hit.key)
<1>1. PICK r : /\ Found(c.map, SameMeaning(sym), st, r)
               /\ c.hit = IF r.key = 0 THEN r ELSE KeepShiftTab(sym, st, r)
  BY DEF IsChoice
<1>2. KeepShiftTab(sym, st, r).key = r.key
  <2>1. r = [key |-> r.key, state |-> r.state]
    BY <1>1 DEF Found
  <2> QED
    BY <2>1 DEF KeepShiftTab
<1>3. r.key # 0 /\ c.hit.key = r.key
  BY <1>1, <1>2
<1>4. OKMap(c.map)
  BY DEF IsChoice
<1>5. r.key \in Keys /\ PlainKey(r.key)
  BY <1>1, <1>3, <1>4, FoundIsPlain
<1> QED
  BY <1>3, <1>5

-----------------------------------------------------------------------------
(* A character: fake modifiers, the key, and the modifiers undone. *)

LEMMA PressPlainKey ==
  ASSUME NEW k \in Keys, PlainKey(k), NEW D, NEW l, NEW g
  PROVE  AfterPress(k, D, l, g) = Kb(D \cup {k}, l, g) /\ Sets(k) = {}
<1>1. Locks(k) = {} /\ Flip(k, g) = g
  BY DEF Locks, Flip, PlainKey
<1>2. Sets(k) = {}
  BY DEF PlainKey, Sets, SetsMods, BaseAction
<1>3. (l \ Locks(k)) \cup (Locks(k) \ l) = l
  BY <1>1
<1>4. CASE k \in D
  <2>1. D \cup {k} = D
    BY <1>4
  <2> QED
    BY <1>2, <1>4, <2>1 DEF AfterPress
<1>5. CASE k \notin D
  BY <1>1, <1>2, <1>3, <1>5 DEF AfterPress
<1> QED
  BY <1>4, <1>5

TurnsTwo(p, q, P1, R1, P2, R2, m, D, l, g) ==
  mieqProcessInputEvents(m, Kb(D, l, g), p \o q) = Kb((((D \ R1) \cup P1) \ R2) \cup P2, l, g)

LEMMA TurnsTwice ==
  ASSUME NEW p \in Seq(Event), NEW q \in Seq(Event), NEW P1 \in SUBSET SetKeys, NEW R1 \in SUBSET SetKeys,
         NEW P2, NEW R2, Turns(p, P1, R1), Turns(q, P2, R2),
         NEW m, OKMap(m), NEW D \in SUBSET Keys, NEW l \in SUBSET Lockable, NEW g \in {0, 1}
  PROVE  TurnsTwo(p, q, P1, R1, P2, R2, m, D, l, g)
<1> DEFINE D1 == (D \ R1) \cup P1
<1>1. D1 \in SUBSET Keys
  BY DEF SetKeys
<1>2. mieqProcessInputEvents(m, Kb(D, l, g), p) = Kb(D1, l, g)
  BY DEF Turns, TurnsIn
<1> HIDE DEF D1
<1>3. mieqProcessInputEvents(m, Kb(D1, l, g), q) = Kb((D1 \ R2) \cup P2, l, g)
  BY <1>1 DEF Turns, TurnsIn
<1>4. mieqProcessInputEvents(m, Kb(D, l, g), p \o q)
        = mieqProcessInputEvents(m, mieqProcessInputEvents(m, Kb(D, l, g), p), q)
  BY QueueConcat
<1> QED
  BY <1>2, <1>3, <1>4 DEF D1, TurnsTwo

\* Whatever was faked, the key is all that has come to the keys that are down.
LEMMA FakesCancel ==
  ASSUME ActionsAreFixed, CharactersAreNoModifiers, NEW f1, NEW f2, NEW m, OKMap(m),
         NEW D \in SUBSET Keys, NEW l \in SUBSET Lockable, NEW g \in {0, 1},
         FakeOn(f1, D), FakeOn(f2, D), NEW k \in Keys, PlainKey(k)
  PROVE  mieqProcessInputEvents(m, mieqProcessInputEvents(m, Kb(D, l, g), f1.before \o f2.before),
                                <<KeyDown(k)>> \o (f2.after \o f1.after))
           = Kb(D \cup {k}, l, g)
<1>1. PICK P1, R1 : IsFake(f1, P1, R1) /\ P1 \cap D = {} /\ R1 \subseteq D
  BY DEF FakeOn, FakeBy
<1>2. PICK P2, R2 : IsFake(f2, P2, R2) /\ P2 \cap D = {} /\ R2 \subseteq D
  BY DEF FakeOn, FakeBy
<1>3. /\ P1 \in SUBSET SetKeys /\ R1 \in SUBSET SetKeys /\ Turns(f1.before, P1, R1) /\ Turns(f1.after, R1, P1)
      /\ f1.before \in Seq(Event) /\ f1.after \in Seq(Event)
  BY <1>1 DEF IsFake
<1>4. /\ P2 \in SUBSET SetKeys /\ R2 \in SUBSET SetKeys /\ Turns(f2.before, P2, R2) /\ Turns(f2.after, R2, P2)
      /\ f2.before \in Seq(Event) /\ f2.after \in Seq(Event)
  BY <1>2 DEF IsFake
<1> DEFINE D2 == (((D \ R1) \cup P1) \ R2) \cup P2
           D3 == D2 \cup {k}
           D5 == (((D3 \ P2) \cup R2) \ P1) \cup R1
<1>5. mieqProcessInputEvents(m, Kb(D, l, g), f1.before \o f2.before) = Kb(D2, l, g)
  <2>1. TurnsTwo(f1.before, f2.before, P1, R1, P2, R2, m, D, l, g)
    BY <1>3, <1>4, TurnsTwice
  <2> QED
    BY <2>1 DEF TurnsTwo
<1>6. D2 \in SUBSET Keys /\ D3 \in SUBSET Keys
  BY <1>3, <1>4 DEF SetKeys
<1>7. Sets(k) = {} /\ k \notin P1 /\ k \notin P2
  BY <1>3, <1>4, PressPlainKey DEF SetKeys
<1>8. D5 = D \cup {k}
  BY <1>1, <1>2, <1>7
<1> HIDE DEF D2
<1>9. mieqProcessInputEvents(m, Kb(D2, l, g), <<KeyDown(k)>>) = Kb(D3, l, g)
  <2>1. KeyDown(k) \in Event
    BY DEF KeyDown, Event
  <2>2. mieqProcessInputEvents(m, Kb(D2, l, g), <<KeyDown(k)>>) = Process(m, Kb(D2, l, g), KeyDown(k))
    BY <2>1, QueueOne
  <2>3. Process(m, Kb(D2, l, g), KeyDown(k)) = AfterPress(k, D2, l, g)
    <3>1. D2 \in SUBSET Keys
      BY <1>6
    <3> QED
      BY <3>1, PressOnKb
  <2>4. AfterPress(k, D2, l, g) = Kb(D3, l, g)
    BY PressPlainKey
  <2> QED
    BY <2>2, <2>3, <2>4
<1> HIDE DEF D3
<1>10. mieqProcessInputEvents(m, Kb(D3, l, g), f2.after \o f1.after) = Kb(D5, l, g)
  <2>1. D3 \in SUBSET Keys
    BY <1>6
  <2>2. TurnsTwo(f2.after, f1.after, R2, P2, R1, P1, m, D3, l, g)
    BY <1>3, <1>4, <2>1, TurnsTwice
  <2> QED
    BY <2>2 DEF TurnsTwo
<1>11. <<KeyDown(k)>> \in Seq(Event) /\ f2.after \o f1.after \in Seq(Event)
  BY <1>3, <1>4 DEF KeyDown, Event
<1>12. mieqProcessInputEvents(m, Kb(D2, l, g), <<KeyDown(k)>> \o (f2.after \o f1.after))
         = mieqProcessInputEvents(m, mieqProcessInputEvents(m, Kb(D2, l, g), <<KeyDown(k)>>), f2.after \o f1.after)
  <2> DEFINE a == <<KeyDown(k)>>
             b == f2.after \o f1.after
             kb == Kb(D2, l, g)
  <2> HIDE DEF a, b, kb
  <2>1. a \in Seq(Event) /\ b \in Seq(Event)
    BY <1>11 DEF a, b
  <2>2. mieqProcessInputEvents(m, kb, a \o b)
          = mieqProcessInputEvents(m, mieqProcessInputEvents(m, kb, a), b)
    BY <2>1, QueueConcat
  <2> QED
    BY <2>2 DEF a, b, kb
<1> HIDE DEF D5
<1> QED
  BY <1>5, <1>8, <1>9, <1>10, <1>12

\* What sending a choice does.
IsSent(p, c, D, l, g) ==
  /\ p.map = c.map /\ p.added \in Seq(Item) /\ p.queue = <<>> /\ p.key = c.hit.key
  /\ p.ok \in BOOLEAN
  /\ p.ok => p.key \in Keys /\ PlainKey(p.key) /\ p.kbd = Kb(D \cup {p.key}, l, g)
  /\ ~p.ok => p.kbd = Kb(D, l, g)

LEMMA SentIs ==
  ASSUME ActionsAreFixed, CharactersAreNoModifiers, LevelThreeIsFixed,
         NEW D \in SUBSET Keys, NEW l \in SUBSET Lockable, NEW g \in {0, 1}, Cardinality(D) <= 8,
         NEW st, st = lorieGetKeyboardState(Kb(D, l, g)), NEW sym \in Typed, NEW c, IsChoice(c, sym, st)
  PROVE  IsSent(SentFor(c, Kb(D, l, g), st), c, D, l, g)
<1> DEFINE kb == Kb(D, l, g)
           f1 == FakeShift(c.map, kb, st, c.hit.state)
           f2 == FakeLevelThree(c.map, kb, st, c.hit.state)
           faked == mieqProcessInputEvents(c.map, kb, f1.before \o f2.before)
           p == SentFor(c, kb, st)
           ok == c.hit.key # 0 /\ f1.ok /\ f2.ok
<1>1. OKMap(c.map) /\ c.added \in Seq(Item)
  BY DEF IsChoice
<1>2. f2.ok /\ FakeOn(f2, D)
  BY <1>1, LevelThreeIsFake DEF FakeOn
<1>3. f1.ok => FakeOn(f1, D)
  BY <1>1, ShiftIsFake DEF FakeOn
<1>4. p = [ok |-> ok, key |-> c.hit.key, map |-> c.map,
           added |-> IF ok THEN vncOnKeyUsed(c.added, c.hit.key) ELSE c.added,
           kbd |-> IF ok THEN mieqProcessInputEvents(c.map, faked, <<KeyDown(c.hit.key)>> \o (f2.after \o f1.after))
                   ELSE kb,
           queue |-> IF ~ok /\ c.hit.key # 0 /\ f1.ok THEN f1.before ELSE <<>>,
           out |-> IF ok THEN Symbol(c.map[c.hit.key], lorieGetKeyboardState(faked)) ELSE NoSymbol]
  BY Zenon DEF SentFor, SentWith, Sent, UndoFakes
<1> HIDE DEF f1, f2, p, kb, faked
<1>5. vncOnKeyUsed(c.added, c.hit.key) \in Seq(Item)
  BY <1>1, UsedKeeps
<1>6. ok => c.hit.key \in Keys /\ PlainKey(c.hit.key)
  BY ChoiceIsPlain
<1>7. ok => mieqProcessInputEvents(c.map, faked, <<KeyDown(c.hit.key)>> \o (f2.after \o f1.after))
              = Kb(D \cup {c.hit.key}, l, g)
  <2> SUFFICES ASSUME ok PROVE mieqProcessInputEvents(c.map, faked, <<KeyDown(c.hit.key)>> \o (f2.after \o f1.after))
              = Kb(D \cup {c.hit.key}, l, g)
    OBVIOUS
  <2>1. FakeOn(f1, D) /\ FakeOn(f2, D) /\ OKMap(c.map) /\ c.hit.key \in Keys /\ PlainKey(c.hit.key)
    BY <1>1, <1>2, <1>3, <1>6
  <2> QED
    BY <2>1, FakesCancel DEF faked, kb
<1>8. /\ p.map = c.map /\ p.key = c.hit.key /\ p.ok = ok /\ p.queue = <<>>
      /\ p.added = IF ok THEN vncOnKeyUsed(c.added, c.hit.key) ELSE c.added
      /\ ok => p.kbd = Kb(D \cup {c.hit.key}, l, g)
      /\ ~ok => p.kbd = kb
  BY <1>2, <1>4, <1>7
<1>9. IsSent(p, c, D, l, g)
  BY <1>1, <1>5, <1>6, <1>8 DEF IsSent, kb
<1> QED
  BY <1>9 DEF p, kb

-----------------------------------------------------------------------------
(* The keys that are down, once the queue is processed: those the user holds, *)
(* except that the key of a character may hide a key that is no modifier.     *)

DownIs(D, l, g) == D \in SUBSET Keys /\ l \in SUBSET Lockable /\ g \in {0, 1} /\ Settled = Kb(D, l, g)
OnlyHeld(D) == D \subseteq held \cup {k \in Keys : pressedKeys[k] # NoSymbol}
AllModifiers(D) == \A k \in held : Sets(k) # {} => k \in D

HeldInv ==
  /\ OKMap(map) /\ addedKeysyms \in Seq(Item) /\ queue \in Seq(Event) /\ KbForm(kbd)
  /\ typing \in Typed \cup {NoSymbol}
  /\ held \in SUBSET PhysKeys /\ Cardinality(held) <= MaxHeld
  /\ typing # NoSymbol => queue = <<>>
  /\ \A k \in Keys : pressedKeys[k] # NoSymbol => PlainKey(k)
  /\ OnlyHeld(DOMAIN Settled.down) /\ AllModifiers(DOMAIN Settled.down)

LEMMA HeldHasDown ==
  ASSUME ActionsAreFixed, CharactersAreNoModifiers, HeldInv
  PROVE  \E D, l, g : DownIs(D, l, g) /\ OnlyHeld(D) /\ AllModifiers(D)
<1>1. KbForm(Settled)
  BY QueueOnKb DEF HeldInv, Settled
<1>2. PICK D \in SUBSET Keys, l \in SUBSET Lockable, g \in {0, 1} : Settled = Kb(D, l, g)
  BY <1>1 DEF KbForm
<1>3. DOMAIN Settled.down = D
  BY <1>2, KbParts
<1> QED
  BY <1>2, <1>3 DEF HeldInv, DownIs

LEMMA HeldIsSmall ==
  ASSUME HeldInv, MaxHeld \in 0..8, NEW D, D \subseteq held
  PROVE  Cardinality(D) <= 8
<1>1. IsFiniteSet(PhysKeys)
  BY KeymapAssumption, FS_Subset
<1>2. IsFiniteSet(held)
  BY <1>1, FS_Subset DEF HeldInv
<1>3. Cardinality(D) <= Cardinality(held) /\ IsFiniteSet(D)
  BY <1>2, FS_Subset
<1>4. Cardinality(D) \in Nat /\ Cardinality(held) \in Nat
  BY <1>2, <1>3, FS_CardinalityType
<1> QED
  BY <1>3, <1>4 DEF HeldInv

\* The invariant after a step, from what is down after it.
LEMMA HeldFromDown ==
  ASSUME NEW D, NEW l, NEW g, Settled' = Kb(D, l, g),
         (OKMap(map) /\ addedKeysyms \in Seq(Item) /\ queue \in Seq(Event) /\ KbForm(kbd))',
         (typing \in Typed \cup {NoSymbol})',
         (held \in SUBSET PhysKeys /\ Cardinality(held) <= MaxHeld)',
         (typing # NoSymbol => queue = <<>>)',
         (\A k \in Keys : pressedKeys[k] # NoSymbol => PlainKey(k))',
         D \subseteq held' \cup {k \in Keys : pressedKeys'[k] # NoSymbol},
         \A k \in held' : Sets(k) # {} => k \in D
  PROVE  HeldInv'
<1>1. DOMAIN Settled'.down = D
  BY KbParts
<1> QED
  BY <1>1 DEF HeldInv, OnlyHeld, AllModifiers

LEMMA HeldInit ==
  ASSUME Init, MaxHeld \in 0..8
  PROVE  HeldInv /\ Settled = Kb({}, {}, 0)
<1>1. OKMap(BaseMap)
  <2>1. DOMAIN BaseMap = Keys
    BY KeymapAssumption
  <2> QED
    BY <2>1 DEF OKMap, IsSpareKey
<1>2. kbd = Kb({}, {}, 0)
  BY DEF Init, Kb
<1>3. Settled = Kb({}, {}, 0)
  BY <1>2, QueueEmpty DEF Init, Settled
<1>4. DOMAIN Settled.down = {}
  BY <1>3, KbParts
<1>5. KbForm(kbd)
  BY <1>2 DEF KbForm
<1>6. <<>> \in Seq(Event) /\ <<>> \in Seq(Item)
  OBVIOUS
<1>7. Cardinality({}) = 0
  BY FS_EmptySet
<1> QED
  BY <1>1, <1>3, <1>4, <1>5, <1>6, <1>7 DEF Init, HeldInv, OnlyHeld, AllModifiers

\* What a press is made of: the keys down, the choice and what is sent for it.
IsPress(sym, D, l, g, st, c, p) ==
  /\ D \in SUBSET Keys /\ l \in SUBSET Lockable /\ g \in {0, 1} /\ Settled = Kb(D, l, g)
  /\ D \subseteq held /\ AllModifiers(D) /\ Cardinality(D) <= 8
  /\ st \in States /\ st = lorieGetKeyboardState(Kb(D, l, g))
  /\ c = Choice(map, addedKeysyms, sym, st) /\ IsChoice(c, sym, st)
  /\ p = SentFor(c, Kb(D, l, g), st) /\ IsSent(p, c, D, l, g)
  /\ map' = p.map /\ kbd' = p.kbd /\ queue' = p.queue /\ addedKeysyms' = p.added /\ got' = p.out
  /\ pressedKeys' = [k \in Keys |->
       CASE p.ok /\ k = p.key -> sym
         [] p.ok /\ k # p.key /\ pressedKeys[k] = sym -> NoSymbol
         [] OTHER -> pressedKeys[k]]
  /\ used' = LET changed == Touch(used, {k \in Keys : map[k] # p.map[k]})
             IN  IF p.ok THEN Touch(changed, {p.key} \cap InUse(changed)) ELSE changed

LEMMA PressIs ==
  ASSUME OrdinaryLayout, Remembered, HeldInv, NEW sym \in Typed, PressKeysym(sym)
  PROVE  \E D, l, g, st, c, p : IsPress(sym, D, l, g, st, c, p)
<1>0. \A k \in Keys : pressedKeys[k] = NoSymbol
  BY DEF PressKeysym, Remembered
<1>1. PICK D, l, g : DownIs(D, l, g) /\ OnlyHeld(D) /\ AllModifiers(D)
  BY HeldHasDown DEF OrdinaryLayout
<1>2. D \in SUBSET Keys /\ l \in SUBSET Lockable /\ g \in {0, 1} /\ Settled = Kb(D, l, g)
  BY <1>1 DEF DownIs
<1>3. D \subseteq held
  BY <1>0, <1>1 DEF OnlyHeld
<1>4. Cardinality(D) <= 8
  BY <1>3, HeldIsSmall DEF OrdinaryLayout
<1>5. PICK p : /\ p = Plan(map, BeforeTyping, sym)
               /\ map' = p.map /\ kbd' = p.kbd /\ queue' = p.queue /\ addedKeysyms' = p.added /\ got' = p.out
               /\ pressedKeys' = [k \in Keys |->
                    CASE p.ok /\ k = p.key -> sym
                      [] p.ok /\ k # p.key /\ pressedKeys[k] = sym -> NoSymbol
                      [] OTHER -> pressedKeys[k]]
               /\ used' = LET changed == Touch(used, {k \in Keys : map[k] # p.map[k]})
                          IN  IF p.ok THEN Touch(changed, {p.key} \cap InUse(changed)) ELSE changed
  BY Zenon DEF PressKeysym
<1>6. PICK c, st : /\ st = lorieGetKeyboardState(Kb(D, l, g))
                   /\ c = Choice(map, addedKeysyms, sym, st)
                   /\ p = SentFor(c, Kb(D, l, g), st)
  BY <1>2, <1>5 DEF Plan, BeforeTyping, Settled
<1>7. st \in States
  BY <1>2, <1>6, KbState DEF OrdinaryLayout
<1>8. IsChoice(c, sym, st)
  <2>1. PICK m, added : m = map /\ added = addedKeysyms
    OBVIOUS
  <2>2. OKMap(m) /\ added \in Seq(Item)
    BY <2>1 DEF HeldInv
  <2>3. IsChoice(Choice(m, added, sym, st), sym, st)
    BY <1>7, <2>2, ChoiceIs DEF OrdinaryLayout
  <2> QED
    BY <1>6, <2>1, <2>3
<1>9. IsSent(p, c, D, l, g)
  BY <1>2, <1>4, <1>6, <1>8, SentIs DEF OrdinaryLayout
<1>10. IsPress(sym, D, l, g, st, c, p)
  BY <1>1, <1>2, <1>3, <1>4, <1>5, <1>6, <1>7, <1>8, <1>9 DEF IsPress
<1> QED
  BY <1>10

\* A character adds its key to those that are down.
LEMMA HeldPress ==
  ASSUME OrdinaryLayout, Remembered, HeldInv, NEW sym \in Typed, PressKeysym(sym)
  PROVE  HeldInv' /\ Settled'.locked = Settled.locked /\ held' = held
<1>0. typing = NoSymbol /\ typing' = sym /\ held' = held /\ (\A k \in Keys : pressedKeys[k] = NoSymbol)
  BY DEF PressKeysym, Remembered
<1>1. PICK D, l, g, st, c, p : IsPress(sym, D, l, g, st, c, p)
  BY PressIs
<1>2. D \in SUBSET Keys /\ l \in SUBSET Lockable /\ g \in {0, 1} /\ Settled = Kb(D, l, g)
  BY <1>1 DEF IsPress
<1>3. D \subseteq held /\ AllModifiers(D)
  BY <1>1 DEF IsPress
<1>5. /\ map' = p.map /\ kbd' = p.kbd /\ queue' = p.queue /\ addedKeysyms' = p.added
      /\ pressedKeys' = [k \in Keys |->
           CASE p.ok /\ k = p.key -> sym
             [] p.ok /\ k # p.key /\ pressedKeys[k] = sym -> NoSymbol
             [] OTHER -> pressedKeys[k]]
  BY <1>1 DEF IsPress
<1>9. IsSent(p, c, D, l, g)
  BY <1>1 DEF IsPress
<1>10. OKMap(c.map)
  BY <1>1 DEF IsPress, IsChoice
<1>11. PICK K \in SUBSET Keys : p.kbd = Kb(D \cup K, l, g) /\ K = IF p.ok THEN {p.key} ELSE {}
  <2>1. CASE p.ok
    BY <1>9, <2>1 DEF IsSent
  <2>2. CASE ~p.ok
    <3>1. D \cup {} = D
      OBVIOUS
    <3> QED
      BY <1>9, <2>2, <3>1 DEF IsSent
  <2> QED
    BY <2>1, <2>2
<1>12. queue' = <<>>
  BY <1>5, <1>9 DEF IsSent
<1>13. Settled' = Kb(D \cup K, l, g)
  BY <1>5, <1>11, <1>12, QueueEmpty DEF Settled
<1>14. Settled'.locked = Settled.locked
  BY <1>2, <1>13 DEF Kb
<1>15. \A k \in Keys : pressedKeys'[k] = IF k \in K THEN sym ELSE NoSymbol
  BY <1>0, <1>5, <1>9, <1>11 DEF IsSent
<1>16. \A k \in K : PlainKey(k)
  BY <1>9, <1>11 DEF IsSent
<1>17. sym # NoSymbol
  BY KeymapAssumption
<1>18. (\A k \in Keys : pressedKeys[k] # NoSymbol => PlainKey(k))'
  <2>1. \A k \in Keys : pressedKeys'[k] # NoSymbol => PlainKey(k)
    BY <1>15, <1>16
  <2> QED
    BY <2>1
<1>19. D \cup K \subseteq held' \cup {k \in Keys : pressedKeys'[k] # NoSymbol}
  BY <1>0, <1>3, <1>15, <1>17
<1>20. \A k \in held' : Sets(k) # {} => k \in D \cup K
  BY <1>0, <1>3 DEF AllModifiers
<1>21. (KbForm(kbd))'
  <2>1. D \cup K \in SUBSET Keys
    BY <1>2
  <2>2. kbd' = Kb(D \cup K, l, g)
    BY <1>5, <1>11
  <2> QED
    BY <1>2, <2>1, <2>2 DEF KbForm
<1>22. (OKMap(map) /\ addedKeysyms \in Seq(Item) /\ queue \in Seq(Event))'
  BY <1>5, <1>9, <1>10, <1>12 DEF IsSent
<1>23. HeldInv'
  <2>1. (typing \in Typed \cup {NoSymbol})' /\ (typing # NoSymbol => queue = <<>>)'
    BY <1>0, <1>12
  <2>2. (held \in SUBSET PhysKeys /\ Cardinality(held) <= MaxHeld)'
    BY <1>0 DEF HeldInv
  <2> DEFINE D2 == D \cup K
  <2>3. Settled' = Kb(D2, l, g) /\ D2 \subseteq held' \cup {k \in Keys : pressedKeys'[k] # NoSymbol}
    BY <1>13, <1>19
  <2>4. \A k \in held' : Sets(k) # {} => k \in D2
    BY <1>20
  <2> HIDE DEF D2
  <2> QED
    BY <1>18, <1>21, <1>22, <2>1, <2>2, <2>3, <2>4, HeldFromDown
<1> QED
  BY <1>0, <1>14, <1>23

\* The release takes the key of the character away.
LEMMA HeldRelease ==
  ASSUME OrdinaryLayout, Remembered, HeldInv, ReleaseKeysym
  PROVE  HeldInv' /\ Settled'.locked = Settled.locked /\ held' = held
<1>0. typing # NoSymbol /\ typing' = NoSymbol /\ held' = held /\ queue = <<>>
      /\ map' = map /\ addedKeysyms' = addedKeysyms
  BY DEF ReleaseKeysym, HeldInv
<1>1. PICK D, l, g : DownIs(D, l, g) /\ OnlyHeld(D) /\ AllModifiers(D)
  BY HeldHasDown DEF OrdinaryLayout
<1>2. D \in SUBSET Keys /\ l \in SUBSET Lockable /\ g \in {0, 1} /\ Settled = Kb(D, l, g)
  BY <1>1 DEF DownIs
<1>3. kbd = Kb(D, l, g)
  BY <1>0, <1>2, QueueEmpty DEF Settled
<1>4. PICK K \in SUBSET Keys :
        /\ K = {k \in Keys : pressedKeys[k] # NoSymbol}
        /\ queue' = <<>> /\ kbd' = Kb(D \ K, l, g) /\ \A k \in Keys : pressedKeys'[k] = NoSymbol
  <2>1. CASE \A k \in Keys : pressedKeys[k] = NoSymbol
    <3>1. PressedFor(typing) = 0
      <4>1. {k \in Keys : pressedKeys[k] = typing} = {}
        BY <1>0, <2>1
      <4> QED
        BY <4>1 DEF PressedFor, FirstKey
    <3>2. UNCHANGED <<pressedKeys, kbd, queue>>
      BY <3>1, Zenon DEF ReleaseKeysym
    <3>3. D \ {} = D
      OBVIOUS
    <3>4. kbd' = Kb(D \ {}, l, g) /\ queue' = <<>> /\ \A k \in Keys : pressedKeys'[k] = NoSymbol
      BY <1>0, <1>3, <2>1, <3>2, <3>3
    <3>5. {} = {k \in Keys : pressedKeys[k] # NoSymbol} /\ {} \in SUBSET Keys
      BY <2>1
    <3> QED
      BY <3>4, <3>5
  <2>2. ASSUME NEW k \in Keys, pressedKeys[k] # NoSymbol
        PROVE  \E S \in SUBSET Keys :
                  /\ S = {x \in Keys : pressedKeys[x] # NoSymbol}
                  /\ queue' = <<>> /\ kbd' = Kb(D \ S, l, g) /\ \A x \in Keys : pressedKeys'[x] = NoSymbol
    <3>1. PressedFor(typing) = k /\ k # 0
      BY <1>0, <2>2, PressedIsFound
    <3>2. /\ pressedKeys' = [pressedKeys EXCEPT ![k] = NoSymbol] /\ queue' = <<>>
          /\ kbd' = mieqProcessInputEvents(map, kbd, Append(queue, KeyUp(k)))
      BY <3>1, Zenon DEF ReleaseKeysym
    <3>3. {k} = {x \in Keys : pressedKeys[x] # NoSymbol} /\ {k} \in SUBSET Keys
      BY <2>2 DEF Remembered
    <3>4. \A x \in Keys : pressedKeys'[x] = NoSymbol
      BY <2>2, <3>2, <3>3 DEF Remembered
    <3>5. KeyUp(k) \in Event /\ Append(queue, KeyUp(k)) = <<KeyUp(k)>>
      BY <1>0 DEF KeyUp, Event
    <3>6. PICK m : m = map
      OBVIOUS
    <3>7. mieqProcessInputEvents(m, Kb(D, l, g), <<KeyUp(k)>>) = Process(m, Kb(D, l, g), KeyUp(k))
      BY <3>5, QueueOne
    <3>8. Process(m, Kb(D, l, g), KeyUp(k)) = Kb(D \ {k}, l, g)
      BY ReleaseOnKb
    <3>9. kbd' = Kb(D \ {k}, l, g)
      BY <1>3, <3>2, <3>5, <3>6, <3>7, <3>8
    <3> QED
      BY <3>2, <3>3, <3>4, <3>9
  <2> QED
    BY <2>1, <2>2
<1>5. Settled' = Kb(D \ K, l, g)
  BY <1>4, QueueEmpty DEF Settled
<1>6. Settled'.locked = Settled.locked
  BY <1>2, <1>5 DEF Kb
<1>7. D \ K \subseteq held' \cup {k \in Keys : pressedKeys'[k] # NoSymbol}
  BY <1>0, <1>1, <1>4 DEF OnlyHeld
<1>8. \A k \in K : Sets(k) = {}
  BY <1>4, PressPlainKey DEF HeldInv
<1>9. \A k \in held' : Sets(k) # {} => k \in D \ K
  BY <1>0, <1>1, <1>8 DEF AllModifiers
<1>10. (KbForm(kbd))'
  <2>1. D \ K \in SUBSET Keys
    BY <1>2
  <2> QED
    BY <1>2, <1>4, <2>1 DEF KbForm
<1>11. HeldInv'
  <2>1. (typing \in Typed \cup {NoSymbol})' /\ (typing # NoSymbol => queue = <<>>)'
    BY <1>0
  <2>2. (held \in SUBSET PhysKeys /\ Cardinality(held) <= MaxHeld)'
    BY <1>0 DEF HeldInv
  <2>3. (OKMap(map) /\ addedKeysyms \in Seq(Item) /\ queue \in Seq(Event))'
    BY <1>0, <1>4 DEF HeldInv
  <2>4. (\A k \in Keys : pressedKeys[k] # NoSymbol => PlainKey(k))'
    BY <1>4
  <2> DEFINE D2 == D \ K
  <2>5. Settled' = Kb(D2, l, g) /\ D2 \subseteq held' \cup {k \in Keys : pressedKeys'[k] # NoSymbol}
    BY <1>5, <1>7
  <2>6. \A k \in held' : Sets(k) # {} => k \in D2
    BY <1>9
  <2> HIDE DEF D2
  <2> QED
    BY <1>10, <2>1, <2>2, <2>3, <2>4, <2>5, <2>6, HeldFromDown
<1> QED
  BY <1>0, <1>6, <1>11

\* Processing the queue, and what clients do to the map, settle on the same.
LEMMA HeldOther ==
  ASSUME OrdinaryLayout, HeldInv, [ProcessInputEvents \/ ClientLoadsMap \/ \E k \in Keys : ClientMapsKey(k)]_vars
  PROVE  HeldInv' /\ Settled' = Settled /\ held' = held
<1>1. UNCHANGED <<pressedKeys, addedKeysyms, typing, held>>
  BY DEF ProcessInputEvents, ClientLoadsMap, ClientMapsKey, vars
<1>2. OKMap(map')
  <2>1. CASE UNCHANGED map
    BY <2>1 DEF HeldInv
  <2>2. CASE ClientLoadsMap
    <3>1. DOMAIN BaseMap = Keys /\ map' = BaseMap
      BY <2>2, KeymapAssumption DEF ClientLoadsMap
    <3> QED
      BY <3>1 DEF OKMap, IsSpareKey
  <2>3. ASSUME NEW k \in Keys, ClientMapsKey(k) PROVE OKMap(map')
    <3> DEFINE rec == [AddedKey("client") EXCEPT !.named = map[k].named]
    <3>1. map' = [map EXCEPT ![k] = rec] /\ BaseMap[k].groups = <<>>
      BY <2>3 DEF ClientMapsKey
    <3>2. GivesAdded(rec, "client")
      BY DEF GivesAdded, AddedKey
    <3>3. IsSpareKey(rec)
      BY <3>2 DEF IsSpareKey, Spares
    <3> HIDE DEF rec
    <3>4. DOMAIN map' = Keys /\ \A x \in Keys : map'[x] = IF x = k THEN rec ELSE map[x]
      BY <3>1 DEF HeldInv, OKMap
    <3> QED
      BY <3>1, <3>3, <3>4 DEF HeldInv, OKMap
  <2> QED
    BY <2>1, <2>2, <2>3 DEF ProcessInputEvents, vars
<1>3. /\ KbForm(kbd)' /\ queue' \in Seq(Event) /\ (typing # NoSymbol => queue = <<>>)'
      /\ Settled' = Settled
  <2>1. CASE UNCHANGED <<kbd, queue>>
    <3>1. mieqProcessInputEvents(map', kbd, queue) = mieqProcessInputEvents(map, kbd, queue)
      BY <1>2, QueueOnKb DEF OrdinaryLayout, HeldInv
    <3> QED
      BY <1>1, <2>1, <3>1 DEF HeldInv, Settled
  <2>2. CASE ProcessInputEvents
    <3>1. queue' = <<>> /\ kbd' = Settled
      BY <2>2 DEF ProcessInputEvents, Settled
    <3>2. KbForm(Settled)
      BY QueueOnKb DEF OrdinaryLayout, HeldInv, Settled
    <3>3. Settled' = Settled
      BY <3>1, QueueEmpty DEF Settled
    <3> QED
      BY <3>1, <3>2, <3>3
  <2> QED
    BY <2>1, <2>2 DEF ClientLoadsMap, ClientMapsKey, vars
<1> QED
  BY <1>1, <1>2, <1>3 DEF HeldInv, OnlyHeld, AllModifiers

\* A physical key does to the keys that are down what it does to those held.
UserPresses(k) ==
  /\ k \notin held /\ held' = held \cup {k}
  /\ Settled'.locked = (Settled.locked \ Locks(k)) \cup (Locks(k) \ Settled.locked)
UserReleases(k) == k \in held /\ held' = held \ {k} /\ Settled'.locked = Settled.locked

LEMMA HeldPhysical ==
  ASSUME OrdinaryLayout, Remembered, HeldInv, NEW k \in PhysKeys, PhysicalKey(k)
  PROVE  HeldInv' /\ (UserPresses(k) \/ UserReleases(k))
<1>0. /\ typing = NoSymbol /\ typing' = NoSymbol /\ (\A j \in Keys : pressedKeys[j] = NoSymbol)
      /\ UNCHANGED <<map, kbd, pressedKeys, addedKeysyms>> /\ k \in Keys
  BY KeymapAssumption DEF PhysicalKey, Remembered
<1>1. PICK D, l, g : DownIs(D, l, g) /\ OnlyHeld(D) /\ AllModifiers(D)
  BY HeldHasDown DEF OrdinaryLayout
<1>2. D \in SUBSET Keys /\ l \in SUBSET Lockable /\ g \in {0, 1} /\ Settled = Kb(D, l, g)
  BY <1>1 DEF DownIs
<1>3. D \subseteq held
  BY <1>0, <1>1 DEF OnlyHeld
<1>4. /\ KeyDown(k) \in Event /\ KeyUp(k) \in Event /\ queue \in Seq(Event)
      /\ OKMap(map) /\ held \in SUBSET PhysKeys /\ Cardinality(held) <= MaxHeld
  BY <1>0 DEF KeyDown, KeyUp, Event, HeldInv
<1>5. IsFiniteSet(held) /\ Cardinality(held) \in Nat
  <2>1. IsFiniteSet(PhysKeys)
    BY KeymapAssumption, FS_Subset
  <2> QED
    BY <1>4, <2>1, FS_Subset, FS_CardinalityType
<1>6. ASSUME NEW e \in Event, queue' = Append(queue, e)
      PROVE  Settled' = Process(map, Kb(D, l, g), e) /\ queue' \in Seq(Event)
  <2>1. mieqProcessInputEvents(map, kbd, Append(queue, e)) = Process(map, mieqProcessInputEvents(map, kbd, queue), e)
    BY <1>4, QueueAppend
  <2>2. Settled' = mieqProcessInputEvents(map, kbd, Append(queue, e))
    BY <1>0, <1>6, Zenon DEF Settled
  <2>3. Append(queue, e) \in Seq(Event)
    BY <1>4
  <2> QED
    BY <1>2, <1>6, <2>1, <2>2, <2>3 DEF Settled
<1>7. CASE k \notin held
  <2>1. Cardinality(held) < MaxHeld /\ held' = held \cup {k} /\ queue' = Append(queue, KeyDown(k))
    BY <1>7 DEF PhysicalKey
  <2>2. Settled' = Process(map, Kb(D, l, g), KeyDown(k)) /\ queue' \in Seq(Event)
    BY <1>4, <1>6, <2>1
  <2>3. PICK m : m = map
    OBVIOUS
  <2>4. Process(m, Kb(D, l, g), KeyDown(k)) = AfterPress(k, D, l, g)
    BY <1>0, <1>2, <1>4, <2>3, PressOnKb DEF OrdinaryLayout
  <2>5. k \notin D
    BY <1>3, <1>7
  <2>6. AfterPress(k, D, l, g) = Kb(D \cup {k}, (l \ Locks(k)) \cup (Locks(k) \ l), Flip(k, g))
    BY <2>5 DEF AfterPress
  <2> DEFINE D2 == D \cup {k}
             l2 == (l \ Locks(k)) \cup (Locks(k) \ l)
             g2 == Flip(k, g)
  <2>7. Settled' = Kb(D2, l2, g2)
    BY <2>2, <2>3, <2>4, <2>6
  <2>8. Settled.locked = l /\ Settled'.locked = l2
    BY <1>2, <2>7 DEF Kb
  <2>9. UserPresses(k)
    BY <1>7, <2>1, <2>8 DEF UserPresses
  <2>10. D2 \subseteq held' \cup {j \in Keys : pressedKeys'[j] # NoSymbol}
    BY <1>3, <2>1
  <2>11. \A j \in held' : Sets(j) # {} => j \in D2
    BY <1>1, <2>1 DEF AllModifiers
  <2>12. (held \in SUBSET PhysKeys /\ Cardinality(held) <= MaxHeld)'
    <3>1. Cardinality(held \cup {k}) = Cardinality(held) + 1
      BY <1>5, <1>7, FS_AddElement
    <3>2. MaxHeld \in Int
      BY DEF OrdinaryLayout
    <3>3. Cardinality(held \cup {k}) <= MaxHeld /\ held \cup {k} \in SUBSET PhysKeys
      BY <1>4, <1>5, <2>1, <3>1, <3>2
    <3> QED
      BY <2>1, <3>3
  <2>13. (OKMap(map) /\ addedKeysyms \in Seq(Item) /\ queue \in Seq(Event) /\ KbForm(kbd))'
    BY <1>0, <2>2 DEF HeldInv
  <2>14. (\A j \in Keys : pressedKeys[j] # NoSymbol => PlainKey(j))'
    BY <1>0
  <2>15. (typing \in Typed \cup {NoSymbol})' /\ (typing # NoSymbol => queue = <<>>)'
    BY <1>0
  <2> HIDE DEF D2, l2, g2
  <2>16. HeldInv'
    BY <2>7, <2>10, <2>11, <2>12, <2>13, <2>14, <2>15, HeldFromDown
  <2> QED
    BY <2>9, <2>16
<1>8. CASE k \in held
  <2>1. held' = held \ {k} /\ queue' = Append(queue, KeyUp(k))
    BY <1>8 DEF PhysicalKey
  <2>2. Settled' = Process(map, Kb(D, l, g), KeyUp(k)) /\ queue' \in Seq(Event)
    BY <1>4, <1>6, <2>1
  <2>3. PICK m : m = map
    OBVIOUS
  <2>4. Process(m, Kb(D, l, g), KeyUp(k)) = Kb(D \ {k}, l, g)
    BY ReleaseOnKb
  <2> DEFINE D2 == D \ {k}
  <2>7. Settled' = Kb(D2, l, g)
    BY <2>2, <2>3, <2>4
  <2>8. Settled.locked = l /\ Settled'.locked = l
    BY <1>2, <2>7 DEF Kb
  <2>9. UserReleases(k)
    BY <1>8, <2>1, <2>8 DEF UserReleases
  <2>10. D2 \subseteq held' \cup {j \in Keys : pressedKeys'[j] # NoSymbol}
    BY <1>3, <2>1
  <2>11. \A j \in held' : Sets(j) # {} => j \in D2
    BY <1>1, <2>1 DEF AllModifiers
  <2>12. (held \in SUBSET PhysKeys /\ Cardinality(held) <= MaxHeld)'
    <3>1. Cardinality(held \ {k}) = Cardinality(held) - 1
      BY <1>5, <1>8, FS_RemoveElement
    <3>2. MaxHeld \in Int
      BY DEF OrdinaryLayout
    <3>3. Cardinality(held \ {k}) <= MaxHeld /\ held \ {k} \in SUBSET PhysKeys
      BY <1>4, <1>5, <3>1, <3>2
    <3> QED
      BY <2>1, <3>3
  <2>13. (OKMap(map) /\ addedKeysyms \in Seq(Item) /\ queue \in Seq(Event) /\ KbForm(kbd))'
    BY <1>0, <2>2 DEF HeldInv
  <2>14. (\A j \in Keys : pressedKeys[j] # NoSymbol => PlainKey(j))'
    BY <1>0
  <2>15. (typing \in Typed \cup {NoSymbol})' /\ (typing # NoSymbol => queue = <<>>)'
    BY <1>0
  <2> HIDE DEF D2
  <2>16. HeldInv'
    BY <2>7, <2>10, <2>11, <2>12, <2>13, <2>14, <2>15, HeldFromDown
  <2> QED
    BY <2>9, <2>16
<1> QED
  BY <1>7, <1>8

LEMMA HeldNext ==
  ASSUME OrdinaryLayout, Remembered, HeldInv, [Next]_vars
  PROVE  /\ HeldInv'
         /\ \/ held' = held /\ Settled'.locked = Settled.locked
            \/ \E k \in PhysKeys : UserPresses(k) \/ UserReleases(k)
<1>1. ASSUME NEW sym \in Typed, PressKeysym(sym)
      PROVE  HeldInv' /\ held' = held /\ Settled'.locked = Settled.locked
  BY <1>1, HeldPress
<1>2. CASE ReleaseKeysym
  BY <1>2, HeldRelease
<1>3. ASSUME NEW k \in PhysKeys, PhysicalKey(k)
      PROVE  HeldInv' /\ (UserPresses(k) \/ UserReleases(k))
  BY <1>3, HeldPhysical
<1>4. CASE [ProcessInputEvents \/ ClientLoadsMap \/ \E k \in Keys : ClientMapsKey(k)]_vars
  BY <1>4, HeldOther
<1> QED
  BY <1>1, <1>2, <1>3, <1>4 DEF Next

\* Between two characters no key is down that the user does not hold, and none
\* is remembered as pressed, however many modifiers were faked and whatever
\* clients did to the map meanwhile (lorieKeysymKeyboardEvent).
THEOREM NoKeyIsLeftDown == OrdinaryLayout => (Spec => []NothingLeftDown)
<1> SUFFICES ASSUME OrdinaryLayout PROVE Spec => []NothingLeftDown
  OBVIOUS
<1>1. Init => Remembered /\ HeldInv
  <2>1. Init => Remembered
    BY DEF Init, Remembered
  <2> QED
    BY <2>1, HeldInit DEF OrdinaryLayout
<1>2. Remembered /\ HeldInv /\ [Next]_vars => (Remembered /\ HeldInv)'
  BY NextRemembered, HeldNext
<1>3. Remembered /\ HeldInv => NothingLeftDown
  BY DEF Remembered, HeldInv, OnlyHeld, NothingLeftDown, NothingRemembered
<1> QED
  BY <1>1, <1>2, <1>3, PTL DEF Spec

\* The modifiers in effect are those the user holds and has locked.
LEMMA ModifiersAreHeld ==
  ASSUME OrdinaryLayout, Remembered, HeldInv
  PROVE  lorieGetKeyboardState(Settled).mods = ModsOf(held, Settled.locked)
<1>1. PICK D, l, g : DownIs(D, l, g) /\ OnlyHeld(D) /\ AllModifiers(D)
  BY HeldHasDown DEF OrdinaryLayout
<1>2. D \in SUBSET Keys /\ l \in SUBSET Lockable /\ g \in {0, 1} /\ Settled = Kb(D, l, g)
  BY <1>1 DEF DownIs
<1>3. lorieGetKeyboardState(Settled).mods = ModsOf(D, l) /\ Settled.locked = l
  <2>1. lorieGetKeyboardState(Kb(D, l, g)) = [mods |-> ModsOf(D, l), group |-> g]
    BY <1>2, KbState DEF OrdinaryLayout
  <2>2. Settled.locked = l
    BY <1>2 DEF Kb
  <2> QED
    BY <1>2, <2>1, <2>2
<1>4. \A k \in Keys : pressedKeys[k] # NoSymbol => Sets(k) = {}
  BY PressPlainKey DEF HeldInv
<1>5. UNION {Sets(k) : k \in D} = UNION {Sets(k) : k \in held}
  <2>1. \A k \in D : Sets(k) # {} => k \in held
    BY <1>1, <1>4 DEF OnlyHeld
  <2>2. \A k \in held : Sets(k) # {} => k \in D
    BY <1>1 DEF AllModifiers
  <2> QED
    BY <2>1, <2>2
<1> QED
  BY <1>3, <1>5 DEF ModsOf

\* Typing characters is invisible to the modifiers: the keyboard of the server
\* is the user's, who presses, releases and locks keys and sees no fake ones.
THEOREM TypingIsInvisible == OrdinaryLayout => (Spec => Implements)
<1> SUFFICES ASSUME OrdinaryLayout PROVE Spec => Implements
  OBVIOUS
<1>0. \A ks \in SUBSET PhysKeys : \A ls : Board!Modifiers(ks, ls) = ModsOf(ks, ls)
  <2> SUFFICES ASSUME NEW ks \in SUBSET PhysKeys, NEW ls
               PROVE  Board!Modifiers(ks, ls) = ModsOf(ks, ls)
    OBVIOUS
  <2>1. {[j \in PhysKeys |-> Sets(j)][k] : k \in ks} = {Sets(k) : k \in ks}
    OBVIOUS
  <2> QED
    BY <2>1 DEF Board!Modifiers, ModsOf
<1>1. Init => Remembered /\ HeldInv /\ Board!Init
  <2> SUFFICES ASSUME Init PROVE Remembered /\ HeldInv /\ Board!Init
    OBVIOUS
  <2>1. Remembered
    BY DEF Init, Remembered
  <2>2. HeldInv /\ Settled = Kb({}, {}, 0)
    BY HeldInit DEF OrdinaryLayout
  <2>3. Settled.locked = {} /\ held = {}
    BY <2>2 DEF Kb, Init
  <2>4. lorieGetKeyboardState(Settled).mods = {}
    BY <2>1, <2>2, <2>3, ModifiersAreHeld DEF ModsOf
  <2> QED
    BY <2>1, <2>2, <2>3, <2>4 DEF Board!Init
<1>2. Remembered /\ HeldInv => lorieGetKeyboardState(Settled).mods = ModsOf(held, Settled.locked)
  BY ModifiersAreHeld
<1>3. Remembered /\ HeldInv /\ [Next]_vars => (Remembered /\ HeldInv)' /\ [Board!Next]_(Board!vars)
  <2> SUFFICES ASSUME Remembered, HeldInv, [Next]_vars
               PROVE  (Remembered /\ HeldInv)' /\ [Board!Next]_(Board!vars)
    OBVIOUS
  <2>1. Remembered' /\ HeldInv'
    BY NextRemembered, HeldNext
  <2>2. lorieGetKeyboardState(Settled).mods = ModsOf(held, Settled.locked)
    BY ModifiersAreHeld
  <2>3. (lorieGetKeyboardState(Settled).mods = ModsOf(held, Settled.locked))'
    BY <1>2, <2>1, PTL
  <2>4. held' \in SUBSET PhysKeys /\ held \in SUBSET PhysKeys
    BY <2>1 DEF HeldInv
  <2>5. ASSUME held' = held, Settled'.locked = Settled.locked
        PROVE  UNCHANGED Board!vars
    <3>1. (lorieGetKeyboardState(Settled).mods)' = lorieGetKeyboardState(Settled).mods
      BY <2>2, <2>3, <2>5
    <3>2. (Settled.locked)' = Settled.locked
      BY <2>5
    <3> QED
      BY <2>5, <3>1, <3>2, Zenon DEF Board!vars
  <2>6. ASSUME NEW k \in PhysKeys, UserPresses(k) PROVE Board!Press(k)
    <3>1. Board!Modifiers(held', Settled'.locked) = ModsOf(held', Settled'.locked)
      BY <1>0, <2>4
    <3>2. [j \in PhysKeys |-> Locks(j)][k] = Locks(k)
      OBVIOUS
    <3> QED
      BY <2>3, <2>6, <3>1, <3>2, Zenon DEF Board!Press, UserPresses
  <2>7. ASSUME NEW k \in PhysKeys, UserReleases(k) PROVE Board!Release(k)
    <3>1. Board!Modifiers(held', Settled'.locked) = ModsOf(held', Settled'.locked)
      BY <1>0, <2>4
    <3> QED
      BY <2>3, <2>7, <3>1, Zenon DEF Board!Release, UserReleases
  <2>8. [Board!Next]_(Board!vars)
    BY <2>5, <2>6, <2>7, HeldNext DEF Board!Next
  <2> QED
    BY <2>1, <2>8
<1> QED
  BY <1>1, <1>3, PTL DEF Spec, Implements, Board!Spec

-----------------------------------------------------------------------------
(* A keysym that was put on a spare keycode is found there. *)

Capital(st) == ("Shift" \in st.mods) # ("Lock" \in st.mods)

LEMMA AddedLevel ==
  ASSUME SparesGiveCharacters, NEW st \in States
  PROVE  /\ Level(KeyType["ALPHABETIC"], st.mods) = IF Capital(st) THEN 2 ELSE 1
         /\ "Lock" \notin st.mods \ (KeyType["ALPHABETIC"].mods \ Preserved(KeyType["ALPHABETIC"], st.mods))
<1> DEFINE type == KeyType["ALPHABETIC"]
           relevant == st.mods \cap {"Shift", "Lock"}
<1>1. /\ type.mods = {"Shift", "Lock"} /\ type.levels = [m \in {{"Shift"}, {"Lock"}} |-> 2]
      /\ type.preserve = <<>>
  BY DEF SparesGiveCharacters
<1> HIDE DEF type
<1>2. DOMAIN type.preserve = {} /\ DOMAIN type.levels = {{"Shift"}, {"Lock"}}
  BY <1>1
<1>3. Preserved(type, st.mods) = {}
  BY <1>2 DEF Preserved
<1>4. relevant \in {{"Shift"}, {"Lock"}} <=> Capital(st)
  BY DEF Capital
<1>5. Level(type, st.mods) = IF relevant \in {{"Shift"}, {"Lock"}} THEN 2 ELSE 1
  BY <1>1, <1>2 DEF Level
<1> QED
  BY <1>1, <1>3, <1>4, <1>5 DEF type

LEMMA AddedSymbol ==
  ASSUME SparesGiveCharacters, NEW st \in States, NEW sym
  PROVE  Symbol(AddedKey(sym), st) = IF Capital(st) THEN Upper[sym] ELSE Lower[sym]
<1> DEFINE rec == AddedKey(sym)
           G == [type |-> "ALPHABETIC", syms |-> <<Lower[sym], Upper[sym]>>, acts |-> <<NoAction, NoAction>>]
           type == KeyType["ALPHABETIC"]
<1>1. rec.groups = <<G>> /\ rec.oor = "wrap" /\ rec.to = 0
  BY DEF AddedKey
<1> HIDE DEF rec, G
<1>2. rec.groups # <<>> /\ Len(rec.groups) = 1 /\ rec.groups[1] = G
  <2>1. <<G>> # <<>> /\ Len(<<G>>) = 1 /\ <<G>>[1] = G
    OBVIOUS
  <2> QED
    BY <1>1, <2>1, Zenon
<1>3. st.group \in {0, 1}
  BY DEF States
<1>4. XkbKeyEffectiveGroup(rec, st.group) = 0
  BY <1>1, <1>2, <1>3 DEF XkbKeyEffectiveGroup
<1>5. GroupOf(rec, st) = G
  BY <1>2, <1>4 DEF GroupOf
<1>6. G.type = "ALPHABETIC" /\ G.syms = <<Lower[sym], Upper[sym]>>
  BY DEF G
<1>7. XkbTranslateKeyCode(rec, st)
        = [sym |-> <<Lower[sym], Upper[sym]>>[Level(type, st.mods)], mods |-> type.mods \ Preserved(type, st.mods)]
  BY <1>2, <1>5, <1>6, Zenon DEF XkbTranslateKeyCode
<1>8. /\ Level(type, st.mods) = IF Capital(st) THEN 2 ELSE 1
      /\ "Lock" \notin st.mods \ (type.mods \ Preserved(type, st.mods))
  BY AddedLevel
<1> HIDE DEF type
<1>9. <<Lower[sym], Upper[sym]>>[Level(type, st.mods)] = IF Capital(st) THEN Upper[sym] ELSE Lower[sym]
  BY <1>8
<1> QED
  BY <1>7, <1>8, <1>9 DEF Symbol, WithLock, rec

LEMMA ShiftFlips ==
  ASSUME NEW st \in States
  PROVE  /\ Toggle(st, {"Shift"}) \in States
         /\ Capital(Toggle(st, {"Shift"})) <=> ~Capital(st)
<1>1. {"Shift"} \in SUBSET Mods
  BY DEF Mods
<1>2. Toggle(st, {"Shift"}).mods = IF "Shift" \in st.mods THEN st.mods \ {"Shift"} ELSE st.mods \cup {"Shift"}
  BY DEF Toggle, States
<1> QED
  BY <1>1, <1>2, ToggleState DEF Capital

LEMMA AddedIsFound ==
  ASSUME OrdinaryLayout, SparesGiveCharacters, NEW m, OKMap(m), NEW k \in Keys, NEW sym \in Typed,
         GivesAdded(m[k], sym), NEW st \in States
  PROVE  lorieKeysymToKeycode(m, sym, st).key # 0
<1> DEFINE l3 == lorieGetLevelThreeMask(m, st)
           states == StatesTried(st, l3)
           hits == Hits(m, sym, states)
           n == Len(states)
           shift == Toggle(st, {"Shift"})
<1>1. states \in Seq(States) /\ n \in {2, 4}
  <2>1. l3 \in SUBSET Mods
    BY MaskIsMods DEF OrdinaryLayout
  <2> HIDE DEF l3
  <2> QED
    BY <2>1, TriedAreStates
<1>2. states[1] = st /\ states[2] = shift
  <2> HIDE DEF l3, shift
  <2>1. states = IF l3 = {} THEN <<st, shift>> ELSE <<st, shift, Toggle(st, l3), Toggle(shift, l3)>>
    BY DEF StatesTried, shift
  <2> HIDE DEF states
  <2> QED
    BY <2>1
<1>3. shift \in States /\ (Capital(shift) <=> ~Capital(st))
  BY ShiftFlips
<1> HIDE DEF l3, shift
<1>4. hits = [i \in 1..n |-> [key |-> KeyFor(m, sym, states[i]), state |-> states[i]]]
  <2> HIDE DEF states
  <2> QED
    BY <1>1 DEF Hits
<1>5. DOMAIN hits = 1..n /\ Len(hits) = n
  <2> HIDE DEF hits, states
  <2> QED
    BY <1>1, <1>4
<1>6. lorieKeysymToKeycode(m, sym, st) = FirstHit(hits)
  BY DEF lorieKeysymToKeycode, l3
<1> HIDE DEF hits, states
<1>7. PICK i \in 1..n : FirstHit(hits) = hits[i] /\ (hits[i].key = 0 => \A j \in 1..n : hits[j].key = 0)
  BY <1>1, <1>5, FirstHitIs
<1>8. hits[1].key = KeyFor(m, sym, st) /\ hits[2].key = KeyFor(m, sym, shift)
  BY <1>1, <1>2, <1>4
<1>9. \E s \in {st, shift} : Symbol(m[k], s) = sym
  <2>1. \A s \in {st, shift} : Symbol(m[k], s) = IF Capital(s) THEN Upper[sym] ELSE Lower[sym]
    BY <1>3, NameIsNothing, AddedSymbol
  <2>2. sym = Lower[sym] \/ sym = Upper[sym]
    BY DEF SparesGiveCharacters
  <2> QED
    BY <1>3, <2>1, <2>2
<1>10. KeyFor(m, sym, st) # 0 \/ KeyFor(m, sym, shift) # 0
  BY <1>9, KeyForIsOne
<1>11. 1 \in 1..n /\ 2 \in 1..n
  <2>1. n \in {2, 4}
    BY <1>1
  <2> HIDE DEF n
  <2> QED
    BY <2>1
<1> QED
  BY <1>6, <1>7, <1>8, <1>10, <1>11

-----------------------------------------------------------------------------
(* The order of use: pairs of keycodes, the first used no earlier. *)

Pair(x, y, U) == <<x, y>> \in U

\* An order of use relates keycodes, each of them to itself too.
IsOrder(U) ==
  /\ U \subseteq Keys \X Keys
  /\ \A x, y \in Keys : Pair(x, y, U) => Pair(x, x, U) /\ Pair(y, y, U)

LEMMA InUseIs ==
  ASSUME NEW U, IsOrder(U), NEW x
  PROVE  x \in InUse(U) <=> x \in Keys /\ Pair(x, x, U)
<1>1. ASSUME x \in InUse(U) PROVE x \in Keys /\ Pair(x, x, U)
  <2>1. PICK p \in U : x = p[1]
    BY <1>1 DEF InUse
  <2>2. p \in Keys \X Keys
    BY <2>1 DEF IsOrder
  <2>3. PICK u \in Keys, v \in Keys : p = <<u, v>>
    BY <2>2
  <2>4. x = u
    BY <2>1, <2>3
  <2>5. Pair(u, v, U)
    BY <2>1, <2>3 DEF Pair
  <2> QED
    BY <2>4, <2>5 DEF IsOrder
<1>2. ASSUME x \in Keys, Pair(x, x, U) PROVE x \in InUse(U)
  <2>1. <<x, x>> \in U /\ <<x, x>>[1] = x
    BY <1>2 DEF Pair
  <2> QED
    BY <2>1, Zenon DEF InUse
<1> QED
  BY <1>1, <1>2

TouchedPair(x, y, U, K) ==
  \/ Pair(x, y, U) /\ x # K /\ y # K
  \/ x = K /\ (y = K \/ Pair(y, y, U))

\* Using a keycode puts it before all others.
LEMMA TouchOne ==
  ASSUME NEW U, IsOrder(U), NEW K \in Keys
  PROVE  /\ IsOrder(Touch(U, {K}))
         /\ \A x, y \in Keys : Pair(x, y, Touch(U, {K})) <=> TouchedPair(x, y, U, K)
<1>1. \A x, y \in Keys : Pair(x, y, Touch(U, {K})) <=> TouchedPair(x, y, U, K)
  <2> SUFFICES ASSUME NEW x \in Keys, NEW y \in Keys
               PROVE  Pair(x, y, Touch(U, {K})) <=> TouchedPair(x, y, U, K)
    OBVIOUS
  <2>1. <<x, y>> \in Without(U, {K}) <=> <<x, y>> \in U /\ x # K /\ y # K
    BY DEF Without
  <2>2. <<x, y>> \in {K} \X ({K} \cup InUse(U)) <=> x = K /\ (y = K \/ y \in InUse(U))
    OBVIOUS
  <2>3. y \in InUse(U) <=> Pair(y, y, U)
    BY InUseIs
  <2>4. Pair(x, y, Touch(U, {K})) <=> <<x, y>> \in Without(U, {K}) \/ <<x, y>> \in {K} \X ({K} \cup InUse(U))
    BY DEF Pair, Touch
  <2> QED
    BY <2>1, <2>2, <2>3, <2>4 DEF TouchedPair, Pair
<1>2. Touch(U, {K}) \subseteq Keys \X Keys
  <2>1. InUse(U) \subseteq Keys
    BY InUseIs
  <2>2. Without(U, {K}) \subseteq Keys \X Keys
    BY DEF Without, IsOrder
  <2> QED
    BY <2>1, <2>2 DEF Touch
<1>3. \A x, y \in Keys : TouchedPair(x, y, U, K) => TouchedPair(x, x, U, K) /\ TouchedPair(y, y, U, K)
  BY DEF TouchedPair, IsOrder
<1> QED
  BY <1>1, <1>2, <1>3 DEF IsOrder

LEMMA TouchNone ==
  ASSUME NEW U, IsOrder(U)
  PROVE  Touch(U, {}) = U
  BY DEF Touch, Without

LEMMA WithoutOne ==
  ASSUME NEW U, IsOrder(U), NEW K \in Keys
  PROVE  /\ IsOrder(Without(U, {K}))
         /\ \A x, y \in Keys : Pair(x, y, Without(U, {K})) <=> Pair(x, y, U) /\ x # K /\ y # K
<1>1. \A x, y \in Keys : Pair(x, y, Without(U, {K})) <=> Pair(x, y, U) /\ x # K /\ y # K
  BY DEF Without, Pair
<1>2. Without(U, {K}) \subseteq Keys \X Keys
  BY DEF Without, IsOrder
<1> QED
  BY <1>1, <1>2 DEF IsOrder

LEMMA EmptyOrder == IsOrder({}) /\ \A x, y \in Keys : ~Pair(x, y, {})
  BY DEF IsOrder, Pair

-----------------------------------------------------------------------------
(* The list of added keysyms: what putting one on a spare keycode and what *)
(* using one does to it.                                                   *)

LEMMA ItemKey ==
  ASSUME NEW a \in Seq(Item), NEW i \in 1..Len(a)
  PROVE  a[i] \in Item /\ a[i].key \in Keys /\ a[i].key \in Free
<1>1. a[i] \in Item
  OBVIOUS
<1> QED
  BY <1>1 DEF Item, Free

\* An item is usable or not by what its own keycode means.
LEMMA SameUnmodified ==
  ASSUME NEW m, NEW n, NEW item, m[item.key] = n[item.key]
  PROVE  Unmodified(m, item) <=> Unmodified(n, item)
  BY Zenon DEF Unmodified

Puts(m, n, K, sym) ==
  DOMAIN n = Keys /\ n[K] = AddedKey(sym) /\ \A k \in Keys \ {K} : n[k] = m[k]

\* The list b is an item followed by the first ones of a.
Prefixed(a, b, item, len) ==
  /\ len \in 0..Len(a) /\ b \in Seq(Item) /\ Len(b) = len + 1 /\ b[1] = item
  /\ \A i \in 1..len : b[i + 1] = a[i]

\* The keycode K takes the keysym: it was unused, or is the oldest usable one.
TakesKey(m, a, K, len) ==
  \/ m[K].groups = <<>> /\ len = Len(a)
  \/ /\ len < Len(a) /\ K = a[len + 1].key /\ Unmodified(m, a[len + 1])
     /\ \A i \in 1..Len(a) : Unmodified(m, a[i]) => i <= len + 1

AddsOn(m, a, sym, n, b) ==
  \/ n = m /\ b = <<>> /\ Unused(m) = {} /\ \A i \in 1..Len(a) : ~Unmodified(m, a[i])
  \/ \E K \in Free, len \in 0..Len(a) :
       /\ Puts(m, n, K, sym) /\ Prefixed(a, b, [key |-> K, sym |-> Lower[sym]], len)
       /\ TakesKey(m, a, K, len)

LEMMA PutsIt ==
  ASSUME NEW m, OKMap(m), NEW K \in Free, NEW sym
  PROVE  Puts(m, [m EXCEPT ![K] = AddedKey(sym)], K, sym)
  BY DEF Puts, OKMap, Free

LEMMA PrefixedIt ==
  ASSUME NEW a \in Seq(Item), NEW item \in Item, NEW len \in 0..Len(a)
  PROVE  Prefixed(a, <<item>> \o SubSeq(a, 1, len), item, len)
<1>1. SubSeq(a, 1, len) \in Seq(Item) /\ Len(SubSeq(a, 1, len)) = len /\ \A i \in 1..len : SubSeq(a, 1, len)[i] = a[i]
  OBVIOUS
<1> QED
  BY <1>1 DEF Prefixed

LEMMA AddIs ==
  ASSUME NEW m, OKMap(m), NEW a \in Seq(Item), NEW sym \in Typed
  PROVE  AddsOn(m, a, sym, lorieAddKeysym(m, a, sym).map, lorieAddKeysym(m, a, sym).added)
<1> DEFINE r == IF Unused(m) # {} THEN [key |-> Max(Unused(m)), rest |-> a]
                ELSE getReusableKeycode(m, a)
           add == lorieAddKeysym(m, a, sym)
<1>1. add = IF r.key = 0 THEN [map |-> m, added |-> r.rest]
            ELSE [map |-> [m EXCEPT ![r.key] = AddedKey(sym)],
                  added |-> <<[key |-> r.key, sym |-> Lower[sym]]>> \o r.rest]
  BY DEF lorieAddKeysym, SavedKeysym
<1>2. \A K \in Free : K # 0 /\ K \in Keys /\ [key |-> K, sym |-> Lower[sym]] \in Item
  BY KeymapAssumption DEF Free, Item
<1>3. Unused(m) \in SUBSET Free
  BY UnusedIsFree
<1>4. CASE Unused(m) # {}
  <2> DEFINE K == Max(Unused(m))
  <2>1. K \in Unused(m)
    BY <1>3, <1>4, FreeIsFinite, MaxIs
  <2>2. K \in Free /\ m[K].groups = <<>>
    BY <1>3, <2>1 DEF Unused
  <2>3. r = [key |-> K, rest |-> a]
    BY <1>4
  <2> HIDE DEF K, r
  <2>4. add.map = [m EXCEPT ![K] = AddedKey(sym)] /\ add.added = <<[key |-> K, sym |-> Lower[sym]]>> \o a
    BY <1>1, <1>2, <2>2, <2>3
  <2>5. Len(a) \in 0..Len(a) /\ SubSeq(a, 1, Len(a)) = a
    OBVIOUS
  <2>6. Puts(m, add.map, K, sym) /\ Prefixed(a, add.added, [key |-> K, sym |-> Lower[sym]], Len(a))
    <3>1. Puts(m, add.map, K, sym)
      BY <2>2, <2>4, PutsIt
    <3> DEFINE item == [key |-> K, sym |-> Lower[sym]]
    <3>2. item \in Item
      BY <1>2, <2>2
    <3> HIDE DEF item
    <3>3. Prefixed(a, <<item>> \o SubSeq(a, 1, Len(a)), item, Len(a))
      BY <2>5, <3>2, PrefixedIt
    <3>4. Prefixed(a, add.added, item, Len(a))
      BY <2>4, <2>5, <3>3, Zenon DEF item
    <3> QED
      BY <3>1, <3>4 DEF item
  <2> QED
    BY <2>2, <2>5, <2>6 DEF AddsOn, TakesKey
<1>5. CASE Unused(m) = {}
  <2> DEFINE usable == {i \in DOMAIN a : Unmodified(m, a[i])}
  <2>0. DOMAIN a = 1..Len(a) /\ Len(a) \in Nat
    OBVIOUS
  <2>1. CASE usable = {}
    <3>1. r = [key |-> 0, rest |-> <<>>]
      BY <1>5, <2>1 DEF getReusableKeycode
    <3> HIDE DEF r
    <3>2. add.map = m /\ add.added = <<>>
      BY <1>1, <3>1
    <3>3. \A i \in 1..Len(a) : ~Unmodified(m, a[i])
      BY <2>0, <2>1
    <3> QED
      BY <1>5, <3>2, <3>3 DEF AddsOn
  <2>2. CASE usable # {}
    <3> DEFINE top == Max(usable)
               K == a[top].key
    <3>1. r = [key |-> K, rest |-> SubSeq(a, 1, top - 1)]
      BY <1>5, <2>2 DEF getReusableKeycode
    <3>2. usable \in SUBSET (1..Len(a)) /\ IsFiniteSet(1..Len(a))
      BY <2>0, FS_Interval
    <3>3. usable \in SUBSET Nat /\ IsFiniteSet(usable)
      BY <3>2, FS_Subset
    <3>4. top \in usable /\ \A i \in usable : i <= top
      <4> HIDE DEF usable
      <4> QED
        BY <2>2, <3>3, MaxIs
    <3>5. top \in 1..Len(a) /\ Unmodified(m, a[top]) /\ \A i \in 1..Len(a) : Unmodified(m, a[i]) => i <= top
      BY <2>0, <3>4
    <3> HIDE DEF top, usable, r
    <3>6. K \in Free
      BY <3>5, ItemKey
    <3> DEFINE len == top - 1
    <3>7. len \in 0..Len(a) /\ len < Len(a) /\ len + 1 = top
      BY <2>0, <3>5
    <3> HIDE DEF len
    <3>8. r.rest = SubSeq(a, 1, len) /\ r.key = K
      BY <3>1 DEF len
    <3> HIDE DEF K
    <3>9. add.map = [m EXCEPT ![K] = AddedKey(sym)]
          /\ add.added = <<[key |-> K, sym |-> Lower[sym]]>> \o SubSeq(a, 1, len)
      <4> HIDE DEF add
      <4>1. r.key # 0
        BY <1>2, <3>6, <3>8
      <4> QED
        BY <1>1, <3>8, <4>1
    <3>10. Puts(m, add.map, K, sym) /\ Prefixed(a, add.added, [key |-> K, sym |-> Lower[sym]], len)
      BY <1>2, <3>6, <3>7, <3>9, PutsIt, PrefixedIt
    <3> HIDE DEF add
    <3>11. K = a[len + 1].key /\ Unmodified(m, a[len + 1]) /\ \A i \in 1..Len(a) : Unmodified(m, a[i]) => i <= len + 1
      BY <3>5, <3>7 DEF K
    <3>12. AddsOn(m, a, sym, add.map, add.added)
      BY <3>6, <3>7, <3>10, <3>11 DEF AddsOn, TakesKey
    <3> QED
      BY <3>12 DEF add
  <2> QED
    BY <2>1, <2>2
<1> QED
  BY <1>4, <1>5

-----------------------------------------------------------------------------
(* The list is in order of use. *)

\* Every usable item is in use.
InList(m, a, U) == \A i \in 1..Len(a) : Unmodified(m, a[i]) => Pair(a[i].key, a[i].key, U)

\* Items have different keycodes, with a meaning; the usable ones are those in
\* use, the most recently used first.
Distinct(a) == \A i, j \in 1..Len(a) : i # j => a[i].key # a[j].key
Meaningful(m, a) == \A i \in 1..Len(a) : m[a[i].key].groups # <<>>
ByUse(m, a, U) ==
  \A i, j \in 1..Len(a) : i < j /\ Unmodified(m, a[i]) /\ Unmodified(m, a[j]) => Pair(a[i].key, a[j].key, U)
Listed(m, a, U) == \A k \in Keys : Pair(k, k, U) => \E i \in 1..Len(a) : a[i].key = k /\ Unmodified(m, a[i])
Ordered(m, a, U) == Distinct(a) /\ Meaningful(m, a) /\ ByUse(m, a, U) /\ Listed(m, a, U)

\* Every spare keycode with a meaning is in use.
FreeUsed(m, U) == \A k \in Free : m[k].groups # <<>> => Pair(k, k, U)

Carries(m, a, U, n, b, V) ==
  /\ IsOrder(V) /\ InList(n, b, V)
  /\ Ordered(m, a, U) => Ordered(n, b, V)
  /\ FreeUsed(m, U) => FreeUsed(n, V)

LEMMA AddedUnmodified ==
  ASSUME NEW n, NEW K, NEW sym, n[K] = AddedKey(sym)
  PROVE  n[K].groups # <<>> /\ Unmodified(n, [key |-> K, sym |-> Lower[sym]])
<1> DEFINE G == [type |-> "ALPHABETIC", syms |-> <<Lower[sym], Upper[sym]>>, acts |-> <<NoAction, NoAction>>]
           item == [key |-> K, sym |-> Lower[sym]]
<1>1. n[K].groups = <<G>> /\ n[K].named
  BY DEF AddedKey
<1>2. G.syms[1] = Lower[sym]
  OBVIOUS
<1> HIDE DEF G
<1>3. <<G>> # <<>> /\ <<G>>[1] = G
  OBVIOUS
<1>4. item.key = K /\ item.sym = Lower[sym]
  OBVIOUS
<1> HIDE DEF item
<1>5. n[K].groups # <<>> /\ n[K].groups[1].syms[1] = Lower[sym]
  BY <1>1, <1>2, <1>3, Zenon
<1>6. Unmodified(n, item)
  BY <1>1, <1>4, <1>5, Zenon DEF Unmodified
<1> QED
  BY <1>5, <1>6 DEF item

LEMMA AddCarries ==
  ASSUME NEW m, NEW n, NEW a \in Seq(Item), NEW b, NEW sym, NEW U, IsOrder(U), InList(m, a, U),
         NEW K \in Free, NEW len, Puts(m, n, K, sym),
         Prefixed(a, b, [key |-> K, sym |-> Lower[sym]], len), TakesKey(m, a, K, len)
  PROVE  Carries(m, a, U, n, b, Touch(U, {K}))
<1> DEFINE item == [key |-> K, sym |-> Lower[sym]]
           V == Touch(U, {K})
<1>0. K \in Keys
  BY DEF Free
<1>1. IsOrder(V) /\ \A x, y \in Keys : Pair(x, y, V) <=> TouchedPair(x, y, U, K)
  BY <1>0, TouchOne
<1>2. n[K] = AddedKey(sym) /\ \A k \in Keys \ {K} : n[k] = m[k]
  BY DEF Puts
<1>3. item.key = K /\ n[K].groups # <<>> /\ Unmodified(n, item)
  BY <1>2, AddedUnmodified
<1> HIDE DEF item, V
<1>4. Prefixed(a, b, item, len)
  BY DEF item
<1>5. Len(a) \in Nat /\ len \in 0..Len(a) /\ Len(b) = len + 1 /\ b[1] = item
      /\ \A i \in 1..len : b[i + 1] = a[i]
  BY <1>4 DEF Prefixed
<1>6. \A i \in 1..Len(a) : a[i].key \in Keys
  BY ItemKey
<1>7. \A i \in 1..Len(b) : i = 1 \/ (i - 1 \in 1..len /\ i - 1 \in 1..Len(a) /\ b[i] = a[i - 1])
  <2> SUFFICES ASSUME NEW i \in 1..Len(b), i # 1 PROVE i - 1 \in 1..len /\ i - 1 \in 1..Len(a) /\ b[i] = a[i - 1]
    OBVIOUS
  <2>1. i - 1 \in 1..len /\ i - 1 \in 1..Len(a) /\ (i - 1) + 1 = i
    BY <1>5
  <2> QED
    BY <1>5, <2>1
<1>8. \A i \in 1..Len(a) : a[i].key # K => (Unmodified(n, a[i]) <=> Unmodified(m, a[i]))
  <2> SUFFICES ASSUME NEW i \in 1..Len(a), a[i].key # K PROVE Unmodified(n, a[i]) <=> Unmodified(m, a[i])
    OBVIOUS
  <2>1. n[a[i].key] = m[a[i].key]
    BY <1>2, <1>6
  <2> QED
    BY <2>1, SameUnmodified
<1>9. InList(n, b, V)
  <2> SUFFICES ASSUME NEW i \in 1..Len(b), Unmodified(n, b[i]) PROVE Pair(b[i].key, b[i].key, V)
    BY DEF InList
  <2>1. CASE b[i].key = K
    BY <1>0, <1>1, <2>1 DEF TouchedPair
  <2>2. CASE b[i].key # K
    <3>1. i # 1
      BY <1>3, <1>5, <2>2
    <3>2. i - 1 \in 1..Len(a) /\ b[i] = a[i - 1]
      BY <1>7, <3>1
    <3>3. Pair(b[i].key, b[i].key, U) /\ b[i].key \in Keys
      BY <1>6, <1>8, <2>2, <3>2 DEF InList
    <3> QED
      BY <1>1, <2>2, <3>3 DEF TouchedPair
  <2> QED
    BY <2>1, <2>2
<1>10. ASSUME Ordered(m, a, U) PROVE Ordered(n, b, V)
  <2>1. Distinct(a) /\ Meaningful(m, a) /\ ByUse(m, a, U) /\ Listed(m, a, U)
    BY <1>10 DEF Ordered
  <2>2. \A i \in 1..len : i \in 1..Len(a) /\ a[i].key # K
    <3> SUFFICES ASSUME NEW i \in 1..len PROVE i \in 1..Len(a) /\ a[i].key # K
      OBVIOUS
    <3>1. i \in 1..Len(a) /\ i # len + 1
      BY <1>5
    <3>2. CASE m[K].groups = <<>>
      BY <2>1, <3>1, <3>2 DEF Meaningful
    <3>3. CASE len < Len(a) /\ K = a[len + 1].key
      <4>1. len + 1 \in 1..Len(a)
        BY <1>5, <3>3
      <4> QED
        BY <2>1, <3>1, <3>3, <4>1 DEF Distinct
    <3> QED
      BY <3>2, <3>3 DEF TakesKey
  <2>3. \A i \in 1..Len(b) : i # 1 => b[i].key # K /\ b[i].key \in Keys
    BY <1>6, <1>7, <2>2
  <2>4. b[1].key = K
    BY <1>3, <1>5
  <2>5. Distinct(b)
    <3> SUFFICES ASSUME NEW i \in 1..Len(b), NEW j \in 1..Len(b), i # j PROVE b[i].key # b[j].key
      BY DEF Distinct
    <3>1. CASE i = 1
      BY <2>3, <2>4, <3>1
    <3>2. CASE j = 1
      BY <2>3, <2>4, <3>2
    <3>3. CASE i # 1 /\ j # 1
      <4>1. i - 1 # j - 1
        BY <1>5
      <4> QED
        BY <1>7, <2>1, <3>3, <4>1 DEF Distinct
    <3> QED
      BY <3>1, <3>2, <3>3
  <2>6. Meaningful(n, b)
    <3> SUFFICES ASSUME NEW i \in 1..Len(b) PROVE n[b[i].key].groups # <<>>
      BY DEF Meaningful
    <3>1. CASE i = 1
      BY <1>3, <2>4, <3>1
    <3>2. CASE i # 1
      BY <1>2, <1>7, <2>1, <2>3, <3>2 DEF Meaningful
    <3> QED
      BY <3>1, <3>2
  <2>7. ByUse(n, b, V)
    <3> SUFFICES ASSUME NEW i \in 1..Len(b), NEW j \in 1..Len(b), i < j, Unmodified(n, b[i]), Unmodified(n, b[j])
                 PROVE  Pair(b[i].key, b[j].key, V)
      BY DEF ByUse
    <3>1. j # 1 /\ (i # 1 => i - 1 < j - 1)
      BY <1>5
    <3>2. b[j].key # K /\ b[j].key \in Keys /\ j - 1 \in 1..Len(a) /\ b[j] = a[j - 1] /\ Unmodified(m, a[j - 1])
      BY <1>7, <1>8, <2>3, <3>1
    <3>3. CASE i = 1
      <4>1. Pair(b[j].key, b[j].key, U)
        BY <3>2 DEF InList
      <4> QED
        BY <1>0, <1>1, <2>4, <3>2, <3>3, <4>1 DEF TouchedPair
    <3>4. CASE i # 1
      <4>1. b[i].key # K /\ b[i].key \in Keys /\ i - 1 \in 1..Len(a) /\ b[i] = a[i - 1] /\ Unmodified(m, a[i - 1])
        BY <1>7, <1>8, <2>3, <3>4
      <4>2. Pair(b[i].key, b[j].key, U)
        BY <2>1, <3>1, <3>2, <3>4, <4>1 DEF ByUse
      <4> QED
        BY <1>1, <3>2, <4>1, <4>2 DEF TouchedPair
    <3> QED
      BY <3>3, <3>4
  <2>8. Listed(n, b, V)
    <3> SUFFICES ASSUME NEW k \in Keys, Pair(k, k, V) PROVE \E i \in 1..Len(b) : b[i].key = k /\ Unmodified(n, b[i])
      BY DEF Listed
    <3>1. CASE k = K
      <4>1. 1 \in 1..Len(b) /\ Unmodified(n, b[1])
        BY <1>3, <1>5
      <4> QED
        BY <2>4, <3>1, <4>1
    <3>2. CASE k # K
      <4>1. Pair(k, k, U)
        BY <1>1, <3>2 DEF TouchedPair
      <4>2. PICK i \in 1..Len(a) : a[i].key = k /\ Unmodified(m, a[i])
        BY <2>1, <4>1 DEF Listed
      <4>3. i \in 1..len
        BY <1>5, <3>2, <4>2 DEF TakesKey
      <4>4. i + 1 \in 1..Len(b) /\ b[i + 1] = a[i]
        BY <1>5, <4>3
      <4>5. Unmodified(n, a[i])
        BY <1>8, <3>2, <4>2
      <4> QED
        BY <4>2, <4>4, <4>5
    <3> QED
      BY <3>1, <3>2
  <2> QED
    BY <2>5, <2>6, <2>7, <2>8 DEF Ordered
<1>11. ASSUME FreeUsed(m, U) PROVE FreeUsed(n, V)
  <2> SUFFICES ASSUME NEW k \in Free, n[k].groups # <<>> PROVE Pair(k, k, V)
    BY DEF FreeUsed
  <2>1. k \in Keys /\ (k # K => Pair(k, k, U))
    BY <1>2, <1>11 DEF FreeUsed, Free
  <2> QED
    BY <1>0, <1>1, <2>1 DEF TouchedPair
<1> QED
  BY <1>1, <1>9, <1>10, <1>11 DEF Carries, V

\* Where the item at place i of the list was before the one at x moved to the front.
From(i, x) == IF i = 1 THEN x ELSE IF i <= x THEN i - 1 ELSE i

MovesTo(a, b, x) ==
  /\ x \in 1..Len(a) /\ b \in Seq(Item) /\ Len(b) = Len(a)
  /\ \A i \in 1..Len(a) : b[i] = a[From(i, x)]

LEMMA FromIs ==
  ASSUME NEW n \in Nat, NEW x \in 1..n
  PROVE  /\ \A i \in 1..n : From(i, x) \in 1..n /\ (From(i, x) = x <=> i = 1)
         /\ \A i, j \in 1..n : i < j /\ i # 1 => From(i, x) < From(j, x)
         /\ \A i, j \in 1..n : i # j => From(i, x) # From(j, x)
         /\ \A j \in 1..n : \E i \in 1..n : From(i, x) = j
<1>1. \A i \in 1..n : From(i, x) \in 1..n /\ (From(i, x) = x <=> i = 1)
  BY DEF From
<1>2. \A i, j \in 1..n : i < j /\ i # 1 => From(i, x) < From(j, x)
  BY DEF From
<1>3. \A i, j \in 1..n : i # j => From(i, x) # From(j, x)
  BY DEF From
<1>4. \A j \in 1..n : \E i \in 1..n : From(i, x) = j
  <2> SUFFICES ASSUME NEW j \in 1..n PROVE \E i \in 1..n : From(i, x) = j
    OBVIOUS
  <2>1. CASE j = x
    <3>1. 1 \in 1..n /\ From(1, x) = j
      BY <2>1 DEF From
    <3> QED
      BY <3>1
  <2>2. CASE j < x
    <3>1. j + 1 \in 1..n /\ From(j + 1, x) = j
      BY <2>2 DEF From
    <3> QED
      BY <3>1
  <2>3. CASE j > x
    <3>1. From(j, x) = j
      BY <2>3 DEF From
    <3> QED
      BY <3>1
  <2> QED
    BY <2>1, <2>2, <2>3
<1> QED
  BY <1>1, <1>2, <1>3, <1>4

LEMMA UsedIs ==
  ASSUME NEW a \in Seq(Item), NEW key
  PROVE  \/ vncOnKeyUsed(a, key) = a /\ \A i \in 1..Len(a) : a[i].key # key
         \/ \E x \in 1..Len(a) : a[x].key = key /\ MovesTo(a, vncOnKeyUsed(a, key), x)
<1> DEFINE at == {i \in DOMAIN a : a[i].key = key}
<1>0. DOMAIN a = 1..Len(a) /\ Len(a) \in Nat
  OBVIOUS
<1>1. CASE at = {}
  BY <1>0, <1>1 DEF vncOnKeyUsed
<1>2. CASE at # {}
  <2> DEFINE x == Min(at)
             b == vncOnKeyUsed(a, key)
  <2>1. b = <<a[x]>> \o RemoveAt(a, x)
    BY <1>2 DEF vncOnKeyUsed
  <2>2. at \in SUBSET (1..Len(a)) /\ at \in SUBSET Nat
    BY <1>0
  <2>3. x \in at
    <3> HIDE DEF at
    <3> QED
      BY <1>2, <2>2, MinIs
  <2>4. x \in 1..Len(a) /\ a[x].key = key
    BY <2>2, <2>3
  <2> HIDE DEF x, at
  <2>5. RemoveAt(a, x) = SubSeq(a, 1, x - 1) \o SubSeq(a, x + 1, Len(a))
    BY DEF RemoveAt
  <2> DEFINE u == SubSeq(a, 1, x - 1)
             v == SubSeq(a, x + 1, Len(a))
  <2>6. u \in Seq(Item) /\ Len(u) = x - 1 /\ \A i \in 1..(x - 1) : u[i] = a[i]
    BY <1>0, <2>4
  <2>7. v \in Seq(Item) /\ Len(v) = Len(a) - x /\ \A i \in 1..(Len(a) - x) : v[i] = a[x + i]
    <3> DEFINE y == x + 1
               z == Len(a) - x
    <3>1. y \in Nat \ {0} /\ z \in Nat /\ y <= Len(a) + 1 /\ z = Len(a) - y + 1
      BY <1>0, <2>4
    <3>2. v \in Seq(Item)
      BY <1>0, <3>1
    <3>3. Len(v) = z
      BY <1>0, <3>1
    <3>4. \A i \in 1..z : v[i] = a[y + i - 1]
      BY <1>0, <3>1
    <3>5. \A i \in 1..z : y + i - 1 = x + i
      BY <1>0, <2>4
    <3> HIDE DEF v
    <3> QED
      BY <3>2, <3>3, <3>4, <3>5
  <2>8. <<a[x]>> \in Seq(Item)
    BY <2>4
  <2> HIDE DEF u, v, b
  <2>9. b = <<a[x]>> \o (u \o v)
    BY <2>1, <2>5 DEF u, v
  <2> DEFINE w == u \o v
  <2>10. w \in Seq(Item) /\ Len(w) = Len(a) - 1
         /\ \A i \in 1..(Len(a) - 1) : w[i] = IF i <= x - 1 THEN u[i] ELSE v[i - (x - 1)]
    <3>0. u \in Seq(Item) /\ v \in Seq(Item)
      BY <2>6, <2>7
    <3>1. w \in Seq(Item) /\ Len(w) = Len(u) + Len(v)
      BY <3>0
    <3>2. \A i \in 1..(Len(u) + Len(v)) : w[i] = IF i <= Len(u) THEN u[i] ELSE v[i - Len(u)]
      BY <3>0
    <3>3. Len(u) + Len(v) = Len(a) - 1
      BY <1>0, <2>4, <2>6, <2>7
    <3> HIDE DEF w
    <3> QED
      BY <2>6, <3>1, <3>2, <3>3
  <2> HIDE DEF w
  <2>11. b \in Seq(Item) /\ Len(b) = Len(a) /\ b[1] = a[x] /\ \A i \in 2..Len(a) : b[i] = w[i - 1]
    <3>1. b = <<a[x]>> \o w
      BY <2>9 DEF w
    <3>2. Len(a) - 1 \in Nat /\ 1 + (Len(a) - 1) = Len(a)
      BY <1>0, <2>4
    <3>3. PICK e : e = a[x] /\ e \in Item
      BY <2>4
    <3>4. <<e>> \o w \in Seq(Item) /\ Len(<<e>> \o w) = 1 + Len(w) /\ (<<e>> \o w)[1] = e
      BY <2>10, <3>3
    <3>5. \A i \in 2..(1 + Len(w)) : (<<e>> \o w)[i] = w[i - 1]
      BY <2>10, <3>3
    <3> QED
      BY <2>10, <3>1, <3>2, <3>3, <3>4, <3>5
  <2>12. \A i \in 1..Len(a) : b[i] = a[From(i, x)]
    <3> SUFFICES ASSUME NEW i \in 1..Len(a) PROVE b[i] = a[From(i, x)]
      OBVIOUS
    <3>1. CASE i = 1
      BY <2>11, <3>1 DEF From
    <3>2. CASE i # 1 /\ i <= x
      <4>1. i \in 2..Len(a) /\ i - 1 \in 1..(Len(a) - 1) /\ i - 1 <= x - 1 /\ i - 1 \in 1..(x - 1)
        BY <1>0, <2>4, <3>2
      <4>2. b[i] = a[i - 1]
        BY <2>6, <2>10, <2>11, <4>1
      <4> QED
        BY <3>2, <4>2 DEF From
    <3>3. CASE i # 1 /\ ~(i <= x)
      <4>1. i \in 2..Len(a) /\ i - 1 \in 1..(Len(a) - 1) /\ ~(i - 1 <= x - 1)
            /\ (i - 1) - (x - 1) = i - x /\ i - x \in 1..(Len(a) - x) /\ x + (i - x) = i
        BY <1>0, <2>4, <3>3
      <4>2. b[i] = v[i - x]
        BY <2>10, <2>11, <4>1
      <4>3. v[i - x] = a[i]
        BY <2>7, <4>1
      <4> QED
        BY <3>3, <4>2, <4>3 DEF From
    <3> QED
      BY <3>1, <3>2, <3>3
  <2>13. MovesTo(a, b, x)
    BY <2>4, <2>11, <2>12 DEF MovesTo
  <2> QED
    BY <2>4, <2>13 DEF b
<1> QED
  BY <1>1, <1>2

LEMMA MoveCarries ==
  ASSUME NEW m, NEW a \in Seq(Item), NEW b, NEW U, IsOrder(U), InList(m, a, U),
         NEW x \in 1..Len(a), MovesTo(a, b, x), NEW V, IsOrder(V),
         \/ V = U /\ ~Pair(a[x].key, a[x].key, U)
         \/ /\ \A u, v \in Keys : Pair(u, v, V) <=> TouchedPair(u, v, U, a[x].key)
            /\ Pair(a[x].key, a[x].key, U)
  PROVE  Carries(m, a, U, m, b, V)
<1> DEFINE n == Len(a)
           K == a[x].key
           f(i) == From(i, x)
<1>0. n \in Nat /\ x \in 1..n /\ Len(b) = n /\ \A i \in 1..n : b[i] = a[f(i)]
  BY DEF MovesTo
<1>1. /\ \A i \in 1..n : f(i) \in 1..n /\ (f(i) = x <=> i = 1)
      /\ \A i, j \in 1..n : i < j /\ i # 1 => f(i) < f(j)
      /\ \A i, j \in 1..n : i # j => f(i) # f(j)
      /\ \A j \in 1..n : \E i \in 1..n : f(i) = j
  BY <1>0, FromIs
<1>2. \A i \in 1..n : a[i].key \in Keys
  BY ItemKey
<1> HIDE DEF n, K, f
<1>3. \A k \in Keys : Pair(k, k, V) <=> Pair(k, k, U)
  BY <1>0, <1>2 DEF TouchedPair, K
<1>4. \A i \in 1..n : Unmodified(m, a[i]) => Pair(a[i].key, a[i].key, U)
  BY DEF InList, n
<1>5. InList(m, b, V)
  BY <1>0, <1>1, <1>2, <1>3, <1>4 DEF InList
<1>6. ASSUME Ordered(m, a, U) PROVE Ordered(m, b, V)
  <2>1. /\ \A i, j \in 1..n : i # j => a[i].key # a[j].key
        /\ \A i \in 1..n : m[a[i].key].groups # <<>>
        /\ \A i, j \in 1..n : i < j /\ Unmodified(m, a[i]) /\ Unmodified(m, a[j]) => Pair(a[i].key, a[j].key, U)
        /\ \A k \in Keys : Pair(k, k, U) => \E i \in 1..n : a[i].key = k /\ Unmodified(m, a[i])
    BY <1>6 DEF Ordered, Distinct, Meaningful, ByUse, Listed, n
  <2>2. Distinct(b)
    <3> SUFFICES ASSUME NEW i \in 1..n, NEW j \in 1..n, i # j PROVE b[i].key # b[j].key
      BY <1>0 DEF Distinct
    <3>1. f(i) \in 1..n /\ f(j) \in 1..n /\ f(i) # f(j)
      BY <1>1
    <3> QED
      BY <1>0, <2>1, <3>1
  <2>3. Meaningful(m, b)
    <3> SUFFICES ASSUME NEW i \in 1..n PROVE m[b[i].key].groups # <<>>
      BY <1>0 DEF Meaningful
    <3>1. f(i) \in 1..n
      BY <1>1
    <3> QED
      BY <1>0, <2>1, <3>1
  <2>4. ByUse(m, b, V)
    <3> SUFFICES ASSUME NEW i \in 1..n, NEW j \in 1..n, i < j, Unmodified(m, b[i]), Unmodified(m, b[j])
                 PROVE  Pair(b[i].key, b[j].key, V)
      BY <1>0 DEF ByUse
    <3>1. j # 1
      BY <1>0
    <3>2. /\ f(i) \in 1..n /\ f(j) \in 1..n /\ b[i] = a[f(i)] /\ b[j] = a[f(j)]
          /\ Pair(a[f(i)].key, a[f(i)].key, U) /\ Pair(a[f(j)].key, a[f(j)].key, U)
      BY <1>0, <1>1, <1>4
    <3>3. f(j) # x /\ a[f(j)].key # K
      BY <1>0, <1>1, <2>1, <3>1, <3>2 DEF K
    <3>4. CASE i = 1
      <4>1. f(i) = x
        BY <1>1, <3>4
      <4>2. a[f(i)].key = K /\ K \in Keys /\ Pair(K, K, U)
        BY <1>0, <1>2, <3>2, <4>1 DEF K
      <4>3. Pair(K, a[f(j)].key, V)
        BY <1>2, <3>2, <4>2 DEF TouchedPair, K
      <4> QED
        BY <3>2, <4>2, <4>3
    <3>5. CASE i # 1
      <4>1. f(i) < f(j) /\ f(i) # x
        BY <1>1, <3>5
      <4>2. a[f(i)].key # K
        BY <1>0, <2>1, <3>2, <4>1 DEF K
      <4>3. Pair(a[f(i)].key, a[f(j)].key, U)
        BY <2>1, <3>2, <4>1
      <4>4. Pair(a[f(i)].key, a[f(j)].key, V)
        BY <1>2, <3>2, <3>3, <4>2, <4>3 DEF TouchedPair, K
      <4> QED
        BY <3>2, <4>4
    <3> QED
      BY <3>4, <3>5
  <2>5. Listed(m, b, V)
    <3> SUFFICES ASSUME NEW k \in Keys, Pair(k, k, V) PROVE \E i \in 1..n : b[i].key = k /\ Unmodified(m, b[i])
      BY <1>0 DEF Listed
    <3>1. PICK j \in 1..n : a[j].key = k /\ Unmodified(m, a[j])
      BY <1>3, <2>1
    <3>2. PICK i \in 1..n : f(i) = j
      BY <1>1
    <3> QED
      BY <1>0, <3>1, <3>2
  <2> QED
    BY <2>2, <2>3, <2>4, <2>5 DEF Ordered
<1>7. FreeUsed(m, U) => FreeUsed(m, V)
  BY <1>3 DEF FreeUsed, Free
<1> QED
  BY <1>5, <1>6, <1>7 DEF Carries

LEMMA CarriesSame ==
  ASSUME NEW m, NEW a, NEW U, IsOrder(U), InList(m, a, U)
  PROVE  Carries(m, a, U, m, a, U)
  BY DEF Carries

LEMMA CarriesTwice ==
  ASSUME NEW m, NEW a, NEW U, NEW n, NEW b, NEW V, NEW o, NEW c, NEW W,
         Carries(m, a, U, n, b, V), Carries(n, b, V, o, c, W)
  PROVE  Carries(m, a, U, o, c, W)
  BY DEF Carries

\* The list is emptied only when nothing of it can be used.
LEMMA CarriesNothing ==
  ASSUME NEW m, NEW a \in Seq(Item), NEW U, IsOrder(U), \A i \in 1..Len(a) : ~Unmodified(m, a[i])
  PROVE  Carries(m, a, U, m, <<>>, U)
<1>1. Len(<<>>) = 0 /\ \A i \in 1..Len(<<>>) : FALSE
  OBVIOUS
<1>2. InList(m, <<>>, U)
  BY <1>1 DEF InList
<1>3. ASSUME Ordered(m, a, U) PROVE Ordered(m, <<>>, U)
  <2>1. \A k \in Keys : ~Pair(k, k, U)
    BY <1>3 DEF Ordered, Listed
  <2>2. Distinct(<<>>) /\ Meaningful(m, <<>>) /\ ByUse(m, <<>>, U)
    BY <1>1 DEF Distinct, Meaningful, ByUse
  <2>3. Listed(m, <<>>, U)
    BY <2>1 DEF Listed
  <2> QED
    BY <2>2, <2>3 DEF Ordered
<1> QED
  BY <1>2, <1>3 DEF Carries

\* A keycode with a meaning gets another one only if it is the one in use that
\* was used before all others.
OnlyOldest(m, a, U, n) ==
  \A k \in Keys : m[k].groups # <<>> /\ n[k] # m[k] =>
    /\ Pair(k, k, U)
    /\ Ordered(m, a, U) => \A j \in Keys : Pair(j, j, U) => Pair(j, k, U)

LEMMA TakesOldest ==
  ASSUME NEW m, NEW n, NEW a \in Seq(Item), NEW U, IsOrder(U), InList(m, a, U), NEW K \in Free, NEW sym, NEW len,
         len \in 0..Len(a), Puts(m, n, K, sym), TakesKey(m, a, K, len)
  PROVE  OnlyOldest(m, a, U, n)
<1> SUFFICES ASSUME NEW k \in Keys, m[k].groups # <<>>, n[k] # m[k]
             PROVE  /\ Pair(k, k, U)
                    /\ Ordered(m, a, U) => \A j \in Keys : Pair(j, j, U) => Pair(j, k, U)
  BY DEF OnlyOldest
<1>1. k = K
  BY DEF Puts
<1>2. len < Len(a) /\ K = a[len + 1].key /\ Unmodified(m, a[len + 1])
      /\ \A i \in 1..Len(a) : Unmodified(m, a[i]) => i <= len + 1
  BY <1>1 DEF TakesKey
<1>3. len + 1 \in 1..Len(a)
  BY <1>2
<1>4. Pair(k, k, U)
  BY <1>1, <1>2, <1>3 DEF InList
<1>5. ASSUME Ordered(m, a, U), NEW j \in Keys, Pair(j, j, U) PROVE Pair(j, k, U)
  <2>1. PICK i \in 1..Len(a) : a[i].key = j /\ Unmodified(m, a[i])
    BY <1>5 DEF Ordered, Listed
  <2>2. i = len + 1 \/ i < len + 1
    BY <1>2, <1>3, <2>1
  <2>3. CASE i = len + 1
    BY <1>1, <1>2, <1>5, <2>1, <2>3
  <2>4. CASE i < len + 1
    BY <1>1, <1>2, <1>3, <1>5, <2>1, <2>4 DEF Ordered, ByUse
  <2> QED
    BY <2>2, <2>3, <2>4
<1> QED
  BY <1>4, <1>5

\* A keysym is added only when no key gives it, so that its keycode changes.
LEMMA ChoiceCarries ==
  ASSUME OrdinaryLayout, SparesGiveCharacters, NEW m, OKMap(m), NEW a \in Seq(Item),
         NEW st \in States, NEW sym \in Typed, NEW c, c = Choice(m, a, sym, st),
         NEW U, IsOrder(U), InList(m, a, U), NEW changed, changed = {k \in Keys : m[k] # c.map[k]}
  PROVE  Carries(m, a, U, c.map, c.added, Touch(U, changed)) /\ OnlyOldest(m, a, U, c.map)
<1> DEFINE r == FindKey(m, sym, st)
           add == lorieAddKeysym(m, a, sym)
<1>1. c = IF r.key # 0 THEN Chosen(m, a, sym, st, r)
          ELSE Chosen(add.map, add.added, sym, st, lorieKeysymToKeycode(add.map, sym, st))
  BY DEF Choice, KeyOrAdd, ChosenAfterAdding
<1>2. r.key = 0 => lorieKeysymToKeycode(m, sym, st).key = 0
  BY DEF FindKey, OrAlternative
<1> HIDE DEF r
<1>3. ASSUME c.map = m PROVE changed = {} /\ Touch(U, changed) = U /\ OnlyOldest(m, a, U, c.map)
  <2>1. changed = {}
    BY <1>3
  <2>2. Touch(U, {}) = U
    BY TouchNone
  <2>3. OnlyOldest(m, a, U, c.map)
    BY <1>3 DEF OnlyOldest
  <2> QED
    BY <2>1, <2>2, <2>3, Zenon
<1>4. CASE r.key # 0
  <2>1. c.map = m /\ c.added = a
    BY <1>1, <1>4 DEF Chosen
  <2>2. Carries(m, a, U, m, a, U)
    BY CarriesSame
  <2> QED
    BY <1>3, <2>1, <2>2, Zenon
<1>5. CASE r.key = 0
  <2>1. c.map = add.map /\ c.added = add.added
    <3> HIDE DEF add
    <3> QED
      BY <1>1, <1>5 DEF Chosen
  <2>2. AddsOn(m, a, sym, c.map, c.added)
    BY <2>1, AddIs, Zenon
  <2> HIDE DEF add
  <2>3. CASE c.map = m /\ c.added = <<>> /\ \A i \in 1..Len(a) : ~Unmodified(m, a[i])
    <3>1. Carries(m, a, U, m, <<>>, U)
      BY <2>3, CarriesNothing
    <3> QED
      BY <1>3, <2>3, <3>1, Zenon
  <2>4. CASE \E K \in Free, len \in 0..Len(a) :
               Puts(m, c.map, K, sym) /\ Prefixed(a, c.added, [key |-> K, sym |-> Lower[sym]], len) /\ TakesKey(m, a, K, len)
    <3>1. PICK K \in Free, len \in 0..Len(a) :
            Puts(m, c.map, K, sym) /\ Prefixed(a, c.added, [key |-> K, sym |-> Lower[sym]], len) /\ TakesKey(m, a, K, len)
      BY <2>4
    <3>2. m[K] # AddedKey(sym)
      <4> SUFFICES ASSUME m[K] = AddedKey(sym) PROVE FALSE
        OBVIOUS
      <4>1. GivesAdded(m[K], sym) /\ K \in Keys
        BY DEF GivesAdded, Free
      <4> QED
        BY <1>2, <1>5, <4>1, AddedIsFound
    <3>3. changed = {K}
      BY <3>1, <3>2 DEF Puts, Free
    <3>4. PICK n, b : n = c.map /\ b = c.added
      OBVIOUS
    <3>5. Carries(m, a, U, n, b, Touch(U, {K}))
      BY <3>1, <3>4, AddCarries
    <3>6. OnlyOldest(m, a, U, n)
      BY <3>1, <3>4, TakesOldest
    <3> QED
      BY <3>3, <3>4, <3>5, <3>6, Zenon
  <2> QED
    BY <2>2, <2>3, <2>4 DEF AddsOn
<1> QED
  BY <1>4, <1>5

\* Using a keycode moves its item to the front, if it is in use.
LEMMA UseCarries ==
  ASSUME NEW m, NEW a \in Seq(Item), NEW U, IsOrder(U), InList(m, a, U), NEW key \in Keys
  PROVE  Carries(m, a, U, m, vncOnKeyUsed(a, key), Touch(U, {key} \cap InUse(U)))
<1> DEFINE b == vncOnKeyUsed(a, key)
           ks == {key} \cap InUse(U)
<1>0. Pair(key, key, U) <=> key \in InUse(U)
  BY InUseIs
<1>1. CASE ~Pair(key, key, U)
  <2>1. ks = {}
    BY <1>0, <1>1
  <2>2. Touch(U, {}) = U
    BY TouchNone
  <2> HIDE DEF ks
  <2>3. Carries(m, a, U, m, b, U)
    <3>1. CASE b = a
      <4>1. Carries(m, a, U, m, a, U)
        BY CarriesSame
      <4> QED
        BY <3>1, <4>1
    <3>2. CASE \E x \in 1..Len(a) : a[x].key = key /\ MovesTo(a, b, x)
      <4>1. PICK x \in 1..Len(a) : a[x].key = key /\ MovesTo(a, b, x)
        BY <3>2
      <4> HIDE DEF b
      <4> QED
        BY <1>1, <4>1, MoveCarries
    <3> QED
      BY <3>1, <3>2, UsedIs
  <2> QED
    BY <2>1, <2>2, <2>3 DEF ks
<1>2. CASE Pair(key, key, U)
  <2>1. ks = {key}
    BY <1>0, <1>2
  <2> DEFINE V == Touch(U, {key})
  <2>2. IsOrder(V) /\ \A x, y \in Keys : Pair(x, y, V) <=> TouchedPair(x, y, U, key)
    BY TouchOne
  <2> HIDE DEF ks, V
  <2>3. Carries(m, a, U, m, b, V)
    <3>1. CASE b = a /\ \A i \in 1..Len(a) : a[i].key # key
      <4>1. ~Ordered(m, a, U)
        BY <1>2, <3>1 DEF Ordered, Listed
      <4>2. \A k \in Keys : Pair(k, k, U) => Pair(k, k, V)
        BY <2>2 DEF TouchedPair
      <4>3. InList(m, a, V)
        BY <4>2, ItemKey DEF InList
      <4>4. FreeUsed(m, U) => FreeUsed(m, V)
        BY <4>2 DEF FreeUsed, Free
      <4>5. Carries(m, a, U, m, a, V)
        BY <2>2, <4>1, <4>3, <4>4 DEF Carries
      <4> QED
        BY <3>1, <4>5
    <3>2. CASE \E x \in 1..Len(a) : a[x].key = key /\ MovesTo(a, b, x)
      <4>1. PICK x \in 1..Len(a) : a[x].key = key /\ MovesTo(a, b, x)
        BY <3>2
      <4> HIDE DEF b
      <4>2. \A u, v \in Keys : Pair(u, v, V) <=> TouchedPair(u, v, U, a[x].key)
        BY <2>2, <4>1
      <4> QED
        BY <1>2, <2>2, <4>1, <4>2, MoveCarries
    <3> QED
      BY <3>1, <3>2, UsedIs
  <2> QED
    BY <2>1, <2>3 DEF ks, V
<1> QED
  BY <1>1, <1>2

-----------------------------------------------------------------------------
(* The list stays in order of use as long as no client loads a map. *)

UsedInv ==
  /\ IsOrder(used) /\ InList(map, addedKeysyms, used)
  /\ reloads = 0 => Ordered(map, addedKeysyms, used)
  /\ reloads = 0 /\ taken = 0 => FreeUsed(map, used)
  /\ reloads \in Nat /\ taken \in Nat

LEMMA SentList ==
  ASSUME NEW c, NEW kb, NEW st, NEW p, p = SentFor(c, kb, st)
  PROVE  p.added = IF p.ok THEN vncOnKeyUsed(c.added, p.key) ELSE c.added
<1>1. PICK shift, l3, faked : p = Sent(c, kb, shift, l3, faked)
  BY Zenon DEF SentFor, SentWith
<1> DEFINE ok == c.hit.key # 0 /\ shift.ok /\ l3.ok
<1>2. p.ok = ok /\ p.key = c.hit.key /\ p.added = IF ok THEN vncOnKeyUsed(c.added, c.hit.key) ELSE c.added
  BY <1>1 DEF Sent
<1> QED
  BY <1>2

LEMMA UsedPress ==
  ASSUME OrdinaryLayout, SparesGiveCharacters, Remembered, HeldInv, UsedInv, NEW sym \in Typed, PressKeysym(sym)
  PROVE  UsedInv' /\ OnlyOldest(map, addedKeysyms, used, map')
<1>1. PICK D, l, g, st, c, p : IsPress(sym, D, l, g, st, c, p)
  BY PressIs
<1>2. PICK m, a, U : m = map /\ a = addedKeysyms /\ U = used
  OBVIOUS
<1>3. OKMap(m) /\ a \in Seq(Item) /\ IsOrder(U) /\ InList(m, a, U) /\ st \in States /\ c = Choice(m, a, sym, st)
  BY <1>1, <1>2 DEF HeldInv, UsedInv, IsPress
<1>4. PICK changed : changed = {k \in Keys : m[k] # c.map[k]}
  OBVIOUS
<1> DEFINE V == Touch(U, changed)
           W == IF p.ok THEN Touch(V, {p.key} \cap InUse(V)) ELSE V
<1>5. Carries(m, a, U, c.map, c.added, V) /\ OnlyOldest(m, a, U, c.map)
  BY <1>3, <1>4, ChoiceCarries
<1>6. p.map = c.map /\ map' = c.map /\ addedKeysyms' = p.added /\ c.added \in Seq(Item) /\ (p.ok => p.key \in Keys)
  BY <1>1 DEF IsPress, IsSent, IsChoice
<1>7. used' = W
  <2>1. used' = LET ch == Touch(used, {k \in Keys : map[k] # p.map[k]})
                IN  IF p.ok THEN Touch(ch, {p.key} \cap InUse(ch)) ELSE ch
    BY <1>1 DEF IsPress
  <2> QED
    BY <1>2, <1>4, <1>6, <2>1, Zenon
<1>8. p.added = IF p.ok THEN vncOnKeyUsed(c.added, p.key) ELSE c.added
  <2>1. PICK kb : p = SentFor(c, kb, st)
    BY <1>1 DEF IsPress
  <2> QED
    BY <2>1, SentList
<1> HIDE DEF V
<1>9. IsOrder(V) /\ InList(c.map, c.added, V)
  BY <1>5 DEF Carries
<1>10. Carries(m, a, U, c.map, p.added, W)
  <2>1. CASE p.ok
    <3>1. PICK n, b, key : n = c.map /\ b = c.added /\ key = p.key
      OBVIOUS
    <3>2. Carries(n, b, V, n, vncOnKeyUsed(b, key), Touch(V, {key} \cap InUse(V)))
      BY <1>6, <1>9, <2>1, <3>1, UseCarries
    <3>3. Carries(c.map, c.added, V, c.map, p.added, W)
      BY <1>8, <2>1, <3>1, <3>2, Zenon
    <3> HIDE DEF W
    <3> QED
      BY <1>5, <3>3, CarriesTwice
  <2>2. CASE ~p.ok
    BY <1>5, <1>8, <2>2
  <2> QED
    BY <2>1, <2>2
<1> HIDE DEF W
<1>11. Carries(map, addedKeysyms, used, map', addedKeysyms', used')
  BY <1>2, <1>6, <1>7, <1>10, Zenon
<1>12. reloads' = reloads /\ taken' = taken
  BY DEF PressKeysym
<1>13. OnlyOldest(map, addedKeysyms, used, map')
  BY <1>2, <1>5, <1>6, Zenon
<1>14. UsedInv'
  BY <1>11, <1>12 DEF UsedInv, Carries
<1> QED
  BY <1>13, <1>14

LEMMA FreshMap ==
  ASSUME NEW a \in Seq(Item)
  PROVE  InList(BaseMap, a, {}) /\ FreeUsed(BaseMap, {}) /\ Ordered(BaseMap, <<>>, {})
<1>1. \A i \in 1..Len(a) : ~Unmodified(BaseMap, a[i])
  BY ItemKey DEF Unmodified, Free
<1>2. \A i \in 1..Len(<<>>) : FALSE
  OBVIOUS
<1>3. Ordered(BaseMap, <<>>, {})
  BY <1>2, EmptyOrder DEF Ordered, Distinct, Meaningful, ByUse, Listed
<1> QED
  BY <1>1, <1>3 DEF InList, FreeUsed, Free

LEMMA UsedInit ==
  ASSUME Init
  PROVE  UsedInv
<1>1. map = BaseMap /\ addedKeysyms = <<>> /\ used = {} /\ reloads = 0 /\ taken = 0
  BY DEF Init
<1>2. <<>> \in Seq(Item)
  OBVIOUS
<1>3. InList(BaseMap, <<>>, {}) /\ FreeUsed(BaseMap, {}) /\ Ordered(BaseMap, <<>>, {}) /\ IsOrder({})
  BY <1>2, FreshMap, EmptyOrder
<1> QED
  BY <1>1, <1>3 DEF UsedInv

LEMMA UsedLoad ==
  ASSUME HeldInv, UsedInv, ClientLoadsMap
  PROVE  UsedInv'
<1>1. map' = BaseMap /\ addedKeysyms' = addedKeysyms /\ used' = {} /\ reloads' = reloads + 1 /\ taken' = taken
  BY DEF ClientLoadsMap
<1>2. PICK a : a = addedKeysyms /\ a \in Seq(Item)
  BY DEF HeldInv
<1>3. InList(BaseMap, a, {}) /\ IsOrder({})
  BY <1>2, FreshMap, EmptyOrder
<1>4. reloads' \in Nat /\ reloads' # 0 /\ taken' \in Nat
  BY <1>1 DEF UsedInv
<1>5. (IsOrder(used) /\ InList(map, addedKeysyms, used))'
  BY <1>1, <1>2, <1>3
<1> QED
  BY <1>4, <1>5 DEF UsedInv

\* The keysym of a client is none of those added, so that its keycode is no
\* longer usable.
LEMMA ClientCarries ==
  ASSUME SparesGiveCharacters, NEW m, OKMap(m), NEW a \in Seq(Item), NEW U, IsOrder(U), InList(m, a, U),
         NEW K \in Free, NEW n, n[K].groups = AddedKey("client").groups, \A k \in Keys \ {K} : n[k] = m[k]
  PROVE  /\ IsOrder(Without(U, {K})) /\ InList(n, a, Without(U, {K}))
         /\ Ordered(m, a, U) => Ordered(n, a, Without(U, {K}))
<1> DEFINE V == Without(U, {K})
<1>0. K \in Keys
  BY DEF Free
<1>1. IsOrder(V) /\ \A x, y \in Keys : Pair(x, y, V) <=> Pair(x, y, U) /\ x # K /\ y # K
  BY <1>0, WithoutOne
<1> HIDE DEF V
<1>2. n[K].groups # <<>> /\ n[K].groups[1].syms[1] = Lower["client"]
  <2> DEFINE G == [type |-> "ALPHABETIC", syms |-> <<Lower["client"], Upper["client"]>>, acts |-> <<NoAction, NoAction>>]
  <2>1. n[K].groups = <<G>>
    BY DEF AddedKey
  <2>2. G.syms[1] = Lower["client"]
    OBVIOUS
  <2> HIDE DEF G
  <2>3. <<G>> # <<>> /\ <<G>>[1] = G
    OBVIOUS
  <2> QED
    BY <2>1, <2>2, <2>3, Zenon
<1>3. \A i \in 1..Len(a) : a[i].key \in Keys /\ a[i].sym # Lower["client"]
  <2> SUFFICES ASSUME NEW i \in 1..Len(a) PROVE a[i].key \in Keys /\ a[i].sym # Lower["client"]
    OBVIOUS
  <2>1. a[i] \in Item /\ a[i].key \in Keys
    BY ItemKey
  <2>2. PICK s \in Typed : a[i].sym = Lower[s]
    BY <2>1 DEF Item
  <2> QED
    BY <2>1, <2>2 DEF SparesGiveCharacters
<1>4. \A i \in 1..Len(a) : Unmodified(n, a[i]) => a[i].key # K /\ Unmodified(m, a[i])
  <2> SUFFICES ASSUME NEW i \in 1..Len(a), Unmodified(n, a[i]) PROVE a[i].key # K /\ Unmodified(m, a[i])
    OBVIOUS
  <2>1. n[a[i].key].groups[1].syms[1] = a[i].sym
    BY DEF Unmodified
  <2>2. a[i].key # K
    BY <1>2, <1>3, <2>1
  <2>3. n[a[i].key] = m[a[i].key]
    BY <1>3, <2>2
  <2> QED
    BY <2>2, <2>3, SameUnmodified
<1>5. \A i \in 1..Len(a) : a[i].key # K /\ Unmodified(m, a[i]) => Unmodified(n, a[i])
  <2> SUFFICES ASSUME NEW i \in 1..Len(a), a[i].key # K, Unmodified(m, a[i]) PROVE Unmodified(n, a[i])
    OBVIOUS
  <2>1. n[a[i].key] = m[a[i].key]
    BY <1>3
  <2> QED
    BY <2>1, SameUnmodified
<1>6. InList(n, a, V)
  BY <1>1, <1>3, <1>4 DEF InList
<1>7. ASSUME Ordered(m, a, U) PROVE Ordered(n, a, V)
  <2>1. Distinct(a) /\ Meaningful(m, a) /\ ByUse(m, a, U) /\ Listed(m, a, U)
    BY <1>7 DEF Ordered
  <2>2. Meaningful(n, a)
    <3> SUFFICES ASSUME NEW i \in 1..Len(a) PROVE n[a[i].key].groups # <<>>
      BY DEF Meaningful
    <3>1. CASE a[i].key = K
      BY <1>2, <3>1
    <3>2. CASE a[i].key # K
      BY <1>3, <2>1, <3>2 DEF Meaningful
    <3> QED
      BY <3>1, <3>2
  <2>3. ByUse(n, a, V)
    BY <1>1, <1>3, <1>4, <2>1 DEF ByUse
  <2>4. Listed(n, a, V)
    <3> SUFFICES ASSUME NEW k \in Keys, Pair(k, k, V) PROVE \E i \in 1..Len(a) : a[i].key = k /\ Unmodified(n, a[i])
      BY DEF Listed
    <3>1. Pair(k, k, U) /\ k # K
      BY <1>1
    <3>2. PICK i \in 1..Len(a) : a[i].key = k /\ Unmodified(m, a[i])
      BY <2>1, <3>1 DEF Listed
    <3> QED
      BY <1>5, <3>1, <3>2
  <2> QED
    BY <2>1, <2>2, <2>3, <2>4 DEF Ordered
<1> QED
  BY <1>1, <1>6, <1>7 DEF V

LEMMA UsedMap ==
  ASSUME SparesGiveCharacters, HeldInv, UsedInv, NEW k \in Keys, ClientMapsKey(k)
  PROVE  UsedInv'
<1>1. /\ map' = [map EXCEPT ![k] = [AddedKey("client") EXCEPT !.named = map[k].named]]
      /\ addedKeysyms' = addedKeysyms /\ used' = Without(used, {k}) /\ reloads' = reloads /\ taken' = taken + 1
      /\ k \in Free
  BY DEF ClientMapsKey, Free
<1>2. PICK m, a, U, n : m = map /\ a = addedKeysyms /\ U = used /\ n = map'
  OBVIOUS
<1>3. OKMap(m) /\ a \in Seq(Item) /\ IsOrder(U) /\ InList(m, a, U)
  BY <1>2 DEF HeldInv, UsedInv
<1>4. n[k].groups = AddedKey("client").groups /\ \A x \in Keys \ {k} : n[x] = m[x]
  <2>1. n = [m EXCEPT ![k] = [AddedKey("client") EXCEPT !.named = m[k].named]] /\ DOMAIN m = Keys
    BY <1>1, <1>2, <1>3 DEF OKMap
  <2>2. n[k] = [AddedKey("client") EXCEPT !.named = m[k].named]
    BY <2>1
  <2> QED
    BY <2>1, <2>2 DEF AddedKey
<1>5. /\ IsOrder(Without(U, {k})) /\ InList(n, a, Without(U, {k}))
      /\ Ordered(m, a, U) => Ordered(n, a, Without(U, {k}))
  BY <1>1, <1>3, <1>4, ClientCarries
<1>6. taken' \in Nat /\ taken' # 0 /\ reloads' \in Nat
  BY <1>1 DEF UsedInv
<1>7. IsOrder(used') /\ InList(map', addedKeysyms', used')
      /\ (Ordered(map, addedKeysyms, used) => Ordered(map', addedKeysyms', used'))
  BY <1>1, <1>2, <1>5, Zenon
<1> QED
  BY <1>1, <1>6, <1>7 DEF UsedInv

LEMMA UsedNext ==
  ASSUME OrdinaryLayout, SparesGiveCharacters, Remembered, HeldInv, UsedInv, [Next]_vars
  PROVE  UsedInv'
<1>1. ASSUME NEW sym \in Typed, PressKeysym(sym) PROVE UsedInv'
  BY <1>1, UsedPress
<1>2. CASE ClientLoadsMap
  BY <1>2, UsedLoad
<1>3. ASSUME NEW k \in Keys, ClientMapsKey(k) PROVE UsedInv'
  BY <1>3, UsedMap
<1>4. CASE UNCHANGED <<map, addedKeysyms, used, reloads, taken>>
  BY <1>4 DEF UsedInv
<1>5. ASSUME NEW k \in PhysKeys, PhysicalKey(k) PROVE UNCHANGED <<map, addedKeysyms, used, reloads, taken>>
  BY <1>5 DEF PhysicalKey
<1> QED
  BY <1>1, <1>2, <1>3, <1>4, <1>5 DEF Next, ReleaseKeysym, ProcessInputEvents, vars

\* Spare keycodes are given a new meaning in the order in which they were last
\* used, and never one that a client has mapped (lorieAddKeysym,
\* getReusableKeycode, vncOnKeyUsed).
THEOREM OldestIsReused == OrdinaryLayout /\ SparesGiveCharacters => (Spec => ReusesOldest)
<1> SUFFICES ASSUME OrdinaryLayout, SparesGiveCharacters PROVE Spec => ReusesOldest
  OBVIOUS
<1> DEFINE Inv == Remembered /\ HeldInv /\ UsedInv
           Oldest == \A k \in Keys :
             /\ typing = NoSymbol /\ typing' # NoSymbol
             /\ map[k].groups # <<>> /\ map'[k] # map[k]
             => /\ k \in InUse(used)
                /\ reloads = 0 => \A j \in InUse(used) : <<j, k>> \in used
<1>1. Init => Inv
  <2>1. Init => Remembered
    BY DEF Init, Remembered
  <2> QED
    BY <2>1, HeldInit, UsedInit DEF OrdinaryLayout
<1>2. Inv /\ [Next]_vars => Inv'
  BY NextRemembered, HeldNext, UsedNext
<1>3. Inv /\ [Next]_vars => Oldest
  <2> SUFFICES ASSUME Inv, [Next]_vars, NEW k \in Keys, typing = NoSymbol, typing' # NoSymbol,
                      map[k].groups # <<>>, map'[k] # map[k]
               PROVE  k \in InUse(used) /\ (reloads = 0 => \A j \in InUse(used) : <<j, k>> \in used)
    BY Zenon
  <2>1. PICK sym \in Typed : PressKeysym(sym)
    BY DEF Next, ReleaseKeysym, PhysicalKey, ProcessInputEvents, ClientLoadsMap, ClientMapsKey, vars
  <2>2. OnlyOldest(map, addedKeysyms, used, map') /\ IsOrder(used)
    BY <2>1, UsedPress DEF UsedInv
  <2>3. Pair(k, k, used) /\ (reloads = 0 => \A j \in Keys : Pair(j, j, used) => Pair(j, k, used))
    BY <2>2 DEF OnlyOldest, UsedInv
  <2>4. \A j : j \in InUse(used) <=> j \in Keys /\ Pair(j, j, used)
    <3>1. PICK U : U = used /\ IsOrder(U)
      BY <2>2
    <3>2. \A j : j \in InUse(U) <=> j \in Keys /\ Pair(j, j, U)
      BY <3>1, InUseIs
    <3> QED
      BY <3>1, <3>2
  <2> QED
    BY <2>3, <2>4 DEF Pair
<1> HIDE DEF Inv
<1> QED
  BY <1>1, <1>2, <1>3, PTL DEF Spec, ReusesOldest

-----------------------------------------------------------------------------
(* The fake modifiers make the state that was asked for. *)

\* The keys of level three set nothing else, and Shift is not level three.
Alone(mask) == "Shift" \notin mask /\ \A j \in Keys : Sets(j) \cap mask # {} => Sets(j) \subseteq mask

LEMMA LevelThreeAlone ==
  ASSUME OrdinaryLayout, ShiftsAreAlone, NEW m, OKMap(m), NEW st \in States
  PROVE  Alone(lorieGetLevelThreeMask(m, st)) /\ lorieGetLevelThreeMask(m, st) \cap Lockable = {}
<1> DEFINE k == LevelThreeKey(m, st)
           mask == lorieGetLevelThreeMask(m, st)
<1>1. \/ k = 0 /\ mask = {}
      \/ k \in Keys /\ k # 0 /\ mask = Sets(k) /\ mask \cap Lockable = {}
  BY LevelThreeMask DEF OrdinaryLayout
<1>2. k = 0 \/ \E s \in LevelThree : k = KeyFor(m, s, st)
  BY DEF LevelThreeKey, FirstOf, LevelThree
<1> HIDE DEF k, mask
<1>3. CASE k = 0
  BY <1>1, <1>3, KeymapAssumption DEF Alone, mask
<1>4. CASE k # 0
  <2>1. k \in Keys /\ Symbol(m[k], st) \in LevelThree
    BY <1>2, <1>4, KeyForIsOne
  <2>2. m[k] = BaseMap[k]
    <3>1. ~IsSpareKey(m[k])
      BY <2>1, SpareSymbol DEF OrdinaryLayout
    <3> QED
      BY <2>1, <3>1 DEF OKMap
  <2>3. "Shift" \notin Sets(k) /\ \A j \in Keys : Sets(j) \cap Sets(k) # {} => Sets(j) \subseteq Sets(k)
    BY <2>1, <2>2 DEF ShiftsAreAlone
  <2> QED
    BY <1>1, <1>4, <2>3 DEF Alone, mask
<1> QED
  BY <1>3, <1>4

\* A fake Shift never fails.
LEMMA ShiftIsOk ==
  ASSUME OrdinaryLayout, ShiftsAreAlone, NEW m, OKMap(m),
         NEW D \in SUBSET Keys, NEW l \in SUBSET Lockable, NEW g \in {0, 1}, NEW st, NEW new,
         st = lorieGetKeyboardState(Kb(D, l, g)), Cardinality(D) <= 8
  PROVE  FakeShift(m, Kb(D, l, g), st, new).ok
<1> DEFINE f == FakeShift(m, Kb(D, l, g), st, new)
<1>0. ActionsAreFixed /\ CharactersAreNoModifiers
  BY DEF OrdinaryLayout
<1>1. st \in States /\ st.mods = ModsOf(D, l)
  <2>1. st = [mods |-> ModsOf(D, l), group |-> g] /\ st \in States
    BY <1>0, KbState
  <2> QED
    BY <2>1
<1>2. CASE "Shift" \in new.mods \ st.mods
  <2> DEFINE ks == {k \in Keys : "Shift" \in SetsMods(m[k], st)}
             key == FirstKey(ks)
  <2>1. f = FakePress(key)
    BY <1>2 DEF FakeShift, loriePressShift
  <2>2. ks # {} /\ ks \in SUBSET Keys
    BY <1>0, <1>1, ActsAsInBase DEF ShiftsAreAlone
  <2> HIDE DEF ks
  <2>3. key # 0
    BY <2>2, FirstKeyIsOne
  <2> QED
    BY <2>1, <2>3 DEF FakePress
<1>3. CASE "Shift" \notin new.mods \ st.mods /\ "Shift" \in st.mods \ new.mods
  <2> DEFINE ks == HoldingKeys(m, Kb(D, l, g), {"Shift"})
             hs == HoldersOf(D, {"Shift"})
  <2>1. f = FakeRelease(ks)
    BY <1>3 DEF FakeShift, lorieReleaseShift
  <2>2. hs \in SUBSET D /\ ks = IF Cardinality(hs) > 8 THEN {} ELSE hs
    <3>1. IsHolding(ks, D, {"Shift"})
      BY <1>0, HoldingKeysAre
    <3> HIDE DEF ks
    <3> QED
      BY <3>1 DEF IsHolding
  <2>3. hs # {}
    <3>1. "Shift" \notin l
      BY DEF Lockable, ShiftsAreAlone
    <3>2. PICK j \in D : "Shift" \in Sets(j)
      BY <1>1, <1>3, <3>1 DEF ModsOf
    <3> QED
      BY <3>2 DEF HoldersOf
  <2> HIDE DEF hs, ks
  <2>4. Cardinality(hs) \in Nat /\ Cardinality(hs) <= 8
    <3>1. IsFiniteSet(D)
      BY KeymapAssumption, FS_Subset
    <3>2. Cardinality(hs) <= Cardinality(D) /\ Cardinality(D) \in Nat /\ Cardinality(hs) \in Nat
      BY <2>2, <3>1, FS_Subset, FS_CardinalityType
    <3> QED
      BY <3>2
  <2>5. ks # {}
    BY <2>2, <2>3, <2>4
  <2> QED
    BY <2>1, <2>5 DEF FakeRelease
<1>4. CASE "Shift" \notin new.mods \ st.mods /\ "Shift" \notin st.mods \ new.mods
  BY <1>4 DEF FakeShift, NoFake
<1> QED
  BY <1>2, <1>3, <1>4

\* The modifiers wanted: those in effect with level three as they are, on or off,
\* whatever Shift is.
Wanted(mask, st, new) ==
  \/ new.mods \ {"Shift"} = st.mods \ {"Shift"}
  \/ st.mods \cap mask = {} /\ new.mods \ {"Shift"} = (st.mods \cup mask) \ {"Shift"}
  \/ st.mods \cap mask # {} /\ new.mods \ {"Shift"} = (st.mods \ mask) \ {"Shift"}

LEMMA TriedIsWanted ==
  ASSUME NEW m, NEW st \in States, "Shift" \notin lorieGetLevelThreeMask(m, st), NEW s \in Tried(m, st)
  PROVE  s \in States /\ s.group = st.group /\ Wanted(lorieGetLevelThreeMask(m, st), st, s)
<1> DEFINE l3 == lorieGetLevelThreeMask(m, st)
           shift == Toggle(st, {"Shift"})
           states == StatesTried(st, l3)
<1>1. s \in States /\ \E i \in DOMAIN states : s = states[i]
  BY DEF Tried
<1> HIDE DEF l3
<1>2. s \in {st, shift, Toggle(st, l3), Toggle(shift, l3)}
  <2>1. states = IF l3 = {} THEN <<st, shift>> ELSE <<st, shift, Toggle(st, l3), Toggle(shift, l3)>>
    BY DEF StatesTried
  <2> HIDE DEF states, shift
  <2> QED
    BY <1>1, <2>1
<1>3. \A x, mask : Toggle(x, mask) = [x EXCEPT !.mods = IF @ \cap mask = {} THEN @ \cup mask ELSE @ \ mask]
  BY DEF Toggle
<1>4. \A x \in [mods : SUBSET Mods, group : {0, 1}] : \A mask :
         /\ Toggle(x, mask).mods = IF x.mods \cap mask = {} THEN x.mods \cup mask ELSE x.mods \ mask
         /\ Toggle(x, mask).group = x.group
  BY <1>3
<1>5. shift \in States /\ shift.group = st.group
      /\ shift.mods = IF st.mods \cap {"Shift"} = {} THEN st.mods \cup {"Shift"} ELSE st.mods \ {"Shift"}
  BY <1>4, ToggleState DEF States, Mods
<1> HIDE DEF shift
<1>6. shift.mods \ {"Shift"} = st.mods \ {"Shift"}
  BY <1>5
<1>7. "Shift" \notin l3
  BY DEF l3
<1>8. shift.mods \cap l3 = st.mods \cap l3
  BY <1>6, <1>7
<1>9. CASE s = st
  BY <1>1, <1>9 DEF Wanted, l3
<1>10. CASE s = shift
  BY <1>1, <1>5, <1>6, <1>10 DEF Wanted, l3
<1>11. CASE s = Toggle(st, l3)
  <2>1. s.group = st.group /\ s.mods = IF st.mods \cap l3 = {} THEN st.mods \cup l3 ELSE st.mods \ l3
    BY <1>4, <1>11 DEF States
  <2> QED
    BY <1>1, <2>1 DEF Wanted, l3
<1>12. CASE s = Toggle(shift, l3)
  <2>1. s.group = st.group /\ s.mods = IF shift.mods \cap l3 = {} THEN shift.mods \cup l3 ELSE shift.mods \ l3
    BY <1>4, <1>5, <1>12 DEF States
  <2>2. s.mods \ {"Shift"} = IF st.mods \cap l3 = {} THEN (st.mods \cup l3) \ {"Shift"} ELSE (st.mods \ l3) \ {"Shift"}
    BY <1>6, <1>8, <2>1
  <2> QED
    BY <1>1, <2>1, <2>2 DEF Wanted, l3
<1> QED
  BY <1>2, <1>9, <1>10, <1>11, <1>12

LEMMA InModsOf ==
  ASSUME NEW E, NEW l, NEW x
  PROVE  x \in ModsOf(E, l) <=> x \in l \/ \E k \in E : x \in Sets(k)
  BY DEF ModsOf

\* Pressing and releasing those keys gives the modifiers wanted.
LEMMA TurnsMakeWanted ==
  ASSUME ShiftsAreAlone, NEW D \in SUBSET Keys, NEW l, "Shift" \notin l, NEW mask, Alone(mask), mask \cap l = {},
         NEW st, st.mods = ModsOf(D, l), NEW new, Wanted(mask, st, new),
         NEW P1, NEW R1, ShiftTurn(st, new, D, P1, R1),
         NEW P2, NEW R2, LevelTurn(mask, st, new, D, P2, R2)
  PROVE  ModsOf((((D \ R1) \cup P1) \ R2) \cup P2, l) = new.mods
<1> DEFINE E == (((D \ R1) \cup P1) \ R2) \cup P2
<1>1. \A k \in Keys : "Shift" \in Sets(k) => Sets(k) = {"Shift"}
  BY DEF ShiftsAreAlone
<1>2. /\ P1 \subseteq Keys /\ R1 \subseteq D /\ \A k \in P1 \cup R1 : Sets(k) = {"Shift"}
      /\ P1 # {} => R1 = {} /\ "Shift" \in new.mods
      /\ R1 # {} => P1 = {} /\ R1 = HoldersOf(D, {"Shift"}) /\ "Shift" \notin new.mods
  BY <1>1 DEF ShiftTurn, HoldersOf
<1>3. /\ P2 \subseteq Keys /\ R2 \subseteq D /\ \A k \in P2 \cup R2 : "Shift" \notin Sets(k)
  <2>1. \A k \in Keys : Sets(k) \cap mask # {} => "Shift" \notin Sets(k)
    BY DEF Alone
  <2> QED
    BY <2>1 DEF LevelTurn, HoldersOf, Alone
<1>4. "Shift" \in ModsOf(E, l) <=> "Shift" \in new.mods
  <2>1. "Shift" \in ModsOf(E, l) <=> \E k \in (D \ R1) \cup P1 : "Shift" \in Sets(k)
    BY <1>3, InModsOf
  <2>2. "Shift" \in st.mods <=> \E k \in D : "Shift" \in Sets(k)
    BY InModsOf
  <2>3. CASE "Shift" \in new.mods \ st.mods /\ R1 = {} /\ \E k \in Keys : P1 = {k} /\ "Shift" \in Sets(k)
    BY <2>1, <2>3
  <2>4. CASE "Shift" \in st.mods \ new.mods /\ P1 = {} /\ R1 = HoldersOf(D, {"Shift"})
    BY <2>1, <2>4 DEF HoldersOf
  <2>5. CASE P1 = {} /\ R1 = {} /\ ("Shift" \in new.mods <=> "Shift" \in st.mods)
    BY <2>1, <2>2, <2>5
  <2> QED
    BY <2>3, <2>4, <2>5 DEF ShiftTurn
<1>5. ASSUME NEW x, x # "Shift" PROVE x \in ModsOf(E, l) <=> x \in new.mods
  <2>1. x \in ModsOf(E, l) <=> x \in l \/ \E k \in (D \ R2) \cup P2 : x \in Sets(k)
    <3>1. \A k \in P1 \cup R1 : x \notin Sets(k)
      BY <1>2, <1>5
    <3>2. x \in ModsOf(E, l) <=> x \in l \/ \E k \in E : x \in Sets(k)
      BY InModsOf
    <3> QED
      BY <3>1, <3>2
  <2>2. x \in st.mods <=> x \in l \/ \E k \in D : x \in Sets(k)
    BY InModsOf
  <2>3. x \in new.mods <=> x \in new.mods \ {"Shift"}
    BY <1>5
  <2>4. CASE /\ new.mods \ {"Shift"} # st.mods \ {"Shift"} /\ st.mods \cap mask = {} /\ new.mods \cap mask # {}
             /\ R2 = {} /\ \E k \in Keys : P2 = {k} /\ Sets(k) = mask
    <3>1. new.mods \ {"Shift"} = (st.mods \cup mask) \ {"Shift"}
      BY <2>4 DEF Wanted
    <3> QED
      BY <1>5, <2>1, <2>2, <2>3, <2>4, <3>1
  <2>5. CASE /\ new.mods \ {"Shift"} # st.mods \ {"Shift"} /\ st.mods \cap mask # {} /\ new.mods \cap mask = {}
             /\ P2 = {} /\ R2 = HoldersOf(D, mask)
    <3>1. new.mods \ {"Shift"} = (st.mods \ mask) \ {"Shift"}
      BY <2>5 DEF Wanted
    <3>2. x \in new.mods <=> x \in st.mods /\ x \notin mask
      BY <1>5, <2>3, <3>1
    <3>3. x \in ModsOf(E, l) <=> x \in l \/ \E k \in D : x \in Sets(k) /\ Sets(k) \cap mask = {}
      BY <2>1, <2>5 DEF HoldersOf
    <3>4. \A k \in D : x \in Sets(k) /\ x \notin mask => Sets(k) \cap mask = {}
      BY DEF Alone
    <3> QED
      BY <2>2, <3>2, <3>3, <3>4
  <2>6. CASE /\ P2 = {} /\ R2 = {}
             /\ \/ new.mods \ {"Shift"} = st.mods \ {"Shift"}
                \/ st.mods \cap mask = {} <=> new.mods \cap mask = {}
    <3>1. new.mods \ {"Shift"} = st.mods \ {"Shift"}
      <4>1. CASE st.mods \cap mask = {} /\ new.mods \ {"Shift"} = (st.mods \cup mask) \ {"Shift"}
        <5>1. mask = {} \/ new.mods \cap mask # {}
          BY <4>1 DEF Alone
        <5> QED
          BY <2>6, <4>1, <5>1
      <4>2. CASE st.mods \cap mask # {} /\ new.mods \ {"Shift"} = (st.mods \ mask) \ {"Shift"}
        <5>1. new.mods \cap mask = {}
          BY <4>2 DEF Alone
        <5> QED
          BY <2>6, <4>2, <5>1
      <4> QED
        BY <4>1, <4>2 DEF Wanted
    <3> QED
      BY <1>5, <2>1, <2>2, <2>3, <2>6, <3>1
  <2> QED
    BY <2>4, <2>5, <2>6 DEF LevelTurn
<1> HIDE DEF E
<1>6. \A x : x \in ModsOf(E, l) <=> x \in new.mods
  BY <1>4, <1>5
<1>7. ModsOf(E, l) = new.mods
  BY <1>6
<1> QED
  BY <1>7 DEF E

\* The state with the fake modifiers is the one the key was looked up in.
LEMMA FakedState ==
  ASSUME OrdinaryLayout, ShiftsAreAlone, NEW m, OKMap(m),
         NEW D \in SUBSET Keys, NEW l \in SUBSET Lockable, NEW g \in {0, 1}, Cardinality(D) <= 8,
         NEW st, st = lorieGetKeyboardState(Kb(D, l, g)), NEW new \in States, new.group = st.group,
         Wanted(lorieGetLevelThreeMask(m, st), st, new),
         NEW f1, f1 = FakeShift(m, Kb(D, l, g), st, new), NEW f2, f2 = FakeLevelThree(m, Kb(D, l, g), st, new)
  PROVE  lorieGetKeyboardState(mieqProcessInputEvents(m, Kb(D, l, g), f1.before \o f2.before)) = new
<1>0. ActionsAreFixed /\ CharactersAreNoModifiers /\ LevelThreeIsFixed
  BY DEF OrdinaryLayout
<1>1. st = [mods |-> ModsOf(D, l), group |-> g] /\ st \in States
  BY <1>0, KbState
<1>2. f1.ok
  BY ShiftIsOk
<1>3. PICK P1, R1 : FakeBy(f1, D, P1, R1) /\ ShiftTurn(st, new, D, P1, R1)
  BY <1>0, <1>2, ShiftIsFake
<1>4. PICK mask : mask = lorieGetLevelThreeMask(m, st)
  OBVIOUS
<1>5. PICK P2, R2 : FakeBy(f2, D, P2, R2) /\ LevelTurn(mask, st, new, D, P2, R2)
  BY <1>0, <1>4, LevelThreeIsFake
<1>6. Alone(mask) /\ mask \cap Lockable = {}
  BY <1>1, <1>4, LevelThreeAlone
<1>7. "Shift" \notin l /\ mask \cap l = {}
  BY <1>6 DEF Lockable, ShiftsAreAlone
<1> DEFINE E == (((D \ R1) \cup P1) \ R2) \cup P2
<1>8. ModsOf(E, l) = new.mods
  <2>1. st.mods = ModsOf(D, l) /\ Wanted(mask, st, new)
    BY <1>1, <1>4
  <2> QED
    BY <1>3, <1>5, <1>6, <1>7, <2>1, TurnsMakeWanted
<1>9. /\ P1 \in SUBSET SetKeys /\ R1 \in SUBSET SetKeys /\ f1.before \in Seq(Event) /\ Turns(f1.before, P1, R1)
      /\ P2 \in SUBSET SetKeys /\ R2 \in SUBSET SetKeys /\ f2.before \in Seq(Event) /\ Turns(f2.before, P2, R2)
  BY <1>3, <1>5 DEF FakeBy, IsFake
<1>10. mieqProcessInputEvents(m, Kb(D, l, g), f1.before \o f2.before) = Kb(E, l, g)
  <2>1. TurnsTwo(f1.before, f2.before, P1, R1, P2, R2, m, D, l, g)
    BY <1>9, TurnsTwice
  <2> QED
    BY <2>1 DEF TurnsTwo
<1>11. E \in SUBSET Keys
  BY <1>9 DEF SetKeys
<1> HIDE DEF E
<1>12. lorieGetKeyboardState(Kb(E, l, g)) = [mods |-> ModsOf(E, l), group |-> g]
  BY <1>0, <1>11, KbState
<1>13. new = [mods |-> new.mods, group |-> g]
  BY <1>1 DEF States
<1> QED
  BY <1>8, <1>10, <1>12, <1>13

\* The key chosen, the state it is pressed in, and what it gives there.
Gives(c, sym, st, r) ==
  /\ Found(c.map, SameMeaning(sym), st, r) /\ r.key = c.hit.key
  /\ \/ c.hit.state = r.state
     \/ sym = "Tab" /\ "Shift" \in st.mods /\ c.hit.state = [r.state EXCEPT !.mods = @ \cup {"Shift"}]

LEMMA ChoiceGives ==
  ASSUME NEW sym, NEW st, NEW c, IsChoice(c, sym, st), c.hit.key # 0
  PROVE  \E r : Gives(c, sym, st, r)
<1>1. PICK r : /\ Found(c.map, SameMeaning(sym), st, r)
               /\ c.hit = IF r.key = 0 THEN r ELSE KeepShiftTab(sym, st, r)
  BY DEF IsChoice
<1>2. r = [key |-> r.key, state |-> r.state]
  BY <1>1 DEF Found
<1>3. c.hit = r \/ (sym = "Tab" /\ "Shift" \in st.mods /\ c.hit = [r EXCEPT !.state.mods = @ \cup {"Shift"}])
  BY <1>1 DEF KeepShiftTab
<1>4. CASE c.hit = r
  <2>1. Gives(c, sym, st, r)
    BY <1>1, <1>4 DEF Gives
  <2> QED
    BY <2>1
<1>5. CASE sym = "Tab" /\ "Shift" \in st.mods /\ c.hit = [r EXCEPT !.state.mods = @ \cup {"Shift"}]
  <2>1. c.hit.key = r.key /\ c.hit.state = [r.state EXCEPT !.mods = @ \cup {"Shift"}]
    BY <1>2, <1>5
  <2>2. Gives(c, sym, st, r)
    BY <1>1, <1>5, <2>1 DEF Gives
  <2> QED
    BY <2>2
<1> QED
  BY <1>3, <1>4, <1>5

LEMMA ChoiceState ==
  ASSUME OrdinaryLayout, ShiftsAreAlone, NEW sym, NEW st \in States, NEW c, OKMap(c.map), c.hit.key # 0,
         NEW r, Gives(c, sym, st, r)
  PROVE  /\ r.state \in States /\ c.hit.state \in States /\ c.hit.state.group = st.group
         /\ Wanted(lorieGetLevelThreeMask(c.map, st), st, c.hit.state)
<1>1. r.state \in Tried(c.map, st)
  BY DEF Gives, Found
<1>2. PICK m, s, mask : m = c.map /\ s = r.state /\ mask = lorieGetLevelThreeMask(m, st)
  OBVIOUS
<1>3. "Shift" \notin mask
  BY <1>2, LevelThreeAlone DEF Alone
<1>4. s \in States /\ s.group = st.group /\ Wanted(mask, st, s)
  BY <1>1, <1>2, <1>3, TriedIsWanted
<1>5. CASE c.hit.state = s
  BY <1>2, <1>4, <1>5
<1>6. CASE c.hit.state = [s EXCEPT !.mods = @ \cup {"Shift"}]
  <2>1. c.hit.state = [mods |-> s.mods \cup {"Shift"}, group |-> s.group]
    BY <1>4, <1>6 DEF States
  <2>2. PICK t : t = c.hit.state
    OBVIOUS
  <2>3. t \in States /\ t.group = st.group /\ t.mods \ {"Shift"} = s.mods \ {"Shift"}
    BY <1>4, <2>1, <2>2 DEF States, Mods
  <2>4. Wanted(mask, st, t)
    BY <1>4, <2>3 DEF Wanted
  <2> QED
    BY <1>2, <1>4, <2>2, <2>3, <2>4
<1> QED
  BY <1>2, <1>5, <1>6 DEF Gives

\* Whatever the character came out as, it is something.
LEMMA SomethingSeen ==
  ASSUME OrdinaryLayout, SparesGiveCharacters, CharactersAreSeen, NEW sym \in Typed, NEW st \in States,
         NEW c, OKMap(c.map), c.hit.key # 0, NEW r, Gives(c, sym, st, r), r.state \in States,
         c.hit.state \in States
  PROVE  LET out == Symbol(c.map[c.hit.key], c.hit.state) IN
         /\ out # NoSymbol
         /\ out \in SameMeaning(sym) \/ (sym = "Tab" /\ "Shift" \in st.mods)
<1>1. r.key \in Keys /\ r.key = c.hit.key /\ Symbol(c.map[r.key], r.state) \in SameMeaning(sym)
  BY DEF Gives, Found
<1>2. PICK rec, s, t : rec = c.map[r.key] /\ s = r.state /\ t = c.hit.state
  OBVIOUS
<1>3. \A x \in SameMeaning(sym) : x # NoSymbol
  BY KeymapAssumption DEF SameMeaning, CharactersAreSeen
<1>4. CASE t = s
  <2>1. Symbol(rec, t) \in SameMeaning(sym)
    BY <1>1, <1>2, <1>4
  <2>2. Symbol(rec, t) # NoSymbol
    BY <1>3, <2>1
  <2> QED
    BY <1>1, <1>2, <2>1, <2>2, Zenon
<1>5. CASE sym = "Tab" /\ "Shift" \in st.mods /\ t = [s EXCEPT !.mods = @ \cup {"Shift"}]
  <2>1. Symbol(rec, t) # NoSymbol
    <3>1. CASE rec = BaseMap[r.key]
      <4>1. Symbol(rec, s) \in {"Tab"} \cup Alternatives("Tab")
        BY <1>1, <1>2, <1>5 DEF SameMeaning
      <4> QED
        BY <1>1, <1>2, <1>5, <3>1, <4>1 DEF CharactersAreSeen
    <3>2. CASE rec.groups = <<>>
      <4>1. Symbol(rec, s) = NoSymbol
        BY <3>2 DEF Symbol, WithLock, XkbTranslateKeyCode
      <4> QED
        BY <1>1, <1>2, <1>3, <4>1
    <3>3. ASSUME NEW k \in Spares, GivesAdded(rec, k) PROVE Symbol(rec, t) # NoSymbol
      <4>1. Symbol(rec, t) = Symbol(AddedKey(k), t)
        BY <3>3, NameIsNothing
      <4>2. Symbol(AddedKey(k), t) = IF Capital(t) THEN Upper[k] ELSE Lower[k]
        BY <1>2, AddedSymbol
      <4> QED
        BY <4>1, <4>2 DEF SparesGiveCharacters
    <3> QED
      BY <1>1, <1>2, <3>1, <3>2, <3>3 DEF OKMap, IsSpareKey
  <2> QED
    BY <1>1, <1>2, <1>5, <2>1, Zenon
<1> QED
  BY <1>2, <1>4, <1>5 DEF Gives

LEMMA ChosenHasKey ==
  ASSUME OrdinaryLayout, NEW m, OKMap(m), NEW a, NEW st \in States, NEW sym, NEW r,
         Found(m, SameMeaning(sym), st, r), r.key # 0
  PROVE  Chosen(m, a, sym, st, r).hit.key # 0
<1> DEFINE x == AvoidFakeShift(m, sym, st, r)
<1>1. Found(m, SameMeaning(sym), st, x) /\ x.key # 0
  BY AvoidIsFound DEF OrdinaryLayout
<1>2. Chosen(m, a, sym, st, r).hit = KeepShiftTab(sym, st, x)
  BY DEF Chosen
<1> HIDE DEF x
<1>3. x = [key |-> x.key, state |-> x.state]
  BY <1>1 DEF Found
<1>4. KeepShiftTab(sym, st, x).key = x.key
  BY <1>3 DEF KeepShiftTab
<1> QED
  BY <1>1, <1>2, <1>4

\* While every spare keycode that has a meaning is in use, one can be had.
LEMMA ChoiceHasKey ==
  ASSUME OrdinaryLayout, SparesGiveCharacters, CharactersAreSeen, NEW m, OKMap(m), NEW a \in Seq(Item),
         NEW U, Ordered(m, a, U), FreeUsed(m, U), NEW st \in States, NEW sym \in Typed
  PROVE  Choice(m, a, sym, st).hit.key # 0
<1> DEFINE r == FindKey(m, sym, st)
           add == lorieAddKeysym(m, a, sym)
<1>1. Found(m, SameMeaning(sym), st, r)
  BY FindKeyIsFound DEF OrdinaryLayout
<1>2. Choice(m, a, sym, st)
        = IF r.key # 0 THEN Chosen(m, a, sym, st, r)
          ELSE Chosen(add.map, add.added, sym, st, lorieKeysymToKeycode(add.map, sym, st))
  BY DEF Choice, KeyOrAdd, ChosenAfterAdding
<1> HIDE DEF r
<1>3. CASE r.key # 0
  BY <1>1, <1>2, <1>3, ChosenHasKey
<1>4. CASE r.key = 0
  <2>1. PICK n, b : n = add.map /\ b = add.added
    OBVIOUS
  <2>2. OKMap(n) /\ AddsOn(m, a, sym, n, b)
    BY <2>1, AddKeeps, AddIs
  <2>3. \E k \in Keys : GivesAdded(n[k], sym)
    <3>1. ~(Unused(m) = {} /\ \A i \in 1..Len(a) : ~Unmodified(m, a[i]))
      <4> SUFFICES ASSUME Unused(m) = {}, \A i \in 1..Len(a) : ~Unmodified(m, a[i]) PROVE FALSE
        OBVIOUS
      <4>1. PICK k : k \in Unused(BaseMap)
        BY DEF CharactersAreSeen
      <4>2. k \in Free /\ k \in Keys /\ m[k].groups # <<>>
        BY <4>1 DEF Unused, Free
      <4>3. Pair(k, k, U)
        BY <4>2 DEF FreeUsed
      <4> QED
        BY <4>2, <4>3 DEF Ordered, Listed
    <3>2. PICK K \in Free : Puts(m, n, K, sym)
      BY <2>2, <3>1 DEF AddsOn
    <3> QED
      BY <3>2 DEF Puts, GivesAdded, Free
  <2>4. PICK h : h = lorieKeysymToKeycode(n, sym, st)
    OBVIOUS
  <2>5. h.key # 0
    BY <2>2, <2>3, <2>4, AddedIsFound
  <2>6. Found(n, SameMeaning(sym), st, h)
    BY <2>2, <2>4, FindKeyIsFound DEF OrdinaryLayout
  <2>7. Chosen(n, b, sym, st, h).hit.key # 0
    BY <2>2, <2>5, <2>6, ChosenHasKey
  <2>8. Choice(m, a, sym, st) = Chosen(n, b, sym, st, h)
    BY <1>2, <1>4, <2>1, <2>4
  <2> QED
    BY <2>7, <2>8
<1> QED
  BY <1>3, <1>4

\* What a client sees of a character that was sent.
LEMMA SentGives ==
  ASSUME OrdinaryLayout, SparesGiveCharacters, ShiftsAreAlone, CharactersAreSeen,
         NEW D \in SUBSET Keys, NEW l \in SUBSET Lockable, NEW g \in {0, 1}, Cardinality(D) <= 8,
         NEW st \in States, st = lorieGetKeyboardState(Kb(D, l, g)), NEW sym \in Typed, NEW c, IsChoice(c, sym, st),
         NEW p, p = SentFor(c, Kb(D, l, g), st)
  PROVE  /\ p.ok <=> c.hit.key # 0
         /\ ~p.ok => p.out = NoSymbol
         /\ p.ok => p.out # NoSymbol /\ (p.out \in SameMeaning(sym) \/ (sym = "Tab" /\ "Shift" \in st.mods))
<1> DEFINE kb == Kb(D, l, g)
           f1 == FakeShift(c.map, kb, st, c.hit.state)
           f2 == FakeLevelThree(c.map, kb, st, c.hit.state)
           faked == mieqProcessInputEvents(c.map, kb, f1.before \o f2.before)
           ok == c.hit.key # 0 /\ f1.ok /\ f2.ok
<1>1. OKMap(c.map)
  BY DEF IsChoice
<1>2. f1.ok
  BY <1>1, ShiftIsOk
<1>3. f2.ok
  BY <1>1, LevelThreeIsFake DEF OrdinaryLayout
<1>4. p.ok = ok /\ p.out = IF ok THEN Symbol(c.map[c.hit.key], lorieGetKeyboardState(faked)) ELSE NoSymbol
  <2>1. p = Sent(c, kb, f1, f2, faked)
    BY Zenon DEF SentFor, SentWith
  <2> HIDE DEF f1, f2, faked, kb
  <2> QED
    BY <2>1 DEF Sent
<1> HIDE DEF f1, f2, faked
<1>5. CASE c.hit.key = 0
  BY <1>4, <1>5
<1>6. CASE c.hit.key # 0
  <2>1. PICK r : Gives(c, sym, st, r)
    BY <1>6, ChoiceGives
  <2>2. /\ r.state \in States /\ c.hit.state \in States /\ c.hit.state.group = st.group
        /\ Wanted(lorieGetLevelThreeMask(c.map, st), st, c.hit.state)
    BY <1>1, <1>6, <2>1, ChoiceState
  <2>3. lorieGetKeyboardState(faked) = c.hit.state
    <3>1. PICK m, new : m = c.map /\ new = c.hit.state
      OBVIOUS
    <3>2. f1 = FakeShift(m, kb, st, new) /\ f2 = FakeLevelThree(m, kb, st, new)
      BY <3>1 DEF f1, f2
    <3>3. lorieGetKeyboardState(mieqProcessInputEvents(m, Kb(D, l, g), f1.before \o f2.before)) = new
      BY <1>1, <2>2, <3>1, <3>2, FakedState
    <3> QED
      BY <3>1, <3>3 DEF faked
  <2>4. p.out = Symbol(c.map[c.hit.key], c.hit.state) /\ p.ok
    BY <1>2, <1>3, <1>4, <1>6, <2>3
  <2>5. PICK out : out = Symbol(c.map[c.hit.key], c.hit.state)
    OBVIOUS
  <2>6. out # NoSymbol /\ (out \in SameMeaning(sym) \/ (sym = "Tab" /\ "Shift" \in st.mods))
    BY <1>1, <1>6, <2>1, <2>2, <2>5, SomethingSeen
  <2> QED
    BY <1>6, <2>4, <2>5, <2>6
<1> QED
  BY <1>5, <1>6

LEMMA TypesPress ==
  ASSUME OrdinaryLayout, SparesGiveCharacters, ShiftsAreAlone, CharactersAreSeen,
         Remembered, HeldInv, UsedInv, NEW sym \in Typed, PressKeysym(sym)
  PROVE  TypesWhatIsAsked'
<1>1. PICK D, l, g, st, c, p : IsPress(sym, D, l, g, st, c, p)
  BY PressIs
<1>2. /\ D \in SUBSET Keys /\ l \in SUBSET Lockable /\ g \in {0, 1} /\ Cardinality(D) <= 8
      /\ st \in States /\ st = lorieGetKeyboardState(Kb(D, l, g))
      /\ c = Choice(map, addedKeysyms, sym, st) /\ IsChoice(c, sym, st)
      /\ p = SentFor(c, Kb(D, l, g), st) /\ got' = p.out /\ kbd' = p.kbd
      /\ p.ok => p.key \in Keys /\ p.kbd = Kb(D \cup {p.key}, l, g)
  BY <1>1 DEF IsPress, IsSent
<1>3. typing' = sym /\ reloads' = reloads /\ taken' = taken /\ sym # NoSymbol
  BY KeymapAssumption DEF PressKeysym
<1>4. /\ p.ok <=> c.hit.key # 0
      /\ ~p.ok => p.out = NoSymbol
      /\ p.ok => p.out # NoSymbol /\ (p.out \in SameMeaning(sym) \/ (sym = "Tab" /\ "Shift" \in st.mods))
  BY <1>2, SentGives
<1>5. CASE ~p.ok
  <2>1. reloads = 0 => taken > 0
    <3> SUFFICES ASSUME reloads = 0, taken = 0 PROVE FALSE
      BY DEF UsedInv
    <3>1. PICK m, a, U : m = map /\ a = addedKeysyms /\ U = used
      OBVIOUS
    <3>2. OKMap(m) /\ a \in Seq(Item) /\ Ordered(m, a, U) /\ FreeUsed(m, U)
      BY <3>1 DEF HeldInv, UsedInv
    <3>3. Choice(m, a, sym, st).hit.key # 0
      BY <1>2, <3>2, ChoiceHasKey
    <3> QED
      BY <1>2, <1>4, <1>5, <3>1, <3>3
  <2> QED
    BY <1>2, <1>3, <1>4, <1>5, <2>1 DEF TypesWhatIsAsked
<1>6. CASE p.ok
  <2>1. kbd' = Kb(D \cup {p.key}, l, g) /\ D \cup {p.key} \in SUBSET Keys
    BY <1>2, <1>6
  <2>2. PICK E : E = D \cup {p.key}
    OBVIOUS
  <2>3. lorieGetKeyboardState(Kb(E, l, g)) = [mods |-> ModsOf(E, l), group |-> g]
    BY <1>2, <2>1, <2>2, KbState DEF OrdinaryLayout
  <2>4. st = [mods |-> ModsOf(D, l), group |-> g]
    BY <1>2, KbState DEF OrdinaryLayout
  <2>5. "Shift" \in st.mods => "Shift" \in lorieGetKeyboardState(Kb(E, l, g)).mods
    BY <2>2, <2>3, <2>4 DEF ModsOf
  <2>6. Meets(typing, got)'
    <3>1. "Shift" \in st.mods => "Shift" \in (lorieGetKeyboardState(kbd).mods)'
      BY <2>1, <2>2, <2>5
    <3> QED
      BY <1>2, <1>3, <1>4, <1>6, <3>1 DEF Meets, SameMeaning
  <2> QED
    BY <1>2, <1>4, <1>6, <2>6 DEF TypesWhatIsAsked
<1> QED
  BY <1>5, <1>6

LEMMA TypesNext ==
  ASSUME OrdinaryLayout, SparesGiveCharacters, ShiftsAreAlone, CharactersAreSeen,
         Remembered, HeldInv, UsedInv, TypesWhatIsAsked, [Next]_vars
  PROVE  TypesWhatIsAsked'
<1>1. ASSUME NEW sym \in Typed, PressKeysym(sym) PROVE TypesWhatIsAsked'
  BY <1>1, TypesPress
<1>2. CASE typing' = NoSymbol
  BY <1>2 DEF TypesWhatIsAsked
<1>3. CASE reloads' # 0
  BY <1>3 DEF TypesWhatIsAsked
<1>4. CASE UNCHANGED <<typing, got, kbd, reloads>> /\ taken' \in Nat /\ taken' >= taken
  BY <1>4 DEF TypesWhatIsAsked, Meets, UsedInv
<1>5. reloads \in Nat /\ taken \in Nat
  BY DEF UsedInv
<1>6. ASSUME NEW k \in PhysKeys, PhysicalKey(k) PROVE typing' = NoSymbol
  BY <1>6 DEF PhysicalKey
<1>7. ASSUME NEW k \in Keys, ClientMapsKey(k) PROVE UNCHANGED <<typing, got, kbd, reloads>> /\ taken' = taken + 1
  BY <1>7 DEF ClientMapsKey
<1>8. ReleaseKeysym => typing' = NoSymbol
  BY DEF ReleaseKeysym
<1>9. ProcessInputEvents => typing' = NoSymbol
  BY DEF ProcessInputEvents
<1>10. ClientLoadsMap => reloads' # 0
  BY <1>5 DEF ClientLoadsMap
<1>11. UNCHANGED vars => UNCHANGED <<typing, got, kbd, reloads>> /\ taken' = taken
  BY DEF vars
<1> QED
  BY <1>1, <1>2, <1>3, <1>4, <1>5, <1>6, <1>7, <1>8, <1>9, <1>10, <1>11 DEF Next

\* A client that looks the pressed keycode up in the modifiers of that moment
\* gets the character that the activity asked for, and a character is dropped
\* only once clients have mapped spare keycodes (lorieKeysymKeyboardEvent).
THEOREM CharactersArrive ==
  OrdinaryLayout /\ SparesGiveCharacters /\ ShiftsAreAlone /\ CharactersAreSeen => (Spec => []TypesWhatIsAsked)
<1> SUFFICES ASSUME OrdinaryLayout, SparesGiveCharacters, ShiftsAreAlone, CharactersAreSeen
             PROVE  Spec => []TypesWhatIsAsked
  OBVIOUS
<1> DEFINE Inv == Remembered /\ HeldInv /\ UsedInv /\ TypesWhatIsAsked
<1>1. Init => Inv
  <2>1. Init => Remembered /\ TypesWhatIsAsked
    BY DEF Init, Remembered, TypesWhatIsAsked
  <2> QED
    BY <2>1, HeldInit, UsedInit DEF OrdinaryLayout
<1>2. Inv /\ [Next]_vars => Inv'
  BY NextRemembered, HeldNext, UsedNext, TypesNext
<1>3. Inv => TypesWhatIsAsked
  OBVIOUS
<1> HIDE DEF Inv
<1> QED
  BY <1>1, <1>2, <1>3, PTL DEF Spec
=============================================================================
