------------------------------ MODULE Keyboard ------------------------------
(***************************************************************************)
(* What the user may expect of the keyboard: the modifiers in effect are   *)
(* those of the keys held down and of the locks switched on with them.     *)
(* Characters typed by the activity in between change neither.             *)
(***************************************************************************)
CONSTANTS
  PhysKeys,  \* keys of the physical keyboard
  SetBy,     \* modifiers in effect while a key is held
  LockedBy   \* modifiers a key locks and unlocks

VARIABLES held, locked, mods

vars == <<held, locked, mods>>

Modifiers(keys, locks) == locks \cup UNION {SetBy[k] : k \in keys}

Init == held = {} /\ locked = {} /\ mods = {}

Press(k) ==
  /\ k \notin held
  /\ held' = held \cup {k}
  /\ locked' = (locked \ LockedBy[k]) \cup (LockedBy[k] \ locked)
  /\ mods' = Modifiers(held', locked')

Release(k) ==
  /\ k \in held
  /\ held' = held \ {k}
  /\ locked' = locked
  /\ mods' = Modifiers(held', locked)

Next == \E k \in PhysKeys : Press(k) \/ Release(k)

Spec == Init /\ [][Next]_vars
=============================================================================
