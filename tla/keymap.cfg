SPECIFICATION Spec
CONSTANTS
  Keys <- MCKeys
  fakeKeys = {12}
  BaseMap <- MCBaseMap
  KeyType <- MCKeyType
  altKeysym <- MCAlt
  Upper <- MCUpper
  Lower <- MCLower
  Typed = {"A", "at", "KP_1", "Tab", "Eacute"}
  PhysKeys = {1, 2, 3, 4}
  MaxHeld = 2
  MaxQueue = 1
  MaxChanges = 1
INVARIANTS TypesWhatIsAsked NothingLeftDown
PROPERTIES ReusesOldest Implements
