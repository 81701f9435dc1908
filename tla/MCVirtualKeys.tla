---------------------------- MODULE MCVirtualKeys ----------------------------
(* A small instance of VirtualKeys for TLC: an element of each kind.  The   *)
(* button has the left mouse button, the pad one key at all places, as      *)
(* setBinding leaves it, and that key is on two others, too.               *)
EXTENDS VirtualKeys, TLC

CONSTANTS f1, f2, left, right

MCElements == {"button", "toggle", "pad", "range"}

MCKind == [button |-> "BUTTON", toggle |-> "TOGGLE", pad |-> "PAD",
           range |-> "RANGE_BUTTON"]

MCBinding == [button |-> <<left, "w">>, toggle |-> <<"shift">>,
              pad |-> <<"w", "w", "w", "w">>, range |-> <<"w", "x">>]

MCIndices == -1..1

Symmetric == Permutations({f1, f2})
=============================================================================
