----------------------------- MODULE MCRenderer -----------------------------
(* Small instances of Renderer for TLC. *)
EXTENDS Renderer, TLC

CONSTANTS m1, m2, w1, w2, b1, b2, b3, i1, i2

\* b1 and b2 carry the same id: a restarted X server numbers its buffers
\* from the beginning again.
MCIdOf1 == b1 :> i1
MCIdOf == b1 :> i1 @@ b2 :> i1 @@ b3 :> i2

Symmetric == Permutations({m1, m2}) \cup Permutations({w1, w2})
=============================================================================
