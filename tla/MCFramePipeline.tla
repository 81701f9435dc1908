--------------------------- MODULE MCFramePipeline ---------------------------
(* Small instances of FramePipeline for TLC. *)
EXTENDS FramePipeline, TLC

CONSTANTS b1, b2, b3, s1, s2

\* b2 replaces b1 for another frame rate, b3 for another size.
OneSize   == b1 :> s1
SameSize  == b1 :> s1 @@ b2 :> s1
TwoSizes  == b1 :> s1 @@ b2 :> s1 @@ b3 :> s2
=============================================================================
