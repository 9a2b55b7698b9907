--------------------------- MODULE MCSharedState ---------------------------
(* No row or one of two: payloads of two lengths, and two payloads that    *)
(* differ although they have the same length. Three writes are enough for   *)
(* a reader that is overtaken twice, and two revisions for a payload of a  *)
(* layout of the outputs that is gone.                                     *)
EXTENDS SharedState, TLC

CONSTANTS w1, w2
MCLayouts == {<<>>, <<w1>>, <<w2>>}
Symmetry  == Permutations({w1, w2})
AllKinds  == {"ui", "exclusion", "snapshot"}
=============================================================================
