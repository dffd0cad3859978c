---------------------------- MODULE MCResultCache ----------------------------
(* ResultCache on small projects: two sizings, or a source and its DR target. *)
EXTENDS ResultCache, TLC

CONSTANTS p1, p2, k1, k2

TwoSizings   == {1, 2}
SecondIsDr   == {2}

Alike == Permutations({p1, p2}) \cup Permutations({k1, k2})
=============================================================================
