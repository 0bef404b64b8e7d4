------------------------- MODULE MCGenaControlPoint -------------------------
(* Instances of GenaControlPoint for TLC. *)
EXTENDS GenaControlPoint, TLC

\* A renewal is due at once, or when the clock has moved.
SoonOrLater == {0, 1}

CallerSymmetry == Permutations(Callers)
=============================================================================
