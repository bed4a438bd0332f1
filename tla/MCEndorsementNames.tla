------------------------- MODULE MCEndorsementNames -------------------------
(***************************************************************************)
(* Two revisions with one digest, and a delta with another.                *)
(***************************************************************************)
EXTENDS EndorsementNames, TLC

CONSTANTS d1, d2, d3, x, y

MCDigest == [d \in Deltas |-> IF d = d3 THEN y ELSE x]

Interchange == Permutations({d1, d2}) \cup Permutations(Keys)
=============================================================================
