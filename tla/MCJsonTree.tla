----------------------------- MODULE MCJsonTree -----------------------------
(* An instance of JsonTree for TLC. *)
EXTENDS JsonTree, TLC

CONSTANTS a, b, c, d

FourNodes == {a, b, c, d}

\* Addresses are alike.
Symmetry == Permutations(FourNodes)

=============================================================================
