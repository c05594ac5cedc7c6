----------------------------- MODULE MCSandboxes -----------------------------
(* Sandboxes for TLC: no definition tells one handle or one edit from another. *)
EXTENDS Sandboxes, TLC

Symmetry == Permutations(Boxes) \cup Permutations(Edits)
=============================================================================
