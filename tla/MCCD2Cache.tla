----------------------------- MODULE MCCD2Cache -----------------------------
(***************************************************************************)
(* Instances of CD2Cache: groups with base names of their own, or two      *)
(* directories of the mount that hold archives of one name.                *)
(***************************************************************************)
EXTENDS CD2Cache, TLC

CONSTANTS g1, g2, p1, p2, s1, s2, c1, c2, j1, j2

OwnNames == (g1 :> p1) @@ (g2 :> p2)
SameName == (g1 :> p1) @@ (g2 :> p1)
OneName == g1 :> p1

\* Sizes, copiers and jobs differ in nothing but their names.
Symmetry == Permutations(Copiers) \cup Permutations(Jobs) \cup Permutations(Sizes)

=============================================================================
