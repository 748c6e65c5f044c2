-------------------------- MODULE MCFolderPipeline --------------------------
(***************************************************************************)
(* Instances of FolderPipeline: one watched path, or two with names of     *)
(* their own, and what is done to their sources.                           *)
(***************************************************************************)
EXTENDS FolderPipeline, TLC

CONSTANTS a1, a2, n1, n2, s1, s2, w1, w2

OwnNames == (a1 :> n1) @@ (a2 :> n2)
OneName == a1 :> n1

KeepAndDelete == (a1 :> "keep") @@ (a2 :> "delete")
ArchiveIt == a1 :> "archive"

\* Sizes differ in nothing but their names.
SizeSymmetry == Permutations(Sizes)

=============================================================================
