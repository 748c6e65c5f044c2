------------------------- MODULE MCProcessingStore -------------------------
(***************************************************************************)
(* Two goroutines that change and save the processing state at once, and   *)
(* two restarts.  k1 and k2 are two records of one archive (a 115 task key *)
(* and the name|size key), k3 is another archive.                          *)
(***************************************************************************)
EXTENDS ProcessingStore, TLC

CONSTANTS k1, k2, k3, i1, i2, w1, w2

MCIdentity == [k \in Keys |-> IF k = k3 THEN i2 ELSE i1]

\* The two goroutines are interchangeable.
WriterSymmetry == Permutations(Writers)

=============================================================================
