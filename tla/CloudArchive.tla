---------------------------- MODULE CloudArchive ----------------------------
(***************************************************************************)
(* What the program promises for archives in the cloud, whoever unpacks    *)
(* them: an archive counts as processed only once its extraction was       *)
(* accepted, and its source is removed only once it was extracted.  The    *)
(* copy cache of CloudDrive2 (CD2Cache) and the extraction by 115's        *)
(* servers (Cloud115) implement it.                                        *)
(***************************************************************************)
CONSTANT Versions   \* archives, each as it was at some time or whatever it was

VARIABLES
    extracted,      \* versions whose extraction was accepted
    processed,      \* versions that are not to be extracted again
    removed         \* versions whose source the program removed

vars == <<extracted, processed, removed>>

Init == extracted = {} /\ processed = {} /\ removed = {}

\* An extraction is accepted.  Its record may be kept back.
Accept(v) ==
    /\ extracted' = extracted \cup {v}
    /\ processed' \in {processed, processed \cup {v}}
    /\ UNCHANGED removed

\* Several records go at once in a reset.
TakeBack(some) ==
    /\ processed' = processed \ some
    /\ UNCHANGED <<extracted, removed>>

Remove(v) ==
    /\ v \in extracted
    /\ removed' = removed \cup {v}
    /\ UNCHANGED <<extracted, processed>>

Next ==
    \/ \E v \in Versions : Accept(v) \/ Remove(v)
    \/ \E some \in SUBSET processed : TakeBack(some)

Spec == Init /\ [][Next]_vars

=============================================================================
