------------------------------ MODULE MCCloud115 ------------------------------
(***************************************************************************)
(* Instances of Cloud115: two archives, with pages that hold one.          *)
(***************************************************************************)
EXTENDS Cloud115, TLC

CONSTANTS f1, f2

BothCloud == (f1 :> "source") @@ (f2 :> "source")
OneDaily == (f1 :> "source") @@ (f2 :> "download")

By(auto, approval, rescan, success) ==
    [auto |-> auto, approval |-> approval, rescan |-> rescan, success |-> success]
Mixed == {By(FALSE, FALSE, FALSE, "delete"), By(TRUE, TRUE, TRUE, "keep")}
Rescanning == {By(FALSE, FALSE, TRUE, "keep")}

=============================================================================
