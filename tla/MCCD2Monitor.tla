---------------------------- MODULE MCCD2Monitor ----------------------------
(***************************************************************************)
(* An archive in volumes below an override, and one in the old style below *)
(* a mount whose server path is overridden.                                *)
(***************************************************************************)
EXTENDS CD2Monitor, TLC

CONSTANTS g1, g2

MCGroups == {g1, g2}
MCCloudDir == (g1 :> <<"open", "films">>) @@ (g2 :> <<"drive", "in">>)
MCLocalDir == (g1 :> <<"mnt", "films">>) @@ (g2 :> <<"data", "in">>)
MCStyle == (g1 :> "numbered") @@ (g2 :> "old")
MCLastOf == (g1 :> 2) @@ (g2 :> 1)
MCOverrides == <<<<<<"open">>, <<"mnt">>>>, <<<<"srv">>, <<"data">>>>>>
MCMounts == {[source |-> <<"drive">>, path |-> <<"srv">>, isMounted |-> TRUE],
             [source |-> <<"open">>, path |-> <<"other">>, isMounted |-> FALSE]}
MCConfig == [manual |-> {<<"open">>},
             downloads |-> {[path |-> <<"drive", "in">>, approval |-> FALSE],
                            [path |-> <<"drive">>, approval |-> TRUE]},
             scanFailure |-> FALSE, failurePath |-> <<>>]

=============================================================================
