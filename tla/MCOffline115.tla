----------------------------- MODULE MCOffline115 -----------------------------
(***************************************************************************)
(* An instance of Offline115: a link to an archive and one to another      *)
(* file, handed to 115 one at a time.                                      *)
(***************************************************************************)
EXTENDS Offline115

CONSTANTS l1, l2

===============================================================================
