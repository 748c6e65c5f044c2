---------------------------- MODULE MCStarrQueue ----------------------------
(* Instances of StarrQueue for TLC: one download, one or two workers.        *)
EXTENDS StarrQueue

CONSTANTS t1, w1, w2

OneTitle == {t1}
TwoWorkers == {w1, w2}
OneWorker == {w1}

=============================================================================
