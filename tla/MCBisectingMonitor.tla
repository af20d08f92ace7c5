------------------------- MODULE MCBisectingMonitor -------------------------
(* TLC instances of BisectingMonitor. *)
EXTENDS BisectingMonitor, TLC

(* The sh-sim arm tells no two tests of one file apart. *)
OneFile == [t \in DjTests \cup SimTests |-> IF t \in SimTests THEN SimTests ELSE {t}]

=============================================================================
