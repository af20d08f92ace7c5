----------------------------- MODULE MCShBisect -----------------------------
(* TLC instances of ShBisect. *)
EXTENDS ShBisect, TLC

=============================================================================
