--------------------------- MODULE MCShRegression ---------------------------
(* TLC instances of ShRegression. *)
EXTENDS ShRegression, TLC

=============================================================================
