--------------------------- MODULE MCAug04Driver ---------------------------
(* TLC instances of Aug04Driver. *)
EXTENDS Aug04Driver, TLC

=============================================================================
