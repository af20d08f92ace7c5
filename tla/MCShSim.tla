------------------------------ MODULE MCShSim ------------------------------
(* TLC instances of ShSim: two ISAs, one test of each suite, that of ieee a *)
(* known gap of the simulator; or an ordinary one in both.                  *)
EXTENDS ShSim, TLC

TwoIsas == <<"m2", "m2a">>
OneIsa == <<"m4">>
GapTests == [s \in Suites |-> IF s = "execute" THEN {"a"} ELSE {"compare-fp-1"}]
PlainTests == [s \in Suites |-> IF s = "execute" THEN {"a"} ELSE {"f"}]

=============================================================================
