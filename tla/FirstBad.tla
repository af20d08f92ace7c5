------------------------------ MODULE FirstBad ------------------------------
(***************************************************************************)
(* What a bisect promises, without how it tests a commit.  A session works *)
(* on a linear history, between a good end and a bad end.  It moves an end *)
(* only to a commit that really belongs to that side, names a culprit only *)
(* when the ends are neighbours, and may give up at any time, leaving a    *)
(* range whose ends are still what they are said to be.                    *)
(*                                                                         *)
(* The test of a commit inside the range may be disturbed.  Which side the *)
(* commit then goes to is anyone's guess; the others keep theirs.          *)
(***************************************************************************)
EXTENDS Naturals

CONSTANTS Commits,  \* the history, as consecutive positions
          Ranges    \* the pairs <<good end, bad end>> a session may start with

VARIABLES class,    \* what each commit really is, for this session's failure
          lo, hi,   \* the known-good and the known-bad end
          outcome   \* how the session stands
fbVars == <<class, lo, hi, outcome>>

Classes == {"good", "bad", "untestable", "unsure"}
Ends == {"culprit", "inconclusive", "exhausted"}

Classified == /\ <<lo, hi>> \in Ranges
              /\ class \in [Commits -> Classes]
              /\ class[lo] = "good" /\ class[hi] = "bad"

FBInit == Classified /\ outcome = "idle"

Start == outcome # "running" /\ outcome' = "running" /\ Classified'

RaiseGood == /\ outcome = "running"
             /\ \E c \in (lo + 1)..(hi - 1) :
                  class[c] \in {"good", "unsure"} /\ lo' = c
             /\ UNCHANGED <<class, hi, outcome>>

LowerBad == /\ outcome = "running"
            /\ \E c \in (lo + 1)..(hi - 1) :
                  class[c] \in {"bad", "unsure"} /\ hi' = c
            /\ UNCHANGED <<class, lo, outcome>>

(* Only a commit that can be tested has a test to disturb.                  *)
Disturb == /\ outcome = "running"
           /\ \E c \in (lo + 1)..(hi - 1) :
                 /\ class[c] # "untestable"
                 /\ class' = [class EXCEPT ![c] = "unsure"]
           /\ UNCHANGED <<lo, hi, outcome>>

Name == /\ outcome = "running" /\ hi = lo + 1
        /\ outcome' = "culprit"
        /\ UNCHANGED <<class, lo, hi>>

GiveUp == /\ outcome = "running"
          /\ outcome' \in Ends \ {"culprit"}
          /\ UNCHANGED <<class, lo, hi>>

FBNext == Start \/ RaiseGood \/ LowerBad \/ Disturb \/ Name \/ GiveUp
FBSpec == FBInit /\ [][FBNext]_fbVars

=============================================================================
