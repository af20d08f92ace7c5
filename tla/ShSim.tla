------------------------------- MODULE ShSim -------------------------------
(***************************************************************************)
(* The simulator lane of ci-full, from the sh-elf compiler to the answer   *)
(* "new failures" that the watchdog classifies: run-sh-sim.sh runs one     *)
(* suite after another on one ISA after another, each runtest leaving its  *)
(* gcc.sum at the same place of the build tree; the sums are counted for   *)
(* the badge (parse-sh-sim.py), uploaded, read back hours or runs later    *)
(* (extract-sh-sim-failures.py) and compared with those of the last-green  *)
(* run (sh-dejagnu-delta.py).                                              *)
(*                                                                         *)
(* No step of the lane can fail its job, so a run whose lane was cut short *)
(* is as green as any other.  A board is a pair of suite and ISA.          *)
(***************************************************************************)
EXTENDS Naturals, Sequences, FiniteSets

CONSTANTS
    Isas,      \* ISAS, in the order they run
    Tests,     \* suite -> names of its execution tests
    Known,     \* KNOWN_FP_XFAIL of extract-sh-sim-failures.py: names the
               \* simulator is known to get wrong
    BadgeGaps, \* KNOWN_FP_XFAIL of parse-sh-sim.py: the same, for the badge
    MaxRuns,   \* bound: ci-full runs
    Faults     \* "nosum": a runtest writes no gcc.sum; "timeout": the step is
               \* cut off; "red": another step fails the job

Suites == {"execute", "ieee"}

ASSUME ShSimAssumption ==
    /\ Isas \in Seq(STRING) /\ MaxRuns \in Nat
    /\ DOMAIN Tests = Suites /\ \A s \in Suites : IsFiniteSet(Tests[s])
    /\ Faults \subseteq {"nosum", "timeout", "red"}

(* for isa in $ISAS; do for suite in execute ieee. *)
IsaSet == {Isas[i] : i \in DOMAIN Isas}
Boards == Suites \X IsaSet
BoardAt(k) == <<IF k % 2 = 1 THEN "execute" ELSE "ieee", Isas[(k + 1) \div 2]>>

VARIABLES
    pc,      \* "idle", "build", "boards", "parse", "upload" or "detect"
    next,    \* the board the lane has come to
    tree,    \* gcc.sum in the build tree
    cur,     \* the run in progress
    runs     \* the runs that are over, oldest first

vars == <<pc, next, tree, cur, runs>>

(* A gcc.sum names the tests of its suite, not the board they ran on; board *)
(* is a ghost.                                                             *)
NoSum == [board |-> <<"none", "none">>, fails |-> {}]

Names == UNION {Tests[s] : s \in Suites}
Sum == {NoSum} \cup [board: Boards, fails: SUBSET Names]

(* What each board's tests fail when they are run with this commit.         *)
Truths == {t \in [Boards -> SUBSET Names] : \A b \in Boards : t[b] \subseteq Tests[b[1]]}

Run == [truth: Truths, elf: BOOLEAN, sums: [Boards -> Sum],
        counts: [pass: Nat, fail: Nat], green: BOOLEAN,
        base: 0..MaxRuns, new: SUBSET (IsaSet \X Suites \X (Names \ Known))]

NoRun == [truth |-> [b \in Boards |-> {}], elf |-> FALSE,
          sums |-> [b \in Boards |-> NoSum], counts |-> [pass |-> 0, fail |-> 0],
          green |-> FALSE, base |-> 0, new |-> {}]

(* Where the lane is, and what the sums of a run and its answer hold.       *)
TypeOK ==
    /\ pc \in {"idle", "build", "boards", "parse", "upload", "detect"}
    /\ next \in 1..(2 * Len(Isas) + 1)
    /\ tree \in Sum /\ cur \in Run
    /\ runs \in Seq(Run) /\ Len(runs) <= MaxRuns

Init ==
    /\ pc = "idle" /\ next = 1 /\ tree = NoSum
    /\ cur = NoRun /\ runs = <<>>

-----------------------------------------------------------------------------
(* build-and-test *)

(* A fresh container; the commit's compiler fails what it fails. *)
NewRun ==
    /\ pc = "idle" /\ Len(runs) < MaxRuns
    /\ \E t \in Truths : cur' = [NoRun EXCEPT !.truth = t]
    /\ pc' = "build" /\ next' = 1 /\ tree' = NoSum
    /\ UNCHANGED runs

(* build-sh-elf-gcc.sh: an sh-elf gcc is installed, or none.  A compiler    *)
(* that fails its smoke test stays installed and is used like any other.    *)
BuildShElf ==
    /\ pc = "build"
    /\ \E e \in BOOLEAN :
         /\ cur' = [cur EXCEPT !.elf = e]
         /\ pc' = IF e THEN "boards" ELSE "parse"
    /\ UNCHANGED <<next, tree, runs>>

(* make check-gcc for one board, whatever its status, then the copy of the  *)
(* gcc.sum that is there: this board's, or what an earlier one left.        *)
RunBoard ==
    /\ pc = "boards" /\ next <= 2 * Len(Isas)
    /\ \/ tree' = [board |-> BoardAt(next), fails |-> cur.truth[BoardAt(next)]]
       \/ "nosum" \in Faults /\ tree' = tree
    /\ cur' = [cur EXCEPT !.sums = [@ EXCEPT ![BoardAt(next)] = tree']]
    /\ next' = next + 1
    /\ UNCHANGED <<pc, runs>>

(* The boards are done, or timeout-minutes ends the step (continue-on-error)*)
(* with the sums it has copied so far.                                      *)
BoardsEnd ==
    /\ pc = "boards"
    /\ next > 2 * Len(Isas) \/ "timeout" \in Faults
    /\ pc' = "parse"
    /\ UNCHANGED <<next, tree, cur, runs>>

(* The execution lines of the sums: the file they are in and their test.    *)
Ran(sums) == {x \in Boards \X Names :
                 sums[x[1]] # NoSum /\ x[2] \in Tests[sums[x[1]].board[1]]}
Failed(sums) == {x \in Ran(sums) : x[2] \in sums[x[1]].fails}

(* The headline counts of parse-sh-sim.py, files that are absent counting   *)
(* nothing.                                                                 *)
Count(sums) ==
    [pass |-> Cardinality(Ran(sums) \ Failed(sums)),
     fail |-> Cardinality({x \in Failed(sums) : x[2] \notin BadgeGaps})]

(* Parse sh-sim results (if: always()). *)
ParseShSim ==
    /\ pc = "parse"
    /\ cur' = [cur EXCEPT !.counts = Count(cur.sums)]
    /\ pc' = "upload"
    /\ UNCHANGED <<next, tree, runs>>

(* Upload raw sh-sim artefacts (if: always()), and the end of the job; only *)
(* a successful one has its sums looked at.                                 *)
UploadSums ==
    /\ pc = "upload"
    /\ \E g \in IF "red" \in Faults THEN BOOLEAN ELSE {TRUE} :
         /\ cur' = [cur EXCEPT !.green = g]
         /\ pc' = "detect"
    /\ UNCHANGED <<next, tree, runs>>

-----------------------------------------------------------------------------
(* sh-regression *)

HasSums(r) == \E b \in Boards : r.sums[b] # NoSum

\* Variant: the known gaps of the simulator are regression candidates.
ExtractAll(sums) ==
    {<<x[1][2], sums[x[1]].board[1], x[2]>> : x \in Failed(sums)}

\* Variant: the ISA is not folded into the path.
ExtractNoIsa(sums) ==
    {<<Isas[1], sums[x[1]].board[1], x[2]>> : x \in {y \in Failed(sums) : y[2] \notin Known}}

(* extract-sh-sim-failures.py: the ISA of the file's name is folded into    *)
(* the path, which names the suite; the known gaps are set aside.           *)
Extract(sums) ==
    {<<x[1][2], sums[x[1]].board[1], x[2]>> : x \in {y \in Failed(sums) : y[2] \notin Known}}

\* Variant: the failures the baseline has and this run has not.
DeltaSwapped(new, old) == old \ new

(* sh-dejagnu-delta.py *)
Delta(new, old) == new \ old

(* sh-lastgreen.py sh-sim: the newest green run, 0 when there is none.      *)
LastGreen(g) ==
    LET green == {i \in DOMAIN runs : runs[i].green}
    IN  IF green = {} THEN g = 0 ELSE g \in green /\ \A i \in green : i <= g

(* Recompute sh-sim regression set: a baseline is at hand when the          *)
(* last-green run uploaded any sum at all; without one, no failure is new.  *)
Detect ==
    /\ pc = "detect"
    /\ \E g \in 0..Len(runs) :
         /\ LastGreen(g)
         /\ runs' = Append(runs,
              IF cur.green /\ g # 0 /\ HasSums(runs[g])
              THEN [cur EXCEPT !.base = g,
                               !.new = Delta(Extract(cur.sums), Extract(runs[g].sums))]
              ELSE cur)
    /\ cur' = NoRun /\ pc' = "idle" /\ next' = 1 /\ tree' = NoSum

Next == \/ NewRun \/ BuildShElf \/ RunBoard \/ BoardsEnd
        \/ ParseShSim \/ UploadSums \/ Detect

Spec == Init /\ [][Next]_vars

-----------------------------------------------------------------------------
(* Properties *)

(* Every board has the sum its own runtest wrote. *)
Whole(r) == \A b \in Boards : r.sums[b].board = b

(* Every sum that is there is its own board's, though some may be missing.  *)
Own(r) == \A b \in Boards : r.sums[b] = NoSum \/ r.sums[b].board = b

(* What truly fails with a run's commit, known gaps aside. *)
Failing(r) == {x \in IsaSet \X Suites \X (Names \ Known) : x[3] \in r.truth[<<x[2], x[1]>>]}

(* A failure reported as new is one: it fails with this commit and did not  *)
(* with the baseline's, if the baseline has all its boards, even when this  *)
(* run was cut short.                                                       *)
ReportedIsNew ==
    \A i \in DOMAIN runs :
        runs[i].base # 0 /\ Whole(runs[runs[i].base]) /\ Own(runs[i]) =>
            runs[i].new \subseteq Failing(runs[i]) \ Failing(runs[runs[i].base])

(* And none is missed when this run has all its boards, even when the       *)
(* baseline was cut short.                                                  *)
NoneMissed ==
    \A i \in DOMAIN runs :
        runs[i].base # 0 /\ Whole(runs[i]) /\ Own(runs[runs[i].base]) =>
            Failing(runs[i]) \ Failing(runs[runs[i].base]) \subseteq runs[i].new

(* The sh-sim badge (ci-full.yml:433-447). *)
Badge(r) ==
    CASE r.counts.pass = 0 -> "build failing"
      [] r.counts.pass > 0 /\ r.counts.fail = 0 -> "pass"
      [] r.counts.pass > 0 /\ r.counts.fail > 0 -> "fail"

(* "success here means no new execution failures" (ci-full.yml:430): two    *)
(* scripts read the sums with a list of known gaps each, and where the one  *)
(* makes the badge say pass the other finds nothing to report, be the sums  *)
(* complete, cut short or another board's.  A run without compiler does not *)
(* pass.  It takes that no gap of the badge is unknown to the watchdog,     *)
(* which the instances give ("Keep KNOWN_FP_XFAIL in sync with              *)
(* parse-sh-sim.py", extract-sh-sim-failures.py:14).                        *)
BadgeAgrees ==
    \A i \in DOMAIN runs :
        Badge(runs[i]) = "pass" => runs[i].new = {} /\ runs[i].elf

(* "A real regression is a new execution FAIL vs the last green run"        *)
(* (sh-regression.yml:124-125), and without a baseline detection is         *)
(* suppressed "rather than flag the whole baseline as a regression" (:88).  *)
OldFailuresNotReported ==
    \A i \in DOMAIN runs :
        runs[i].base # 0 => runs[i].new \cap Failing(runs[runs[i].base]) = {}

=============================================================================
