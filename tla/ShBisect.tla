------------------------------ MODULE ShBisect ------------------------------
(***************************************************************************)
(* Automatic bisection: `git bisect run` over the upstream commits between *)
(* a good and a bad end, with scripts/sh-bisect-predicate.sh as the judge, *)
(* as the Bisect step of sh-regression.yml runs it (a fresh container, no  *)
(* build cache, a wall-clock budget) and as bisect-aug04-regression.sh     *)
(* does (several sessions over one range that share a build cache, which   *)
(* survives the driver being killed and started again).                    *)
(*                                                                         *)
(* Commits are positions 0..N of a linear history, 0 the good and N the    *)
(* bad end.  The predicate judges a commit through files that outlive one  *)
(* test: the installed compiler, the build tree, the dejagnu summary, the  *)
(* cached tarballs.  Each is modelled by the commit its contents come from.*)
(*                                                                         *)
(* Not every verdict is a fact about a commit.  What the predicate cannot  *)
(* tell from one (a full disk in the middle of a reproduce command, a      *)
(* failure that comes and goes) is modelled as what it is, another answer, *)
(* and the history variable disturbed notes the commit it was given for.   *)
(***************************************************************************)
EXTENDS Naturals, FiniteSets

CONSTANTS
    N,            \* position of the bad end
    Types,        \* failure types bisected in this instance
    Cached,       \* the types bisected with BISECT_CACHE_DIR set: the driver's
    MaxSessions,  \* bound: bisect sessions
    Faults        \* the faults of the environment this instance includes

FaultKinds == {"revparse",  \* git cannot name HEAD
               "fetch",     \* a compiler build fails for a reason outside the commit
               "restore",   \* unpacking an intact tarball fails
               "pack",      \* packing a tarball fails
               "nosum",     \* runtest leaves no gcc.sum in the build tree
               "measure",   \* the measurement fails, or covers a part of its corpus
               "flaky",     \* the failure comes and goes, or is of CI's container only
               "kill"}      \* the time budget ends, or the driver is killed

FailureTypes == {"build", "script", "dejagnu", "sh-sim", "metric"}

(* Of a range of one commit git tests another commit (BisectingMonitor).    *)
ASSUME BisectAssumption ==
    /\ N \in Nat \ {0, 1}
    /\ MaxSessions \in Nat
    /\ Types \subseteq FailureTypes
    /\ "build" \in Types => Types = {"build"}
    /\ Cached \subseteq Types \cap {"script", "metric"}
    /\ Faults \subseteq FaultKinds

VARIABLES
    builds,    \* which commits can be built (never changes)
    fails,     \* which built commits show the failure of each type (never changes)
    ftype,     \* failure type of this session
    lo, hi,    \* refs/bisect/good-*, refs/bisect/bad
    skipped,   \* refs/bisect/skip-*
    outcome,   \* how the session stands
    disturbed, \* history: commits judged, in this session, by more than the commit
    sessions,  \* sessions started
    pc,        \* where the session is
    cur,       \* HEAD of the bisect checkout
    exit,      \* exit status of the predicate
    prefix,    \* commit of the compiler in GCC_PREFIX
    tree,      \* commit of the build tree in GCC_BUILD_DIR
    sum,       \* commit whose test run wrote OUT_DIR/gcc.sum
    tarball    \* commit whose compiler is in <sha>.tar.gz, per sha

truth == <<builds, fails>>
search == <<ftype, lo, hi, skipped, outcome, sessions>>
session == <<search, disturbed>>
files == <<prefix, tree, sum, tarball>>
vars == <<builds, fails, ftype, lo, hi, skipped, outcome, disturbed, sessions, pc,
          cur, exit, prefix, tree, sum, tarball>>

Commits == 0..N
Empty == N + 1      \* no file
Partial == N + 2    \* a tarball cut short
Contents == Commits \cup {Empty}

Pcs == {"idle", "next", "start", "pack", "rename", "measure", "mark"}
Outcomes == {"idle", "running", "culprit", "inconclusive", "exhausted"}

(* The failure of type t at a commit that can be judged at all: for "build" *)
(* not building is the failure, for the others a commit must build first.   *)
IsBad(t, c) == IF t = "build" THEN ~ builds[c] ELSE fails[t][c]
Testable(t, c) == t = "build" \/ builds[c]

(* Every file the predicate leaves behind is empty or of one commit, and    *)
(* its exit status is one git bisect run gives a meaning to.                *)
TypeOK ==
    /\ builds \in [Commits -> BOOLEAN]
    /\ fails \in [Types -> [Commits -> BOOLEAN]]
    /\ ftype \in Types
    /\ lo \in Commits /\ hi \in Commits
    /\ skipped \subseteq Commits
    /\ outcome \in Outcomes
    /\ disturbed \subseteq Commits
    /\ sessions \in 0..MaxSessions
    /\ pc \in Pcs
    /\ cur \in Commits
    /\ exit \in {0, 1, 125}
    /\ prefix \in Contents /\ tree \in Contents /\ sum \in Contents
    /\ tarball \in [Commits -> Contents \cup {Partial}]

(* CI saw the two ends: the good end is a run that passed, the bad end the  *)
(* one that failed.  (A good end of a sh-sim session may fail another       *)
(* variant of a test's file, which the predicate cannot tell from it:       *)
(* Matched of BisectingMonitor.  Such a session is not in this module.)     *)
EndsAsSeen ==
    \A t \in Types : /\ Testable(t, 0) /\ ~ IsBad(t, 0)
                     /\ Testable(t, N) /\ IsBad(t, N)

Init ==
    /\ builds \in [Commits -> BOOLEAN]
    /\ fails \in [Types -> [Commits -> BOOLEAN]]
    /\ EndsAsSeen
    /\ ftype \in Types
    /\ lo = 0 /\ hi = N /\ skipped = {} /\ outcome = "idle" /\ sessions = 0
    /\ disturbed = {}
    /\ pc = "idle" /\ cur = 0 /\ exit = 0
    /\ prefix = Empty /\ tree = Empty /\ sum = Empty
    /\ tarball = [c \in Commits |-> Empty]

-----------------------------------------------------------------------------
(* git bisect *)

(* git bisect reset; git bisect start BAD GOOD; git bisect run.  In CI the  *)
(* session has a container of its own; the driver's sessions share one.     *)
StartBisect(t) ==
    /\ pc = "idle" /\ sessions < MaxSessions
    /\ sessions' = sessions + 1 /\ ftype' = t
    /\ lo' = 0 /\ hi' = N /\ skipped' = {} /\ outcome' = "running" /\ disturbed' = {}
    /\ pc' = "next"
    /\ IF {ftype, t} \subseteq Cached THEN UNCHANGED <<prefix, tree, sum>>
       ELSE prefix' = Empty /\ tree' = Empty /\ sum' = Empty
    /\ UNCHANGED <<builds, fails, cur, exit, tarball>>

Candidates == ((lo + 1)..(hi - 1)) \ skipped

(* How well testing c halves the range. *)
Balance(c) == IF c - lo < hi - c THEN c - lo ELSE hi - c

(* Check out a commit between the ends: the one that best halves the range, *)
(* or, once commits were skipped, some other that was not.                  *)
CheckOut ==
    /\ pc = "next"
    /\ cur' \in Candidates
    /\ skipped = {} => \A c \in Candidates : Balance(c) <= Balance(cur')
    /\ pc' = "start"
    /\ UNCHANGED <<truth, session, exit, files>>

(* "<sha> is the first bad commit" *)
NameCulprit ==
    /\ pc = "next" /\ hi = lo + 1
    /\ outcome' = "culprit" /\ pc' = "idle"
    /\ UNCHANGED <<truth, ftype, lo, hi, skipped, disturbed, sessions, cur, exit, files>>

\* Variant: the bad end is blamed although commits before it were skipped.
OnlySkippedLeftBlames ==
    /\ pc = "next" /\ hi # lo + 1 /\ Candidates = {}
    /\ outcome' = "culprit" /\ pc' = "idle"
    /\ UNCHANGED <<truth, ftype, lo, hi, skipped, disturbed, sessions, cur, exit, files>>

(* "only skipped commits left": git names no culprit.                       *)
OnlySkippedLeft ==
    /\ pc = "next" /\ hi # lo + 1 /\ Candidates = {}
    /\ outcome' = "inconclusive" /\ pc' = "idle"
    /\ UNCHANGED <<truth, ftype, lo, hi, skipped, disturbed, sessions, cur, exit, files>>

\* Variant: every nonzero status, skip included, counts as bad.
MarkSkipAsBad ==
    /\ pc = "mark" /\ pc' = "next"
    /\ lo' = IF exit = 0 THEN cur ELSE lo
    /\ hi' = IF exit # 0 THEN cur ELSE hi
    /\ UNCHANGED <<truth, ftype, skipped, outcome, disturbed, sessions, cur, exit, files>>

\* Variant: a skipped commit is not remembered.
MarkForgetsSkip ==
    /\ pc = "mark" /\ pc' = "next"
    /\ lo' = IF exit = 0 THEN cur ELSE lo
    /\ hi' = IF exit = 1 THEN cur ELSE hi
    /\ UNCHANGED <<truth, ftype, skipped, outcome, disturbed, sessions, cur, exit, files>>

(* The predicate's exit status becomes good, bad or skip.                   *)
Mark ==
    /\ pc = "mark" /\ pc' = "next"
    /\ lo' = IF exit = 0 THEN cur ELSE lo
    /\ hi' = IF exit = 1 THEN cur ELSE hi
    /\ skipped' = IF exit = 125 THEN skipped \cup {cur} ELSE skipped
    /\ UNCHANGED <<truth, ftype, outcome, disturbed, sessions, cur, exit, files>>

(* timeout 300m (CI), or the driver dies with its container: what is in the *)
(* container is gone, the mounted cache and output directories stay.        *)
Kill ==
    /\ "kill" \in Faults /\ pc # "idle"
    /\ pc' = "idle" /\ outcome' = "exhausted"
    /\ prefix' = Empty /\ tree' = Empty
    /\ UNCHANGED <<truth, ftype, lo, hi, skipped, disturbed, sessions, cur, exit, sum, tarball>>

-----------------------------------------------------------------------------
(* sh-bisect-predicate.sh *)

Exit(code) == exit' = code /\ pc' = "mark"

(* git rev-parse HEAD fails: an infrastructure fault, not a verdict.        *)
Unidentified ==
    /\ pc = "start" /\ "revparse" \in Faults
    /\ Exit(125)
    /\ UNCHANGED <<truth, session, cur, files>>

\* Variant: `build || exit $?`, the status is passed on.
BuildReturnedRaw(rc) ==
    IF ftype = "build" THEN Exit(rc)
    ELSE IF rc = 0 THEN pc' = "measure" /\ exit' = exit ELSE Exit(rc)

(* What the arms do with the status of build(): 0 built, 1 build failure,   *)
(* 2 cache-restore failure.                                                 *)
BuildReturned(rc) ==
    IF ftype = "build"
    THEN Exit(IF rc = 0 THEN 0 ELSE IF rc = 2 THEN 125 ELSE 1)
    ELSE IF rc = 0 THEN pc' = "measure" /\ exit' = exit ELSE Exit(125)

(* BISECT_CACHE_DIR is set. *)
UseCache == ftype \in Cached

CacheHit == UseCache /\ tarball[cur] # Empty

Restore ==
    /\ pc = "start" /\ ftype # "sh-sim" /\ CacheHit
    /\ \/ /\ tarball[cur] # Partial
          /\ prefix' = tarball[cur]
          /\ BuildReturned(0)
       \/ /\ tarball[cur] = Partial \/ "restore" \in Faults
          /\ prefix' = Empty
          /\ BuildReturned(2)
    /\ UNCHANGED <<truth, session, cur, tree, sum, tarball>>

(* build-gcc.sh: fetch the commit, empty the build tree and the prefix,     *)
(* build, install, smoke-test.                                              *)
BuildSucceeds ==
    /\ pc = "start" /\ ftype # "sh-sim" /\ ~ CacheHit /\ builds[cur]
    /\ prefix' = cur /\ tree' = cur
    /\ IF UseCache THEN pc' = "pack" /\ exit' = exit ELSE BuildReturned(0)
    /\ UNCHANGED <<truth, session, cur, sum, tarball>>

BuildFails ==
    /\ pc = "start" /\ ftype # "sh-sim" /\ ~ CacheHit
    /\ prefix' = Empty
    /\ BuildReturned(1)
    /\ \/ ~ builds[cur] /\ tree' = Empty /\ disturbed' = disturbed
       \/ /\ "fetch" \in Faults /\ tree' = tree
          /\ disturbed' = IF ftype = "build" THEN disturbed \cup {cur} ELSE disturbed
    /\ UNCHANGED <<truth, search, cur, sum, tarball>>

\* Variant: tar writes <sha>.tar.gz itself.
PackInPlace ==
    /\ pc = "pack"
    /\ tarball' = [tarball EXCEPT ![cur] = Partial]
    /\ pc' = "rename" /\ exit' = exit
    /\ UNCHANGED <<truth, session, cur, prefix, tree, sum>>

(* tar to <sha>.tar.gz.tmp, which no one reads; a failure is not fatal.     *)
Pack ==
    /\ pc = "pack"
    /\ \/ pc' = "rename" /\ exit' = exit
       \/ "pack" \in Faults /\ BuildReturned(0)
    /\ UNCHANGED <<truth, session, cur, files>>

(* mv <sha>.tar.gz.tmp <sha>.tar.gz *)
Rename ==
    /\ pc = "rename"
    /\ tarball' = [tarball EXCEPT ![cur] = prefix]
    /\ BuildReturned(0)
    /\ UNCHANGED <<truth, session, cur, prefix, tree, sum>>

(* A verdict that is a fact about c, if it is about anything.               *)
Judge(c) == Exit(IF fails[ftype][c] THEN 1 ELSE 0) /\ disturbed' = disturbed

(* A verdict given for more than what the commit under test is.             *)
Mislead(code) == Exit(code) /\ disturbed' = disturbed \cup {cur}

Skip == Exit(125) /\ disturbed' = disturbed

(* What is measured of the compiler of c, which on some days is not what it *)
(* was when CI measured it.                                                 *)
Measure(c) ==
    \/ Judge(c)
    \/ "flaky" \in Faults /\ Mislead(IF fails[ftype][c] THEN 0 ELSE 1)

(* script: run the reproduce command with the installed compiler.  Whatever *)
(* makes it fail, a full disk under cp or mktemp included, is a bad commit. *)
MeasureScript ==
    /\ pc = "measure" /\ ftype = "script"
    /\ \/ Measure(prefix)
       \/ "measure" \in Faults /\ Mislead(1)
    /\ UNCHANGED <<truth, search, cur, files>>

(* metric: a script that fails or writes nothing, an absent key and a zero  *)
(* value are all skipped; else the value is compared with the threshold,    *)
(* the sum over a part of the corpus too.                                   *)
MeasureMetric ==
    /\ pc = "measure" /\ ftype = "metric"
    /\ \/ Measure(prefix)
       \/ "measure" \in Faults /\ (Skip \/ \E code \in {0, 1} : Mislead(code))
    /\ UNCHANGED <<truth, search, cur, files>>

(* dejagnu: run-dejagnu.sh tests the build tree and copies its gcc.sum, or  *)
(* fails before the copy; then whatever OUT_DIR/gcc.sum holds is read, if   *)
(* it is there.                                                             *)
MeasureDejagnu ==
    /\ pc = "measure" /\ ftype = "dejagnu"
    /\ \/ tree # Empty /\ sum' = tree /\ Measure(tree)
       \/ /\ tree = Empty \/ "nosum" \in Faults
          /\ sum' = sum
          /\ IF sum = Empty THEN Skip ELSE Mislead(IF fails[ftype][sum] THEN 1 ELSE 0)
    /\ UNCHANGED <<truth, search, cur, prefix, tree, tarball>>

(* sh-sim: build-sh-elf-gcc.sh from the bisect checkout, remove the old     *)
(* sums, run the regressed tests; without a sum no test is found failing.   *)
ShSim ==
    /\ pc = "start" /\ ftype = "sh-sim"
    /\ \/ (~ builds[cur] \/ "fetch" \in Faults) /\ Skip
       \/ builds[cur] /\ Measure(cur)
       \/ builds[cur] /\ "nosum" \in Faults /\ Mislead(0)
    /\ UNCHANGED <<truth, search, cur, files>>

-----------------------------------------------------------------------------
SessionStep ==
    \/ CheckOut \/ NameCulprit \/ OnlySkippedLeft \/ Mark
    \/ Unidentified \/ Restore \/ BuildSucceeds \/ BuildFails \/ Pack \/ Rename
    \/ MeasureScript \/ MeasureMetric \/ MeasureDejagnu \/ ShSim

Next == (\E t \in Types : StartBisect(t)) \/ SessionStep \/ Kill

Spec == Init /\ [][Next]_vars

(* Builds and test runs are finite programs and git bisect run starts the   *)
(* next step by itself, so a session that can take a step takes one.        *)
FairSpec == Spec /\ WF_vars(SessionStep)

-----------------------------------------------------------------------------
(* Properties *)

(* A verdict is a fact about the commit under test: good or bad is answered *)
(* only for a commit that can be judged and, unless its own measurement was *)
(* disturbed, is that.  No cache or disk that fails before the measurement, *)
(* no compiler an earlier test left and nothing that disturbed the test of  *)
(* another commit becomes a verdict; a gcc.sum an earlier test left does,   *)
(* and is a disturbance of the commit that is judged by it.                 *)
VerdictHonest ==
    pc = "mark" /\ exit # 125 =>
        /\ Testable(ftype, cur)
        /\ cur \notin disturbed => ((exit = 1) <=> IsBad(ftype, cur))

(* A tarball in the cache holds the compiler of the commit it is named      *)
(* after, whole, whenever a session died.                                   *)
TarballsFaithful == \A c \in Commits : tarball[c] \in {Empty, c}

(* The commit an issue blames shows the failure and the commit before it    *)
(* can be judged and does not, each unless its own verdict was disturbed;   *)
(* whether or not the failure comes and goes inside the range, and whatever *)
(* befell the tests of other commits.                                       *)
CulpritSound ==
    outcome = "culprit" =>
        /\ hi > 0 /\ lo = hi - 1
        /\ Testable(ftype, hi) /\ Testable(ftype, lo)
        /\ hi \notin disturbed => IsBad(ftype, hi)
        /\ lo \notin disturbed => ~ IsBad(ftype, lo)

(* Every session comes to an end.                                           *)
SessionEnds == (pc # "idle") ~> (pc = "idle")

(* The session is a search for a first bad commit as FirstBad describes it, *)
(* unsure of the commits whose verdict was disturbed and of no other.       *)
Class == [c \in Commits |->
            IF ~ Testable(ftype, c) THEN "untestable"
            ELSE IF c \in disturbed THEN "unsure"
            ELSE IF IsBad(ftype, c) THEN "bad" ELSE "good"]

FB == INSTANCE FirstBad WITH class <- Class, Ranges <- {<<0, N>>}
RefinesFirstBad == FB!FBSpec

=============================================================================
