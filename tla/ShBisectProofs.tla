--------------------------- MODULE ShBisectProofs ---------------------------
(***************************************************************************)
(* For every range, every set of failure types, every pattern of commits   *)
(* that build or fail and every set of faults: a bisect session is wrong   *)
(* of a commit only if the test of that commit was disturbed.              *)
(*                                                                         *)
(* The invariant ties the files that outlive one test to the commit under  *)
(* test: the compiler judged is the one just built or unpacked, every      *)
(* tarball is the compiler of its own commit, and that commit builds.      *)
(***************************************************************************)
EXTENDS ShBisect, TLAPS

(* Where a commit is under test. *)
Testing == {"start", "pack", "rename", "measure", "mark"}

(* The ends are what git bisect was told they are, and it was told the      *)
(* truth save by disturbed tests.                                           *)
RangeSound ==
    /\ lo < hi
    /\ Testable(ftype, lo) /\ (lo \notin disturbed => ~ IsBad(ftype, lo))
    /\ Testable(ftype, hi) /\ (hi \notin disturbed => IsBad(ftype, hi))

(* The commit under test lies between the ends. *)
CurInside == pc \in Testing => lo < cur /\ cur < hi

(* What is measured is the compiler of the commit under test. *)
CompilerOfCur ==
    /\ pc \in {"pack", "rename", "measure"} => prefix = cur /\ builds[cur]
    /\ pc \in {"pack", "rename"} => UseCache
    /\ pc = "measure" => ftype # "build" /\ (UseCache \/ tree = cur)

(* A tarball is the compiler of its own commit, which builds. *)
CachedBuilds == \A c \in Commits : tarball[c] \in {Empty, c}
                                   /\ (tarball[c] = c => builds[c])

(* A culprit is named only when the ends are neighbours. *)
Running == /\ outcome = "running" <=> pc # "idle"
           /\ outcome = "culprit" => hi = lo + 1

IInv == /\ TypeOK /\ EndsAsSeen /\ RangeSound /\ CurInside /\ CompilerOfCur
        /\ CachedBuilds /\ VerdictHonest /\ Running

(* "No file" and "cut short" are no commits. *)
LEMMA EmptyIsNoCommit == Empty \notin Commits /\ Partial \notin Commits /\ Empty # Partial
  BY BisectAssumption DEF Empty, Partial, Commits

(* The invariant holds before the first session. *)
LEMMA InitIInv == Init => IInv
  <1> SUFFICES ASSUME Init PROVE IInv
    OBVIOUS
  <1> USE BisectAssumption
  <1>1. TypeOK
    BY DEF Init, TypeOK, Contents, Commits, Pcs, Outcomes
  <1>2. RangeSound
    BY DEF Init, RangeSound, EndsAsSeen
  <1>3. CachedBuilds
    BY EmptyIsNoCommit DEF Init, CachedBuilds
  <1>4. EndsAsSeen /\ CurInside /\ CompilerOfCur /\ VerdictHonest /\ Running
    BY DEF Init, CurInside, CompilerOfCur, VerdictHonest, Running, Testing
  <1> QED BY <1>1, <1>2, <1>3, <1>4 DEF IInv

(* What every measurement comes to. *)
Answered == /\ pc' = "mark" /\ exit' \in {0, 1, 125}
            /\ disturbed' \in {disturbed, disturbed \cup {cur}}

(* A verdict that nothing disturbed is the commit's. *)
AsMeasured == exit' # 125 /\ cur \notin disturbed' =>
                exit' = (IF fails[ftype][cur] THEN 1 ELSE 0)

LEMMA SkipOutcome == Skip => Answered /\ exit' = 125 /\ AsMeasured
  BY DEF Skip, Exit, Answered, AsMeasured

LEMMA MisleadOutcome == \A code \in {0, 1} : Mislead(code) => Answered /\ AsMeasured
  BY DEF Mislead, Exit, Answered, AsMeasured

LEMMA MeasureOutcome == \A c : Measure(c) => Answered /\ (c = cur => AsMeasured)
  BY DEF Measure, Judge, Mislead, Exit, Answered, AsMeasured

(* Every action keeps the types. *)
LEMMA TypeStep == TypeOK /\ [Next]_vars => TypeOK'
  <1> SUFFICES ASSUME TypeOK, [Next]_vars PROVE TypeOK'
    OBVIOUS
  <1> USE BisectAssumption DEF TypeOK, Contents, Pcs, Outcomes, Commits
  <1>1. ASSUME NEW t \in Types, StartBisect(t) PROVE TypeOK'
    <2>1. /\ prefix' \in Contents /\ tree' \in Contents /\ sum' \in Contents
      <3>1. CASE UNCHANGED <<prefix, tree, sum>>
        BY <3>1
      <3>2. CASE prefix' = Empty /\ tree' = Empty /\ sum' = Empty
        BY <3>2
      <3> QED BY <1>1, <3>1, <3>2 DEF StartBisect
    <2> QED BY <1>1, <2>1 DEF StartBisect
  <1>2. CASE CheckOut
    BY <1>2 DEF CheckOut, Candidates, truth, session, search, files
  <1>3. CASE NameCulprit \/ OnlySkippedLeft
    <2>1. /\ outcome' \in {"culprit", "inconclusive"} /\ pc' = "idle"
          /\ UNCHANGED <<truth, ftype, lo, hi, skipped, disturbed, sessions, cur, exit, files>>
      BY <1>3 DEF NameCulprit, OnlySkippedLeft
    <2> QED BY <2>1 DEF truth, files
  <1>4. CASE Mark
    BY <1>4 DEF Mark, truth, files
  <1>5. CASE Unidentified
    BY <1>5 DEF Unidentified, Exit, truth, session, search, files
  <1>6. CASE Restore
    BY <1>6 DEF Restore, BuildReturned, CacheHit, Exit, truth, session, search
  <1>7. CASE BuildSucceeds
    BY <1>7 DEF BuildSucceeds, BuildReturned, Exit, truth, session, search
  <1>8. CASE BuildFails
    <2>a. disturbed' \in {disturbed, disturbed \cup {cur}}
      BY <1>8 DEF BuildFails
    <2>b. tree' \in {Empty, tree} /\ prefix' = Empty
      BY <1>8 DEF BuildFails
    <2>1. disturbed' \subseteq Commits /\ tree' \in Contents /\ prefix' \in Contents
      <3>1. disturbed' \subseteq Commits
        BY <2>a
      <3>2. tree' \in Contents /\ prefix' \in Contents
        BY <2>b
      <3> QED BY <3>1, <3>2
    <2>2. UNCHANGED <<truth, search, cur, sum, tarball>>
      BY <1>8 DEF BuildFails
    <2>3. pc' \in Pcs /\ exit' \in {0, 1, 125}
      BY <1>8 DEF BuildFails, BuildReturned, Exit
    <2> QED BY <2>1, <2>2, <2>3 DEF truth, search
  <1>9. CASE Pack
    BY <1>9 DEF Pack, BuildReturned, Exit, truth, session, search, files
  <1>10. CASE Rename
    <2>1. tarball' \in [Commits -> Contents \cup {Partial}]
      BY <1>10 DEF Rename
    <2>2. pc' \in Pcs /\ exit' \in {0, 1, 125}
      BY <1>10 DEF Rename, BuildReturned, Exit
    <2> QED
      BY <1>10, <2>1, <2>2 DEF Rename, truth, session, search
  <1>11. CASE MeasureScript \/ MeasureMetric
    <2>1. Answered
      BY <1>11, SkipOutcome, MisleadOutcome, MeasureOutcome DEF MeasureScript, MeasureMetric
    <2>2. UNCHANGED <<truth, search, cur, files>>
      BY <1>11 DEF MeasureScript, MeasureMetric
    <2> QED
      BY <2>1, <2>2 DEF Answered, truth, search, files
  <1>12. CASE MeasureDejagnu
    <2>1. Answered
      BY <1>12, SkipOutcome, MisleadOutcome, MeasureOutcome DEF MeasureDejagnu
    <2>2. UNCHANGED <<truth, search, cur, prefix, tree, tarball>> /\ sum' \in Contents
      BY <1>12 DEF MeasureDejagnu
    <2> QED BY <2>1, <2>2 DEF Answered, truth, search
  <1>13. CASE ShSim
    <2>1. Answered
      BY <1>13, SkipOutcome, MisleadOutcome, MeasureOutcome DEF ShSim
    <2>2. UNCHANGED <<truth, search, cur, files>>
      BY <1>13 DEF ShSim
    <2> QED BY <2>1, <2>2 DEF Answered, truth, search, files
  <1>14. CASE Kill
    BY <1>14 DEF Kill, truth
  <1>15. CASE UNCHANGED vars
    BY <1>15 DEF vars
  <1> QED
    BY <1>1, <1>2, <1>3, <1>4, <1>5, <1>6, <1>7, <1>8, <1>9, <1>10, <1>11,
       <1>12, <1>13, <1>14, <1>15 DEF Next, SessionStep

(* What Pack and Rename have in common: the compiler of cur is installed    *)
(* and build() returns success, or goes on to the rename.                   *)
AfterBuild == \/ pc' = "rename"
              \/ ftype = "build" /\ pc' = "mark" /\ exit' = 0
              \/ ftype # "build" /\ pc' = "measure"

(* After a successful build the invariant survives Pack and Rename. *)
LEMMA BuiltStep ==
    ASSUME IInv, TypeOK', CachedBuilds', AfterBuild, UseCache,
           pc \in {"pack", "rename"},
           UNCHANGED <<truth, session, cur, prefix, tree>>
    PROVE  IInv'
  <1>1. EndsAsSeen' /\ RangeSound'
    BY DEF truth, session, search, IInv, EndsAsSeen, RangeSound, Testable, IsBad
  <1>2. builds[cur] /\ prefix = cur /\ lo < cur /\ cur < hi /\ pc' # "idle"
    BY DEF IInv, CompilerOfCur, CurInside, Testing, AfterBuild
  <1>3. CurInside' /\ CompilerOfCur' /\ Running'
    BY <1>2 DEF truth, session, search, IInv, CurInside, CompilerOfCur, Running, AfterBuild,
                UseCache
  <1>4. VerdictHonest'
    BY <1>2 DEF truth, session, search, VerdictHonest, AfterBuild, Testable, IsBad
  <1> QED BY <1>1, <1>3, <1>4 DEF IInv

(* A test ends: the verdict, if it is one, is true or noted as disturbed.   *)
LEMMA VerdictStep ==
    ASSUME IInv, TypeOK', pc \in {"start", "measure"}, pc' = "mark",
           UNCHANGED <<truth, search, cur, tarball>>,
           disturbed' \in {disturbed, disturbed \cup {cur}},
           exit' # 125 => /\ Testable(ftype, cur)
                          /\ cur \notin disturbed' => ((exit' = 1) <=> IsBad(ftype, cur))
    PROVE  IInv'
  <1>1. lo < cur /\ cur < hi
    BY DEF IInv, CurInside, Testing
  <1>2. EndsAsSeen' /\ CachedBuilds'
    BY DEF truth, IInv, EndsAsSeen, CachedBuilds, Testable, IsBad
  <1>3. RangeSound'
    BY DEF truth, search, IInv, RangeSound, Testable, IsBad
  <1>4. CurInside' /\ CompilerOfCur' /\ Running'
    BY <1>1 DEF search, CurInside, CompilerOfCur, IInv, Running
  <1>5. VerdictHonest'
    BY DEF truth, search, VerdictHonest, Testable, IsBad
  <1> QED BY <1>2, <1>3, <1>4, <1>5 DEF IInv

(* What a measurement of a commit that builds may come to, whatever         *)
(* disturbs it.                                                             *)
LEMMA MeasureStep ==
    ASSUME IInv, TypeOK', pc \in {"start", "measure"}, ftype # "build",
           UNCHANGED <<truth, search, cur, tarball>>,
           Answered, exit' # 125 => builds[cur], AsMeasured
    PROVE  IInv'
  <1>1. exit' # 125 => /\ Testable(ftype, cur)
                       /\ cur \notin disturbed' => ((exit' = 1) <=> IsBad(ftype, cur))
    BY DEF AsMeasured, Testable, IsBad
  <1> QED BY <1>1, VerdictStep DEF Answered

(* One step keeps the invariant, action by action. *)
LEMMA StepIInv ==
    ASSUME IInv, [Next]_vars
    PROVE  IInv'
  <1>0. TypeOK'
    BY TypeStep DEF IInv
  <1> USE BisectAssumption, EmptyIsNoCommit, <1>0 DEF UseCache
  <1>1. ASSUME NEW t \in Types, StartBisect(t) PROVE IInv'
    <2>1. RangeSound' /\ EndsAsSeen'
      BY <1>1 DEF StartBisect, IInv, EndsAsSeen, RangeSound, Testable, IsBad
    <2>2. CachedBuilds'
      BY <1>1 DEF StartBisect, IInv, CachedBuilds
    <2>3. CurInside' /\ CompilerOfCur' /\ VerdictHonest' /\ Running'
      BY <1>1 DEF StartBisect, IInv, CurInside, CompilerOfCur, VerdictHonest,
                  Running, Testing
    <2> QED BY <2>1, <2>2, <2>3 DEF IInv
  <1>2. CASE CheckOut
    <2>1. lo < cur' /\ cur' < hi
      BY <1>2 DEF CheckOut, Candidates, IInv, TypeOK, Commits
    <2> QED
      BY <1>2, <2>1 DEF CheckOut, truth, session, search, files, IInv, EndsAsSeen, RangeSound,
         Testable, IsBad, CurInside, CompilerOfCur, CachedBuilds, VerdictHonest,
         Running, Testing
  <1>3. CASE NameCulprit \/ OnlySkippedLeft
    BY <1>3 DEF NameCulprit, OnlySkippedLeft, truth, files, IInv, EndsAsSeen,
       RangeSound, Testable, IsBad, CurInside, CompilerOfCur, CachedBuilds,
       VerdictHonest, Running, Testing
  <1>4. CASE Mark
    <2>1. RangeSound'
      BY <1>4 DEF Mark, truth, IInv, RangeSound, CurInside, Testing, VerdictHonest,
                  Testable, IsBad, TypeOK
    <2> QED
      BY <1>4, <2>1 DEF Mark, truth, files, IInv, EndsAsSeen, Testable, IsBad,
         CurInside, CompilerOfCur, CachedBuilds, VerdictHonest, Running, Testing
  <1>5. CASE Unidentified
    BY <1>5 DEF Unidentified, Exit, truth, session, search, files, IInv, EndsAsSeen,
       RangeSound, Testable, IsBad, CurInside, CompilerOfCur, CachedBuilds,
       VerdictHonest, Running, Testing
  <1>6. CASE Restore
    <2>1. tarball[cur] = cur /\ builds[cur]
      BY <1>6 DEF Restore, CacheHit, IInv, TypeOK, CachedBuilds
    <2> QED
      BY <1>6, <2>1 DEF Restore, CacheHit, BuildReturned, Exit, truth, session, search, IInv,
         EndsAsSeen, RangeSound, Testable, IsBad, CurInside, CompilerOfCur,
         CachedBuilds, VerdictHonest, Running, Testing
  <1>7. CASE BuildSucceeds
    BY <1>7 DEF BuildSucceeds, BuildReturned, Exit, truth, session, search, IInv,
       EndsAsSeen, RangeSound, Testable, IsBad, CurInside, CompilerOfCur,
       CachedBuilds, VerdictHonest, Running, Testing
  <1>8. CASE BuildFails
    <2>1. /\ pc = "start" /\ UNCHANGED <<truth, search, cur, sum, tarball>>
          /\ IF ftype = "build" THEN pc' = "mark" /\ exit' = 1
                                ELSE pc' = "mark" /\ exit' = 125
      BY <1>8 DEF BuildFails, BuildReturned, Exit
    <2>2. /\ disturbed' \in {disturbed, disturbed \cup {cur}}
          /\ ftype = "build" /\ cur \notin disturbed' => ~ builds[cur]
      BY <1>8 DEF BuildFails
    <2>3. exit' # 125 => /\ Testable(ftype, cur)
                         /\ cur \notin disturbed' => ((exit' = 1) <=> IsBad(ftype, cur))
      BY <2>1, <2>2 DEF Testable, IsBad
    <2> QED BY <2>1, <2>2, <2>3, VerdictStep
  <1>9. CASE Pack
    <2>1. UNCHANGED <<truth, session, cur, files>> /\ pc = "pack"
      BY <1>9 DEF Pack
    <2>2. AfterBuild
      BY <1>9 DEF Pack, BuildReturned, Exit, AfterBuild
    <2>3. CachedBuilds'
      BY <2>1 DEF truth, files, IInv, CachedBuilds
    <2>4. UseCache BY <2>1 DEF IInv, CompilerOfCur
    <2> QED BY <2>1, <2>2, <2>3, <2>4, BuiltStep DEF session, search, files
  <1>10. CASE Rename
    <2>1. CachedBuilds'
      BY <1>10 DEF Rename, truth, IInv, TypeOK, CachedBuilds, CompilerOfCur
    <2>2. UNCHANGED <<truth, session, cur, prefix, tree, sum>> /\ pc = "rename"
      BY <1>10 DEF Rename
    <2>3. AfterBuild
      BY <1>10 DEF Rename, BuildReturned, Exit, AfterBuild
    <2>4. UseCache BY <2>2 DEF IInv, CompilerOfCur
    <2> QED BY <2>1, <2>2, <2>3, <2>4, BuiltStep
  <1>11. CASE MeasureScript \/ MeasureMetric
    <2>1. prefix = cur /\ builds[cur] /\ ftype # "build" /\ pc = "measure"
      BY <1>11 DEF MeasureScript, MeasureMetric, IInv, CompilerOfCur
    <2>2. UNCHANGED <<truth, search, cur, files>>
      BY <1>11 DEF MeasureScript, MeasureMetric
    <2>3. Answered /\ AsMeasured
      BY <1>11, <2>1, SkipOutcome, MisleadOutcome, MeasureOutcome
         DEF MeasureScript, MeasureMetric
    <2> QED BY <2>1, <2>2, <2>3, MeasureStep DEF files
  <1>12. CASE MeasureDejagnu
    <2>1. /\ tree = cur /\ builds[cur] /\ ftype # "build" /\ pc = "measure"
          /\ UNCHANGED <<truth, search, cur, tarball>>
      BY <1>12 DEF MeasureDejagnu, IInv, TypeOK, CompilerOfCur
    <2>2. Answered /\ AsMeasured
      BY <1>12, <2>1, SkipOutcome, MisleadOutcome, MeasureOutcome DEF MeasureDejagnu
    <2> QED BY <2>1, <2>2, MeasureStep
  <1>13. CASE ShSim
    <2>1. pc = "start" /\ ftype # "build" /\ UNCHANGED <<truth, search, cur, tarball>>
      BY <1>13 DEF ShSim, files
    <2>2. Answered /\ AsMeasured /\ (exit' # 125 => builds[cur])
      BY <1>13, SkipOutcome, MisleadOutcome, MeasureOutcome DEF ShSim
    <2> QED BY <2>1, <2>2, MeasureStep
  <1>14. CASE Kill
    BY <1>14 DEF Kill, truth, IInv, EndsAsSeen, RangeSound, Testable, IsBad,
       CurInside, CompilerOfCur, CachedBuilds, VerdictHonest, Running, Testing
  <1>15. CASE UNCHANGED vars
    BY <1>15 DEF vars, IInv, EndsAsSeen, RangeSound, Testable, IsBad, CurInside,
       CompilerOfCur, CachedBuilds, VerdictHonest, Running, Testing
  <1> QED
    BY <1>1, <1>2, <1>3, <1>4, <1>5, <1>6, <1>7, <1>8, <1>9, <1>10, <1>11,
       <1>12, <1>13, <1>14, <1>15 DEF Next, SessionStep

(* Every variable keeps its type, whatever the environment does. *)
THEOREM BisectTypeOK == Spec => []TypeOK
  <1>1. Init => TypeOK
    BY InitIInv DEF IInv
  <1> QED BY <1>1, TypeStep, PTL DEF Spec

(* IInv is an invariant, whatever the environment does. *)
LEMMA Invariance == Spec => []IInv
  <1>1. IInv /\ [Next]_vars => IInv'
    BY StepIInv
  <1> QED BY InitIInv, <1>1, PTL DEF Spec

(* The predicate says good or bad of a commit for a reason that is not the  *)
(* commit's only when the test of this very commit was disturbed (a stale   *)
(* gcc.sum counts as that): failing caches end in skip, a tarball, prefix   *)
(* or tree is never of another commit than the one it is taken for.         *)
THEOREM VerdictsAreHonest == Spec => []VerdictHonest
  <1>1. IInv => VerdictHonest BY DEF IInv
  <1> QED BY <1>1, Invariance, PTL

(* A culprit that is named shows the failure and its predecessor does not,  *)
(* even when the failure comes and goes between the ends; only a disturbed  *)
(* test of one of the two can make it otherwise.                            *)
THEOREM CulpritIsSound == Spec => []CulpritSound
  <1>1. IInv => CulpritSound
    BY BisectAssumption DEF IInv, TypeOK, RangeSound, Running, CulpritSound, Commits
  <1> QED BY <1>1, Invariance, PTL

-----------------------------------------------------------------------------
(* The build cache, with every fault: what is packed is the compiler of the *)
(* commit under test.                                                       *)

CacheInv == /\ TypeOK /\ TarballsFaithful
            /\ pc \in {"pack", "rename"} => prefix = cur

(* Only BuildSucceeds leads to the packing, and nothing comes between. *)
LEMMA CacheStep == CacheInv /\ [Next]_vars => CacheInv'
  <1> SUFFICES ASSUME CacheInv, [Next]_vars PROVE CacheInv'
    OBVIOUS
  <1>1. TypeOK'
    BY TypeStep DEF CacheInv
  <1> USE DEF CacheInv, TarballsFaithful
  <1>2. ASSUME NEW t \in Types, StartBisect(t) PROVE CacheInv'
    BY <1>1, <1>2 DEF StartBisect
  <1>3. CASE CheckOut \/ NameCulprit \/ OnlySkippedLeft \/ Mark
    BY <1>1, <1>3 DEF CheckOut, NameCulprit, OnlySkippedLeft, Mark, files
  <1>4. CASE Unidentified
    BY <1>1, <1>4 DEF Unidentified, Exit, files
  <1>5. CASE Restore \/ BuildFails
    BY <1>1, <1>5 DEF Restore, BuildFails, BuildReturned, Exit
  <1>6. CASE BuildSucceeds
    BY <1>1, <1>6 DEF BuildSucceeds, BuildReturned, Exit
  <1>7. CASE Pack
    BY <1>1, <1>7 DEF Pack, BuildReturned, Exit, files
  <1>8. CASE Rename
    <2>1. tarball' = [tarball EXCEPT ![cur] = cur]
      BY <1>8 DEF Rename
    <2>2. \A c \in Commits : tarball'[c] \in {Empty, c}
      BY <2>1 DEF TypeOK
    <2>3. pc' \notin {"pack", "rename"}
      BY <1>8 DEF Rename, BuildReturned, Exit
    <2> QED BY <1>1, <2>2, <2>3
  <1>9. CASE MeasureScript \/ MeasureMetric \/ MeasureDejagnu \/ ShSim
    <2>1. Answered
      BY <1>9, SkipOutcome, MisleadOutcome, MeasureOutcome
         DEF MeasureScript, MeasureMetric, MeasureDejagnu, ShSim
    <2>2. UNCHANGED tarball
      BY <1>9 DEF MeasureScript, MeasureMetric, MeasureDejagnu, ShSim, files
    <2> QED BY <1>1, <2>1, <2>2 DEF Answered
  <1>10. CASE Kill
    BY <1>1, <1>10 DEF Kill
  <1>11. CASE UNCHANGED vars
    BY <1>1, <1>11 DEF vars
  <1> QED
    BY <1>2, <1>3, <1>4, <1>5, <1>6, <1>7, <1>8, <1>9, <1>10, <1>11 DEF Next, SessionStep

(* However a session dies and whatever fails in it, the build cache holds   *)
(* whole tarballs of the right commit: the predicate packs into a .tmp file *)
(* that only a rename turns into a tarball.                                 *)
THEOREM CacheIsFaithful == Spec => []TarballsFaithful
  <1>1. Init => CacheInv
    <2>1. Init => TypeOK
      BY InitIInv DEF IInv
    <2> QED BY <2>1 DEF Init, CacheInv, TarballsFaithful
  <1>2. CacheInv => TarballsFaithful
    BY DEF CacheInv
  <1> QED BY <1>1, <1>2, CacheStep, PTL DEF Spec

-----------------------------------------------------------------------------
(* Refinement of FirstBad *)

(* Class tells apart what the predicate means to tell apart. *)
LEMMA ClassSplit ==
    ASSUME NEW c \in Commits
    PROVE  /\ Class[c] \in FB!Classes
           /\ Class[c] = "untestable" <=> ~ Testable(ftype, c)
           /\ Class[c] = "unsure" <=> Testable(ftype, c) /\ c \in disturbed
           /\ Class[c] = "good" <=>
                Testable(ftype, c) /\ c \notin disturbed /\ ~ IsBad(ftype, c)
           /\ Class[c] = "bad" <=>
                Testable(ftype, c) /\ c \notin disturbed /\ IsBad(ftype, c)
  BY DEF Class, FB!Classes

(* The ends CI saw are a good and a bad one in the sense of FirstBad. *)
LEMMA EndsClassified ==
    EndsAsSeen /\ ftype \in Types /\ lo = 0 /\ hi = N /\ disturbed = {} => FB!Classified
  <1> SUFFICES ASSUME EndsAsSeen, ftype \in Types, lo = 0, hi = N, disturbed = {}
               PROVE  FB!Classified
    OBVIOUS
  <1>1. 0 \in Commits /\ N \in Commits
    BY BisectAssumption DEF Commits
  <1>2. Class \in [Commits -> FB!Classes]
    BY DEF Class, FB!Classes
  <1>3. Class[0] = "good" /\ Class[N] = "bad"
    BY <1>1, ClassSplit DEF EndsAsSeen
  <1> QED BY <1>2, <1>3 DEF FB!Classified

(* A step that touches neither the range nor the outcome is a stutter. *)
LEMMA QuietStep ==
    ASSUME UNCHANGED <<builds, fails, ftype, lo, hi, outcome, disturbed>>
    PROVE  UNCHANGED FB!fbVars
  BY DEF FB!fbVars, Class, Testable, IsBad

(* A test that is disturbed is the test of a commit between the ends.       *)
LEMMA DisturbStep ==
    ASSUME IInv, pc \in Testing, Testable(ftype, cur),
           UNCHANGED <<truth, search>>, disturbed' = disturbed \cup {cur}
    PROVE  FB!Disturb
  <1>1. cur \in (lo + 1)..(hi - 1) /\ cur \in Commits /\ outcome = "running"
    BY DEF IInv, CurInside, Running, Testing, TypeOK, Commits
  <1>2. Class[cur] # "untestable"
    BY <1>1, ClassSplit
  <1>3. Class' = [Class EXCEPT ![cur] = "unsure"]
    <2>1. \A c \in Commits : Class'[c] = IF c = cur THEN "unsure" ELSE Class[c]
      BY DEF Class, truth, search, Testable, IsBad
    <2> QED BY <2>1 DEF Class
  <1> QED BY <1>1, <1>2, <1>3 DEF FB!Disturb, search

(* Every step is a step of FirstBad or a stutter. *)
LEMMA StepRefines ==
    ASSUME IInv, IInv', [Next]_vars
    PROVE  [FB!FBNext]_(FB!fbVars)
  <1> USE BisectAssumption
  <1>1. ASSUME NEW t \in Types, StartBisect(t) PROVE FB!Start
    <2>1. outcome # "running" /\ outcome' = "running" /\ lo' = 0 /\ hi' = N /\ disturbed' = {}
      BY <1>1 DEF StartBisect, IInv, Running
    <2>2. (EndsAsSeen /\ ftype \in Types /\ lo = 0 /\ hi = N /\ disturbed = {}
          => FB!Classified)'
      BY EndsClassified, PTL
    <2>3. FB!Classified'
      BY <2>1, <2>2 DEF IInv, TypeOK
    <2> QED BY <2>1, <2>3 DEF FB!Start
  <1>2. CASE NameCulprit
    <2>1. UNCHANGED Class
      BY <1>2 DEF NameCulprit, truth, Class, Testable, IsBad
    <2>2. FB!Name
      BY <1>2, <2>1 DEF NameCulprit, IInv, Running, FB!Name
    <2> QED BY <2>2 DEF FB!FBNext
  <1>3. CASE OnlySkippedLeft \/ Kill
    <2>1. UNCHANGED Class
      BY <1>3 DEF OnlySkippedLeft, Kill, truth, Class, Testable, IsBad
    <2>2. FB!GiveUp
      BY <1>3, <2>1 DEF OnlySkippedLeft, Kill, IInv, Running, FB!GiveUp, FB!Ends
    <2> QED BY <2>2 DEF FB!FBNext
  <1>4. CASE Mark
    <2>1. UNCHANGED Class
      BY <1>4 DEF Mark, truth, Class, Testable, IsBad
    <2>2. cur \in Commits /\ cur \in (lo + 1)..(hi - 1) /\ outcome = "running"
      BY <1>4 DEF Mark, IInv, TypeOK, CurInside, Testing, Running, Commits
    <2>3. CASE exit = 0
      <3>1. Class[cur] \in {"good", "unsure"}
        BY <1>4, <2>2, <2>3, ClassSplit DEF Mark, IInv, VerdictHonest
      <3>2. FB!RaiseGood
        BY <1>4, <2>1, <2>2, <2>3, <3>1 DEF Mark, FB!RaiseGood
      <3> QED BY <3>2 DEF FB!FBNext
    <2>4. CASE exit = 1
      <3>1. Class[cur] \in {"bad", "unsure"}
        BY <1>4, <2>2, <2>4, ClassSplit DEF Mark, IInv, VerdictHonest
      <3>2. FB!LowerBad
        BY <1>4, <2>1, <2>2, <2>4, <3>1 DEF Mark, FB!LowerBad
      <3> QED BY <3>2 DEF FB!FBNext
    <2>5. CASE exit = 125
      BY <1>4, <2>5, QuietStep DEF Mark, truth
    <2> QED BY <2>3, <2>4, <2>5 DEF IInv, TypeOK
  <1>5. CASE CheckOut \/ Unidentified \/ Pack \/ Restore \/ BuildSucceeds \/ Rename
    BY <1>5, QuietStep DEF CheckOut, Unidentified, Pack, Restore, BuildSucceeds, Rename,
       truth, session, search
  <1>6. CASE BuildFails \/ MeasureScript \/ MeasureMetric \/ MeasureDejagnu \/ ShSim
    <2>1. UNCHANGED <<truth, search>> /\ pc \in Testing
      BY <1>6 DEF BuildFails, MeasureScript, MeasureMetric, MeasureDejagnu, ShSim, Testing
    <2>2. CASE disturbed' = disturbed
      BY <2>1, <2>2, QuietStep DEF truth, search
    <2>3. CASE disturbed' # disturbed
      <3>1. BuildFails => disturbed' = disturbed \cup {cur} /\ ftype = "build"
        BY <2>3 DEF BuildFails
      <3>2. ShSim => disturbed' = disturbed \cup {cur} /\ builds[cur]
        BY <2>3 DEF ShSim, Skip, Measure, Judge, Mislead
      <3>3. MeasureScript \/ MeasureMetric \/ MeasureDejagnu =>
              disturbed' = disturbed \cup {cur} /\ builds[cur]
        BY <2>3 DEF MeasureScript, MeasureMetric, MeasureDejagnu, Skip, Measure, Judge,
                    Mislead, IInv, CompilerOfCur
      <3>4. disturbed' = disturbed \cup {cur} /\ Testable(ftype, cur)
        BY <1>6, <3>1, <3>2, <3>3 DEF Testable
      <3> QED BY <2>1, <3>4, DisturbStep DEF FB!FBNext
    <2> QED BY <2>2, <2>3
  <1>7. CASE UNCHANGED vars
    BY <1>7, QuietStep DEF vars
  <1> QED
    BY <1>1, <1>2, <1>3, <1>4, <1>5, <1>6, <1>7 DEF Next, SessionStep, FB!FBNext

(* The predicate and git bisect together implement the search for a first   *)
(* bad commit: an end moves only to a commit of its kind, a culprit is      *)
(* named only between neighbours, and a session that gives up leaves a      *)
(* range whose ends are what they are said to be.                           *)
THEOREM BisectRefinesFirstBad == Spec => RefinesFirstBad
  <1>1. Init => FB!FBInit
    <2> SUFFICES ASSUME Init PROVE FB!FBInit
      OBVIOUS
    <2>1. FB!Classified
      BY EndsClassified DEF Init
    <2> QED BY <2>1 DEF Init, FB!FBInit
  <1>2. IInv /\ IInv' /\ [Next]_vars => [FB!FBNext]_(FB!fbVars)
    BY StepRefines
  <1> QED BY <1>1, <1>2, Invariance, PTL DEF Spec, RefinesFirstBad, FB!FBSpec

=============================================================================
