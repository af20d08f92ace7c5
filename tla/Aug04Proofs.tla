---------------------------- MODULE Aug04Proofs ----------------------------
(***************************************************************************)
(* For every range and every number of runs of the driver, killed or       *)
(* stopped wherever they may be: what summary.txt and ice-report.txt say   *)
(* is true of the commits, unless the very tests it rests on were          *)
(* disturbed.                                                              *)
(*                                                                         *)
(* The invariant of a session (ShBisectProofs) is kept by the driver's own *)
(* steps, which act between sessions or end one; to it come what ties the  *)
(* driver's phase to the session, that bisecting needs an equipped         *)
(* container, and that a SHA once read brought its symptom in or is in     *)
(* doubt.  With it the driver's sessions, too, implement FirstBad.         *)
(***************************************************************************)
EXTENDS Aug04Driver, ShBisectProofs

(* A session runs only while its phase lasts, and is of that phase's type.  *)
PhaseOfSession ==
    /\ pc # "idle" => phase \in {"bisecting1", "bisecting2"}
    /\ phase = "bisecting1" => ftype = "script"
    /\ phase = "bisecting2" => ftype = "metric"

(* No bisect starts in a container the preflight would refuse. *)
EquippedToBisect ==
    phase \in {"bisect1", "bisecting1", "bisect2", "bisecting2"} => equipped

(* Until the summary is written, the SHAs in the driver's variables are     *)
(* culprits or in doubt.                                                    *)
ShasTrue ==
    /\ phase \notin {"cleanup", "down"} =>
         /\ ice # Empty /\ "ice" \notin doubt => Introduces("script", ice)
         /\ csibe # Empty /\ "csibe" \notin doubt => Introduces("metric", csibe)
    /\ phase \in {"checkout", "capture"} => ice # Empty
    /\ phase = "capture" => cur = ice

(* The summary on disk names culprits and compares what it names. *)
SummarySound ==
    /\ summary.ice # Empty /\ "summary.ice" \notin doubt =>
         Introduces("script", summary.ice)
    /\ summary.csibe # Empty /\ "summary.csibe" \notin doubt =>
         Introduces("metric", summary.csibe)
    /\ summary.claim \in {"same", "different"} =>
         /\ summary.ice # Empty /\ summary.csibe # Empty
         /\ (summary.claim = "same") <=> summary.ice = summary.csibe

DInv == /\ IInv /\ DriverTypeOK /\ PhaseOfSession /\ EquippedToBisect
        /\ ShasTrue /\ SummarySound /\ ReportShowsIce

(* A step of the driver between sessions, or one that ends a session, keeps *)
(* a session's invariant as long as the cache stays faithful.               *)
LEMMA OwnStep ==
    ASSUME IInv, pc' = "idle",
           UNCHANGED <<truth, ftype, lo, hi, skipped, disturbed, sessions, exit, sum>>,
           outcome' \in {outcome, "exhausted"}, pc # "idle" => outcome' = "exhausted",
           cur' \in Commits, prefix' \in Contents, tree' \in Contents,
           tarball' \in [Commits -> Contents \cup {Partial}], CachedBuilds'
    PROVE  IInv'
  <1>1. TypeOK' /\ EndsAsSeen' /\ RangeSound'
    BY DEF IInv, TypeOK, truth, EndsAsSeen, RangeSound, Testable, IsBad, Pcs, Outcomes
  <1>2. CurInside' /\ CompilerOfCur' /\ VerdictHonest' /\ Running'
    BY DEF IInv, CurInside, CompilerOfCur, VerdictHonest, Running, Testing
  <1> QED BY <1>1, <1>2 DEF IInv

(* A cache of which some tarballs are gone is faithful. *)
LEMMA PruneStep ==
    ASSUME IInv, UNCHANGED truth, NEW kept \in SUBSET Commits, Prune(kept)
    PROVE  tarball' \in [Commits -> Contents \cup {Partial}] /\ CachedBuilds'
  BY EmptyIsNoCommit DEF IInv, TypeOK, Contents, CachedBuilds, Prune, truth

(* What a commit brought in does not change. *)
LEMMA IntroducesStable ==
    ASSUME UNCHANGED truth, NEW t, NEW c PROVE Introduces(t, c)' <=> Introduces(t, c)
  BY DEF truth, Introduces, IsBad, Testable

(* A session that named a culprit named a commit that brought its symptom   *)
(* in, if neither verdict the culprit rests on was disturbed.               *)
LEMMA CulpritIntroduces ==
    ASSUME IInv, outcome = "culprit", disturbed \cap {lo, hi} = {}
    PROVE  Introduces(ftype, hi)
  BY BisectAssumption DEF IInv, TypeOK, RangeSound, Running, Introduces, Commits

(* A session's steps change neither the truth nor the failure type. *)
LEMMA SessionKeeps == SessionStep => UNCHANGED <<truth, ftype>>
  <1> USE DEF session, search
  <1>1. CheckOut \/ NameCulprit \/ OnlySkippedLeft \/ Mark => UNCHANGED <<truth, ftype>>
    BY DEF CheckOut, NameCulprit, OnlySkippedLeft, Mark
  <1>2. Unidentified \/ Restore \/ BuildSucceeds \/ BuildFails \/ Pack \/ Rename
          => UNCHANGED <<truth, ftype>>
    BY DEF Unidentified, Restore, BuildSucceeds, BuildFails, Pack, Rename
  <1>3. MeasureScript \/ MeasureMetric \/ MeasureDejagnu \/ ShSim
          => UNCHANGED <<truth, ftype>>
    BY DEF MeasureScript, MeasureMetric, MeasureDejagnu, ShSim
  <1> QED BY <1>1, <1>2, <1>3 DEF SessionStep

(* No action changes what the commits are. *)
LEMMA TruthStays == [DNext]_allVars => UNCHANGED truth
  <1> SUFFICES ASSUME [DNext]_allVars PROVE UNCHANGED truth
    OBVIOUS
  <1>1. CASE Launch \/ Preflight \/ ReadLog1 \/ ReadLog2 \/ WriteSummary
    BY <1>1 DEF Launch, Preflight, ReadLog1, ReadLog2, WriteSummary, vars, truth
  <1>2. CASE RunBisect1 \/ RunBisect2
    BY <1>2 DEF RunBisect1, RunBisect2, StartBisect, truth
  <1>3. CASE BisectStep
    BY <1>3, SessionKeeps DEF BisectStep
  <1>4. CASE CheckOutCulprit \/ CaptureReport \/ Cleanup
    BY <1>4 DEF CheckOutCulprit, CaptureReport, Cleanup
  <1>5. CASE Killed \/ Stopped
    BY <1>5 DEF Killed, Stopped, SessionLost
  <1>6. CASE UNCHANGED allVars
    BY <1>6 DEF allVars, vars, truth
  <1> QED BY <1>1, <1>2, <1>3, <1>4, <1>5, <1>6 DEF DNext, DriverStep

(* Every action of the driver keeps the invariant of the session.           *)
LEMMA SessionInvariantKept == ASSUME DInv, [DNext]_allVars PROVE IInv'
  <1>0. IInv /\ UNCHANGED truth
    BY TruthStays DEF DInv
  <1>1. CASE Launch \/ Preflight \/ ReadLog1 \/ ReadLog2 \/ WriteSummary
    <2>1. UNCHANGED vars
      BY <1>1 DEF Launch, Preflight, ReadLog1, ReadLog2, WriteSummary
    <2> QED BY <1>0, <2>1, StepIInv
  <1>2. CASE RunBisect1 \/ RunBisect2
    <2>1. \E t \in Types : StartBisect(t)
      BY <1>2, DriverAssumption DEF RunBisect1, RunBisect2
    <2> QED BY <1>0, <2>1, StepIInv DEF Next
  <1>3. CASE BisectStep
    <2>1. SessionStep
      BY <1>3 DEF BisectStep, DInv, EquippedToBisect
    <2> QED BY <1>0, <2>1, StepIInv DEF Next
  <1>4. CASE CheckOutCulprit
    <2>1. ice \in Commits /\ pc = "idle"
      BY <1>4 DEF CheckOutCulprit, DInv, DriverTypeOK, Contents, ShasTrue, PhaseOfSession
    <2>2. UNCHANGED <<truth, session, pc, exit, files>> /\ cur' \in Commits
      BY <1>0, <1>4, <2>1 DEF CheckOutCulprit, IInv, TypeOK
    <2>3. CachedBuilds'
      BY <1>0, <2>2 DEF IInv, CachedBuilds, truth, files
    <2> QED BY <1>0, <2>1, <2>2, <2>3, OwnStep DEF session, search, files, IInv, TypeOK
  <1>5. CASE CaptureReport
    <2>1. pc = "idle" /\ UNCHANGED <<truth, session, pc, cur, exit, sum>> /\ cur \in Commits
      BY <1>0, <1>5 DEF CaptureReport, DInv, PhaseOfSession, IInv, TypeOK
    <2>2. prefix' \in Contents /\ tree' \in Contents
      BY <1>0, <1>5, <2>1, EmptyIsNoCommit
         DEF CaptureReport, CacheHit, IInv, TypeOK, Contents, CachedBuilds
    <2>3. tarball' \in [Commits -> Contents \cup {Partial}] /\ CachedBuilds'
      <3>1. \/ tarball' = tarball
            \/ tarball' = [tarball EXCEPT ![cur] = cur] /\ builds[cur]
        BY <1>5 DEF CaptureReport
      <3> QED BY <1>0, <2>1, <3>1, EmptyIsNoCommit
                 DEF IInv, TypeOK, Contents, CachedBuilds, truth
    <2> QED BY <1>0, <2>1, <2>2, <2>3, OwnStep DEF session, search
  <1>6. CASE Cleanup
    <2>1. pc = "idle" /\ UNCHANGED <<truth, session, pc, cur, exit, sum>>
          /\ prefix' = Empty /\ tree' = Empty
      BY <1>6 DEF Cleanup, DInv, PhaseOfSession
    <2>2. tarball' \in [Commits -> Contents \cup {Partial}] /\ CachedBuilds'
      <3>1. Prune({}) \/ tarball' = tarball
        BY <1>6 DEF Cleanup
      <3>2. CASE tarball' = tarball
        BY <1>0, <3>2 DEF IInv, TypeOK, CachedBuilds, truth
      <3> QED BY <1>0, <3>1, <3>2, PruneStep
    <2> QED BY <1>0, <2>1, <2>2, OwnStep DEF session, search, Contents, IInv, TypeOK
  <1>7. CASE Killed \/ Stopped
    <2>1. SessionLost
      BY <1>7 DEF Killed, Stopped
    <2>2. tarball' \in [Commits -> Contents \cup {Partial}] /\ CachedBuilds'
      <3>1. tarball' = tarball \/ \E kept \in SUBSET Commits : Prune(kept)
        BY <1>7 DEF Killed, Stopped
      <3>2. CASE tarball' = tarball
        BY <1>0, <3>2 DEF IInv, TypeOK, CachedBuilds, truth
      <3> QED BY <1>0, <3>1, <3>2, PruneStep
    <2> QED BY <1>0, <2>1, <2>2, OwnStep DEF SessionLost, Contents, IInv, TypeOK
  <1>8. CASE UNCHANGED allVars
    BY <1>0, <1>8, StepIInv DEF allVars
  <1> QED BY <1>1, <1>2, <1>3, <1>4, <1>5, <1>6, <1>7, <1>8 DEF DNext, DriverStep

(* The driver's variables keep their types. *)
LEMMA DriverTypeStep == ASSUME DInv, [DNext]_allVars, IInv' PROVE DriverTypeOK'
  <1>0. /\ DriverTypeOK /\ TypeOK'
        /\ ice \in Contents /\ csibe \in Contents /\ drivers \in 0..MaxDrivers
        /\ hi \in Commits /\ hi \in Contents /\ Empty \in Contents
    BY DEF DInv, DriverTypeOK, IInv, TypeOK, Contents
  <1>a. Launch => drivers' \in 0..MaxDrivers
    <2>1. MaxDrivers \in Nat
      BY DriverAssumption
    <2>2. Launch => drivers < MaxDrivers /\ drivers' = drivers + 1
      BY DEF Launch
    <2>3. drivers \in 0..MaxDrivers
      BY <1>0
    <2> QED BY <2>1, <2>2, <2>3
  <1>b. doubt' \subseteq Doubtful
    <2>0. doubt \subseteq Doubtful
      BY <1>0 DEF DriverTypeOK
    <2>1. ReadLog1 \/ ReadLog2 => doubt' \subseteq doubt \cup {"ice", "csibe"}
      BY DEF ReadLog1, ReadLog2, Doubt
    <2>2. CaptureReport => doubt' \subseteq doubt \cup {"report"}
      BY DEF CaptureReport
    <2>3. WriteSummary => doubt' \subseteq doubt \cup {"summary.ice", "summary.csibe"}
      BY DEF WriteSummary, Summarise
    <2>4. Launch => doubt' \subseteq doubt
      BY DEF Launch
    <2>5. Preflight \/ RunBisect1 \/ RunBisect2 \/ BisectStep \/ CheckOutCulprit
            \/ Cleanup \/ Killed \/ Stopped \/ UNCHANGED allVars => doubt' = doubt
      BY DEF Preflight, RunBisect1, RunBisect2, BisectStep, runVars, CheckOutCulprit,
             Cleanup, Killed, Stopped, allVars
    <2> QED BY <2>0, <2>1, <2>2, <2>3, <2>4, <2>5 DEF Doubtful, DNext, DriverStep
  <1> USE <1>0, <1>b DEF Phases, Endings, Leave
  <1>1. CASE Launch
    <2>1. drivers' \in 0..MaxDrivers
      BY <1>1, <1>a
    <2>2. equipped' \in BOOLEAN
      BY <1>1 DEF Launch
    <2> QED BY <1>1, <2>1, <2>2 DEF Launch, DriverTypeOK
  <1>2. CASE Preflight \/ RunBisect1 \/ RunBisect2
    BY <1>2 DEF Preflight, RunBisect1, RunBisect2, DriverTypeOK
  <1>3. CASE BisectStep \/ UNCHANGED allVars
    BY <1>3 DEF BisectStep, runVars, allVars, DriverTypeOK
  <1>4. CASE ReadLog1 \/ ReadLog2
    <2>1. CulpritFromLog \in Contents
      BY DEF CulpritFromLog
    <2>2. ReadLog1 => DriverTypeOK'
      BY <2>1 DEF ReadLog1, DriverTypeOK
    <2>3. ASSUME ReadLog2 PROVE DriverTypeOK'
      <3>1. phase' \in Phases
        BY <2>3 DEF ReadLog2
      <3> QED BY <2>1, <2>3, <3>1 DEF ReadLog2, DriverTypeOK
    <2> QED BY <1>4, <2>2, <2>3
  <1>5. CASE CheckOutCulprit \/ Cleanup
    BY <1>5 DEF CheckOutCulprit, Cleanup, DriverTypeOK
  <1>6. CASE CaptureReport
    <2>1. report' = report \/ report' = prefix'
      BY <1>6 DEF CaptureReport
    <2>2. report' \in Contents
      BY <2>1 DEF TypeOK, DriverTypeOK
    <2> QED BY <1>6, <2>2 DEF CaptureReport, DriverTypeOK
  <1>7. CASE WriteSummary
    <2>1. Claim \in Claims
      BY DEF Claim, Claims
    <2>2. summary' = [by |-> drivers, ice |-> ice, csibe |-> csibe, claim |-> Claim]
      BY <1>7 DEF WriteSummary, Summarise
    <2>3. summary' \in [by : 0..MaxDrivers, ice : Contents, csibe : Contents, claim : Claims]
      BY <2>1, <2>2
    <2> QED BY <1>7, <2>3 DEF WriteSummary, DriverTypeOK
  <1>8. CASE Killed \/ Stopped
    BY <1>8 DEF Killed, Stopped, DriverTypeOK
  <1> QED BY <1>1, <1>2, <1>3, <1>4, <1>5, <1>6, <1>7, <1>8 DEF DNext, DriverStep

(* A session runs in its phase, and only in an equipped container. *)
LEMMA PhaseStep ==
    ASSUME DInv, [DNext]_allVars PROVE PhaseOfSession' /\ EquippedToBisect'
  <1> USE DEF DInv, PhaseOfSession, EquippedToBisect, Leave
  <1>1. CASE Launch \/ Preflight \/ ReadLog1 \/ ReadLog2 \/ WriteSummary
    BY <1>1 DEF Launch, Preflight, ReadLog1, ReadLog2, WriteSummary, vars
  <1>2. CASE RunBisect1 \/ RunBisect2
    BY <1>2 DEF RunBisect1, RunBisect2, StartBisect
  <1>3. CASE BisectStep
    BY <1>3, SessionKeeps DEF BisectStep, runVars
  <1>4. CASE CheckOutCulprit \/ CaptureReport \/ Cleanup
    BY <1>4 DEF CheckOutCulprit, CaptureReport, Cleanup, session, search
  <1>5. CASE Killed \/ Stopped
    BY <1>5 DEF Killed, Stopped, SessionLost
  <1>6. CASE UNCHANGED allVars
    BY <1>6 DEF allVars, vars, runVars
  <1> QED BY <1>1, <1>2, <1>3, <1>4, <1>5, <1>6 DEF DNext, DriverStep

(* What the driver has read, what it wrote and what it captured stay true. *)
LEMMA ClaimsStep ==
    ASSUME DInv, [DNext]_allVars
    PROVE  ShasTrue' /\ SummarySound' /\ ReportShowsIce'
  <1>0. UNCHANGED truth BY TruthStays
  <1>1. \A t, c : Introduces(t, c)' <=> Introduces(t, c)
    BY <1>0, IntroducesStable
  <1>2. ReportShowsIce' <=>
          (report' # Empty => /\ builds[report']
                              /\ fails["script"][report'] \/ "report" \in doubt')
    BY <1>0 DEF truth, ReportShowsIce
  <1> USE <1>1, <1>2 DEF DInv, ShasTrue, SummarySound, Leave
  <1>3. CASE Launch \/ Preflight \/ RunBisect1 \/ RunBisect2
    BY <1>3 DEF Launch, Preflight, RunBisect1, RunBisect2, ReportShowsIce
  <1>4. CASE BisectStep \/ UNCHANGED allVars
    BY <1>4 DEF BisectStep, PhaseOfSession, runVars, allVars, vars, ReportShowsIce
  <1>5. CASE ReadLog1
    <2>1. ice' # Empty /\ "ice" \notin doubt' => Introduces("script", ice')
      BY <1>5, CulpritIntroduces DEF ReadLog1, CulpritFromLog, Doubt, PhaseOfSession
    <2>2. doubt' \in {doubt, doubt \cup {"ice"}}
      BY <1>5 DEF ReadLog1, Doubt
    <2> QED BY <1>5, <2>1, <2>2 DEF ReadLog1, ReportShowsIce
  <1>6. CASE ReadLog2
    <2>1. csibe' # Empty /\ "csibe" \notin doubt' => Introduces("metric", csibe')
      BY <1>6, CulpritIntroduces DEF ReadLog2, CulpritFromLog, Doubt, PhaseOfSession
    <2>2. doubt' \in {doubt, doubt \cup {"csibe"}}
      BY <1>6 DEF ReadLog2, Doubt
    <2>3. phase' \notin {"capture"} /\ (phase' = "checkout" => ice # Empty)
      BY <1>6 DEF ReadLog2
    <2> QED BY <1>6, <2>1, <2>2, <2>3 DEF ReadLog2, ReportShowsIce
  <1>7. CASE CheckOutCulprit \/ Cleanup \/ Killed \/ Stopped
    BY <1>7 DEF CheckOutCulprit, Cleanup, Killed, Stopped, ReportShowsIce
  <1>8. CASE CaptureReport
    <2>1. /\ cur \in Commits /\ cur = ice /\ ice # Empty /\ phase' = "summary"
          /\ "ice" \notin doubt => fails["script"][cur]
      BY <1>8 DEF CaptureReport, IInv, TypeOK, Introduces, IsBad
    <2>2. CacheHit => tarball[cur] = cur /\ builds[cur]
      BY <2>1 DEF CacheHit, IInv, CachedBuilds
    <2>3. \/ report' = report /\ prefix' = Empty
          \/ report' = cur /\ builds[cur] /\ prefix' # Empty
      BY <1>8, <2>1, <2>2, EmptyIsNoCommit DEF CaptureReport
    <2>4. /\ UNCHANGED <<ice, csibe, summary>>
          /\ doubt' \ {"report"} = doubt \ {"report"}
          /\ prefix' = Empty => doubt' = doubt
          /\ prefix' # Empty => ("report" \in doubt' <=> "ice" \in doubt)
      BY <1>8 DEF CaptureReport
    <2>5. ReportShowsIce'
      BY <2>1, <2>3, <2>4 DEF ReportShowsIce
    <2>6. \A d \in {"ice", "csibe", "summary.ice", "summary.csibe"} :
             d \in doubt' <=> d \in doubt
      BY <2>4
    <2>7. ShasTrue'
      <3>1. "ice" \in doubt' <=> "ice" \in doubt
        BY <2>6
      <3>2. "csibe" \in doubt' <=> "csibe" \in doubt
        BY <2>6
      <3>3. phase = "capture" /\ ice' = ice /\ csibe' = csibe /\ phase' = "summary"
        BY <1>8, <2>1, <2>4 DEF CaptureReport
      <3>4. ice' # Empty /\ "ice" \notin doubt' => Introduces("script", ice')
        BY <3>1, <3>3
      <3>5. csibe' # Empty /\ "csibe" \notin doubt' => Introduces("metric", csibe')
        BY <3>2, <3>3
      <3> QED BY <3>3, <3>4, <3>5
    <2>8. SummarySound'
      BY <2>4, <2>6
    <2> QED BY <2>5, <2>7, <2>8
  <1>9. CASE WriteSummary
    <2>1. /\ phase = "summary" /\ phase' = "cleanup" /\ UNCHANGED <<vars, report>>
          /\ summary' = [by |-> drivers, ice |-> ice, csibe |-> csibe, claim |-> Claim]
          /\ "report" \in doubt' <=> "report" \in doubt
          /\ "summary.ice" \in doubt' <=> "ice" \in doubt
          /\ "summary.csibe" \in doubt' <=> "csibe" \in doubt
      BY <1>9 DEF WriteSummary, Summarise
    <2>2. SummarySound'
      BY <2>1 DEF Claim
    <2> QED BY <2>1, <2>2 DEF ReportShowsIce
  <1> QED BY <1>3, <1>4, <1>5, <1>6, <1>7, <1>8, <1>9 DEF DNext, DriverStep

(* The invariant holds throughout every behaviour of the driver. *)
LEMMA DriverInvariance == DSpec => []DInv
  <1>1. DInit => DInv
    <2> SUFFICES ASSUME DInit PROVE DInv
      OBVIOUS
    <2>1. IInv
      BY InitIInv DEF DInit
    <2>2. Empty \in Contents /\ 0 \in 0..MaxDrivers /\ "none" \in Claims
      BY DriverAssumption DEF Contents, Claims
    <2>3. summary \in [by : 0..MaxDrivers, ice : Contents, csibe : Contents, claim : Claims]
      BY <2>2 DEF DInit
    <2>4. DriverTypeOK
      BY <2>1, <2>2, <2>3 DEF DInit, IInv, DriverTypeOK, Phases, Endings
    <2> QED BY <2>1, <2>4 DEF DInit, Init, DInv, PhaseOfSession, EquippedToBisect,
               ShasTrue, SummarySound, ReportShowsIce
  <1>2. DInv /\ [DNext]_allVars => DInv'
    <2> SUFFICES ASSUME DInv, [DNext]_allVars PROVE DInv'
      OBVIOUS
    <2>1. IInv' BY SessionInvariantKept
    <2> QED BY <2>1, DriverTypeStep, PhaseStep, ClaimsStep DEF DInv
  <1> QED BY <1>1, <1>2, PTL DEF DSpec

(* Of commits whose symptom comes in once, one alone brings it in. *)
LEMMA IntroducedOnce ==
    ASSUME NEW t, ComesOnce(t), NEW c, NEW d, Introduces(t, c), Introduces(t, d)
    PROVE  c = d
  <1> USE BisectAssumption DEF Introduces, Commits
  <1>1. c \in 1..N /\ d \in 1..N
    OBVIOUS
  <1>2. CASE c < d
    <2>1. d - 1 \in c..N /\ c \in Commits
      BY <1>1, <1>2
    <2> QED BY <2>1 DEF ComesOnce
  <1>3. CASE d < c
    <2>1. c - 1 \in d..N /\ d \in Commits
      BY <1>1, <1>3
    <2> QED BY <2>1 DEF ComesOnce
  <1> QED BY <1>1, <1>2, <1>3

(* The summary blames a commit that is not to blame only when the test of   *)
(* that commit or of the one before it was disturbed, and never says SAME   *)
(* or DIFFERENT of what it did not find; for symptoms that came in once,    *)
(* found by undisturbed tests, the comparison is exact.                     *)
THEOREM SummaryIsTrue == DSpec => []SummaryTrue
  <1>1. DInv => SummaryTrue
    <2> SUFFICES ASSUME DInv PROVE SummaryTrue
      OBVIOUS
    <2> USE DEF DInv, SummarySound
    <2>1. ASSUME summary.claim \in {"same", "different"},
                 ComesOnce("script"), ComesOnce("metric"),
                 doubt \cap {"summary.ice", "summary.csibe"} = {}
          PROVE  (summary.claim = "same") <=>
                 \E c \in Commits : Introduces("script", c) /\ Introduces("metric", c)
      <3>1. Introduces("script", summary.ice) /\ Introduces("metric", summary.csibe)
        BY <2>1
      <3>2. summary.ice \in Commits
        BY <3>1, BisectAssumption DEF Introduces, Commits
      <3>3. summary.claim = "same" <=> summary.ice = summary.csibe
        BY <2>1
      <3>4. ASSUME NEW c \in Commits, Introduces("script", c), Introduces("metric", c)
            PROVE  summary.ice = summary.csibe
        BY <2>1, <3>1, <3>4, IntroducedOnce
      <3> QED BY <3>1, <3>2, <3>3, <3>4
    <2> QED BY <2>1 DEF SummaryTrue
  <1> QED BY <1>1, DriverInvariance, PTL

(* ice-report.txt, of this run or an earlier one, is of a compiler that was *)
(* built, and shows the ICE unless bisect 1 blamed its commit on a          *)
(* disturbed verdict.                                                       *)
THEOREM ReportIsOfTheIce == DSpec => []ReportShowsIce
  <1>1. DInv => ReportShowsIce BY DEF DInv
  <1> QED BY <1>1, DriverInvariance, PTL

(* Under the driver too, a verdict or a culprit is wrong only by disturbed  *)
(* tests of the commits it is about, and the cache is faithful, whatever is *)
(* killed, stopped or pruned, and whatever an earlier run left behind.      *)
THEOREM DriverSessionsSound ==
    DSpec => [](DriverTypeOK /\ VerdictHonest /\ TarballsFaithful /\ CulpritSound)
  <1>1. DInv => DriverTypeOK /\ VerdictHonest /\ TarballsFaithful
    BY DEF DInv, IInv, CachedBuilds, TarballsFaithful
  <1>2. DInv => CulpritSound
    BY BisectAssumption DEF DInv, IInv, TypeOK, RangeSound, Running, CulpritSound, Commits
  <1> QED BY <1>1, <1>2, DriverInvariance, PTL

-----------------------------------------------------------------------------
(* Refinement of FirstBad *)

(* A step of the driver starts, continues or gives up a search, or leaves   *)
(* the range and the outcome of the last one alone.                         *)
LEMMA DriverStepRefines ==
    ASSUME DInv, DInv', [DNext]_allVars
    PROVE  [FB!FBNext]_(FB!fbVars)
  <1>0. IInv /\ IInv' /\ UNCHANGED truth
    BY TruthStays DEF DInv
  <1>1. CASE Launch \/ Preflight \/ ReadLog1 \/ ReadLog2 \/ WriteSummary \/ UNCHANGED allVars
    <2>1. UNCHANGED vars
      BY <1>1 DEF Launch, Preflight, ReadLog1, ReadLog2, WriteSummary, allVars
    <2> QED BY <2>1, QuietStep DEF vars
  <1>2. CASE RunBisect1 \/ RunBisect2
    <2>1. \E t \in Types : StartBisect(t)
      BY <1>2, DriverAssumption DEF RunBisect1, RunBisect2
    <2> QED BY <1>0, <2>1, StepRefines DEF Next
  <1>3. CASE BisectStep
    <2>1. SessionStep
      BY <1>3 DEF BisectStep, DInv, EquippedToBisect
    <2> QED BY <1>0, <2>1, StepRefines DEF Next
  <1>4. CASE CheckOutCulprit \/ CaptureReport \/ Cleanup
    BY <1>4, QuietStep DEF CheckOutCulprit, CaptureReport, Cleanup, truth, session,
          search
  <1>5. CASE Killed \/ Stopped
    <2>1. SessionLost
      BY <1>5 DEF Killed, Stopped
    <2>2. CASE pc = "idle"
      BY <1>0, <2>1, <2>2, QuietStep DEF SessionLost, truth
    <2>3. CASE pc # "idle"
      <3>1. outcome = "running" /\ outcome' = "exhausted" /\ UNCHANGED <<Class, lo, hi>>
        BY <1>0, <2>1, <2>3 DEF SessionLost, truth, IInv, Running, Class, Testable, IsBad
      <3> QED BY <3>1 DEF FB!GiveUp, FB!Ends, FB!FBNext
    <2> QED BY <2>2, <2>3
  <1> QED BY <1>1, <1>2, <1>3, <1>4, <1>5 DEF DNext, DriverStep

(* The two searches of every run of the driver are searches for a first bad *)
(* commit: a run that dies gives its search up, and the next one begins a   *)
(* new one, whatever the cache holds of the old.                            *)
THEOREM DriverRefinesFirstBad == DSpec => RefinesFirstBad
  <1>1. DInit => FB!FBInit
    <2> SUFFICES ASSUME DInit PROVE FB!FBInit
      OBVIOUS
    <2>1. FB!Classified
      BY EndsClassified DEF DInit, Init
    <2> QED BY <2>1 DEF DInit, Init, FB!FBInit
  <1>2. DInv /\ DInv' /\ [DNext]_allVars => [FB!FBNext]_(FB!fbVars)
    BY DriverStepRefines
  <1> QED BY <1>1, <1>2, DriverInvariance, PTL DEF DSpec, RefinesFirstBad, FB!FBSpec

-----------------------------------------------------------------------------
(* The build cache *)

(* A run on its way out with status 0 has written a summary with a culprit. *)
DoneMeansAnswered ==
    phase = "cleanup" /\ ended = "done" =>
        summary.by = drivers /\ (summary.ice # Empty \/ summary.csibe # Empty)

(* A bisect adds tarballs and removes none. *)
LEMMA SessionKeepsTarballs == ASSUME IInv, SessionStep PROVE ~ Shrinks
  <1>1. CASE Rename
    <2>1. tarball' = [tarball EXCEPT ![cur] = cur] /\ cur \in Commits
      BY <1>1 DEF Rename, IInv, TypeOK, CompilerOfCur
    <2> QED BY <2>1, EmptyIsNoCommit DEF Shrinks, IInv, TypeOK
  <1>2. CASE CheckOut \/ NameCulprit \/ OnlySkippedLeft \/ Mark \/ Unidentified \/ Pack
    BY <1>2 DEF CheckOut, NameCulprit, OnlySkippedLeft, Mark, Unidentified, Pack,
                files, Shrinks
  <1>3. CASE Restore \/ BuildSucceeds \/ BuildFails
    BY <1>3 DEF Restore, BuildSucceeds, BuildFails, Shrinks
  <1>4. CASE MeasureScript \/ MeasureMetric \/ MeasureDejagnu \/ ShSim
    BY <1>4 DEF MeasureScript, MeasureMetric, MeasureDejagnu, ShSim, files, Shrinks
  <1> QED BY <1>1, <1>2, <1>3, <1>4 DEF SessionStep

(* Only the summary that names a culprit leads to an exit with status 0. *)
LEMMA DoneStep ==
    ASSUME DInv, DoneMeansAnswered, [DNext]_allVars PROVE DoneMeansAnswered'
  <1> USE DEF DoneMeansAnswered, Leave
  <1>1. CASE Launch \/ Preflight \/ RunBisect1 \/ RunBisect2 \/ ReadLog1 \/ ReadLog2
    BY <1>1 DEF Launch, Preflight, RunBisect1, RunBisect2, ReadLog1, ReadLog2
  <1>2. CASE BisectStep \/ UNCHANGED allVars
    BY <1>2 DEF BisectStep, allVars, runVars
  <1>3. CASE CheckOutCulprit \/ CaptureReport \/ Cleanup \/ Killed \/ Stopped
    BY <1>3 DEF CheckOutCulprit, CaptureReport, Cleanup, Killed, Stopped
  <1>4. CASE WriteSummary
    BY <1>4 DEF WriteSummary, Summarise
  <1> QED BY <1>1, <1>2, <1>3, <1>4 DEF DNext, DriverStep

(* Save for a signal, the warm cache goes only once it is not needed: after *)
(* a summary of the same run that names a culprit.                          *)
THEOREM CacheIsKeptForRetry == DSpec => CacheKeptForRetry
  <1> DEFINE Allowed == \/ /\ summary.by = drivers
                           /\ summary.ice # Empty \/ summary.csibe # Empty
                        \/ ended' = "stopped"
  <1>1. DInit => DoneMeansAnswered
    BY DEF DInit, DoneMeansAnswered
  <1>2. ASSUME DInv, DoneMeansAnswered, [DNext]_allVars, Shrinks PROVE Allowed
    <2>1. CASE Launch \/ Preflight \/ ReadLog1 \/ ReadLog2 \/ WriteSummary
      BY <1>2, <2>1 DEF Launch, Preflight, ReadLog1, ReadLog2, WriteSummary, vars, Shrinks
    <2>2. CASE RunBisect1 \/ RunBisect2
      BY <1>2, <2>2 DEF RunBisect1, RunBisect2, StartBisect, Shrinks
    <2>3. CASE BisectStep
      <3>1. SessionStep
        BY <1>2, <2>3 DEF BisectStep, DInv, EquippedToBisect
      <3> QED BY <1>2, <3>1, SessionKeepsTarballs DEF DInv
    <2>4. CASE CheckOutCulprit \/ Killed \/ UNCHANGED allVars
      BY <1>2, <2>4 DEF CheckOutCulprit, Killed, allVars, vars, files, Shrinks
    <2>5. CASE CaptureReport
      <3>1. cur \in Commits
        BY <1>2 DEF DInv, IInv, TypeOK
      <3>2. tarball' = tarball \/ tarball' = [tarball EXCEPT ![cur] = cur]
        BY <2>5 DEF CaptureReport
      <3> QED BY <1>2, <3>1, <3>2, EmptyIsNoCommit DEF DInv, IInv, TypeOK, Shrinks
    <2>6. CASE Cleanup
      BY <1>2, <2>6 DEF Cleanup, Shrinks, DoneMeansAnswered
    <2>7. CASE Stopped
      BY <2>7 DEF Stopped
    <2> QED BY <1>2, <2>1, <2>2, <2>3, <2>4, <2>5, <2>6, <2>7 DEF DNext, DriverStep
  <1>3. DInv /\ DoneMeansAnswered /\ [DNext]_allVars => DoneMeansAnswered'
    BY DoneStep
  <1>4. DInv /\ DoneMeansAnswered /\ [DNext]_allVars => [Shrinks => Allowed]_allVars
    BY <1>2
  <1> QED BY <1>1, <1>3, <1>4, DriverInvariance, PTL DEF DSpec, CacheKeptForRetry

=============================================================================
