----------------------- MODULE BisectingMonitorProofs -----------------------
(***************************************************************************)
(* The issues of the watchdog tell the truth about the commits they name,  *)
(* for every history of commits, every set of tests and every schedule of  *)
(* upstream, runs, people and faults around a search.                      *)
(*                                                                         *)
(* A search is first shown to be the one Bisect step of ShRegression, so   *)
(* that everything proved of Monitor holds here.  Then EndsSeen, proved    *)
(* there, says what the two ends are when the search starts; SearchFits    *)
(* carries it through the search, and JobTells from there to the issue.    *)
(***************************************************************************)
EXTENDS BisectingMonitor, MonitorProofs

(* The search under way answers for the job that waits for it.              *)
SearchTypes ==
    /\ class \in [Commit -> FB!Classes]
    /\ lo \in 0..MaxCommit /\ hi \in 0..MaxCommit
    /\ outcome \in {"idle", "running"} \cup FB!Ends
    /\ upstream \in Nat

(* What the predicate answers between the good end and some later commit.   *)
AnswersOfJob == UNION {Answers(job.type, job.tests, job.good, top) : top \in Nat}

(* A search is always that of the job now waiting for it, and stays between *)
(* the ends of that job, or below upstream's head if it started there,      *)
(* whatever aborts, re-runs and dispatches come in between.                 *)
SearchBelongsToJob ==
    outcome = "running" =>
        /\ job.pc = "bisect" /\ Bisectable
        /\ job.good <= lo /\ lo < hi
        /\ hi <= job.commit \/ (job.good + 1 = job.commit /\ hi <= upstream)

SearchInv ==
    /\ SearchTypes
    /\ SearchBelongsToJob
    /\ outcome = "running" => class \in AnswersOfJob

-----------------------------------------------------------------------------
(* A search is a bisect *)

(* The answers are about the job and the commits only.                      *)
LEMMA AnswersStay ==
    ASSUME job' = job, truth' = truth
    PROVE  AnswersOfJob' = AnswersOfJob
  BY DEF AnswersOfJob, Answers, ClassesOf, FaultyClasses, Shows, FailsAt

(* Neither an end of the search nor the answers depend on what changes.     *)
LEMMA SearchKept ==
    ASSUME SearchInv, UNCHANGED <<job, truth, searchVars>>,
           upstream' \in Nat, upstream <= upstream'
    PROVE  SearchInv'
  <1>1. SearchTypes'
    BY DEF SearchInv, SearchTypes, searchVars, FB!Classes, FB!Ends
  <1>2. SearchBelongsToJob'
    BY DEF SearchInv, SearchTypes, SearchBelongsToJob, Bisectable, searchVars
  <1>3. outcome' = "running" => class' \in AnswersOfJob'
    BY AnswersStay DEF SearchInv, searchVars
  <1> QED BY <1>1, <1>2, <1>3 DEF SearchInv

LEMMA UpstreamGrows ==
    ASSUME [BNext]_bVars, upstream \in Nat
    PROVE  upstream' \in Nat /\ upstream <= upstream'
  <1>1. CASE StartSearch \/ StartSearchAtHead \/ SearchMoves \/ UNCHANGED bVars
    BY <1>1 DEF StartSearch, StartSearchAtHead, SearchMoves, bVars, allVars, syncVars
  <1>2. CASE SearchNames \/ SearchGivesUp \/ HeadTakesTooLong \/ NoSearch
    BY <1>2 DEF SearchNames, SearchGivesUp, HeadTakesTooLong, NoSearch, Report, syncVars
  <1>3. CASE OtherJobStep \/ Outside
    BY <1>3 DEF OtherJobStep, Outside, Interference, syncVars
  <1>4. CASE Around
    BY <1>4 DEF Around, UpstreamCommit, SyncCheck, OtherPush, SyncPush, PushRejected,
                Retrigger, TestRun, ConcludeRun, syncVars
  <1> QED BY <1>1, <1>2, <1>3, <1>4 DEF BNext

(* From outside a job may die, its search with it.  Nothing else touches it. *)
JobDies ==
    /\ Abort
    /\ outcome' = IF outcome = "running" THEN "exhausted" ELSE outcome
    /\ UNCHANGED <<syncVars, truth, class, lo, hi>>

PastTheJob ==
    \/ \E i \in DOMAIN runs : Expire(i)
    \/ \E c \in Commit, r \in {"success", "failure"} : Dispatch(c, r)
    \/ HumanClose

AroundJob == PastTheJob /\ UNCHANGED <<syncVars, truth, searchVars>>

(* Nothing around a job moves it on; a free group takes the next one.       *)
LEMMA JobWaits ==
    ASSUME Around \/ PastTheJob
    PROVE  job' = job \/ (job.pc = "idle" /\ job'.pc = "detect")
  <1> DEFINE Joins == \E k, i, c, r : JoinGroup(NewJob(k, i, c, r))
  <1>j. ASSUME Joins PROVE job' = job \/ (job.pc = "idle" /\ job'.pc = "detect")
    <2>1. PICK k, i, c, r : JoinGroup(NewJob(k, i, c, r))
      BY <1>j
    <2>2. NewJob(k, i, c, r).pc = "detect"
      BY DEF NewJob
    <2>3. PICK j : j = NewJob(k, i, c, r)
      OBVIOUS
    <2> QED BY <2>1, <2>2, <2>3 DEF JoinGroup
  <1>1. CASE \E i \in DOMAIN runs : BuildDone(i)
    <2>1. Joins
      BY <1>1 DEF BuildDone
    <2> QED BY <1>j, <2>1
  <1>2. CASE \E c \in Commit, r \in {"success", "failure"} : Dispatch(c, r)
    <2>1. Joins
      BY <1>2 DEF Dispatch
    <2> QED BY <1>j, <2>1
  <1>3. CASE UpstreamCommit \/ SyncCheck \/ OtherPush \/ PushRejected
    BY <1>3 DEF UpstreamCommit, SyncCheck, OtherPush, PushRejected, vars
  <1>4. CASE SyncPush \/ Retrigger
    BY <1>4 DEF SyncPush, Retrigger, Queue
  <1>5. CASE ConcludeRun \/ HumanClose \/ \E i \in DOMAIN runs : Expire(i)
    BY <1>5 DEF ConcludeRun, Conclude, HumanClose, Expire
  <1> QED BY <1>1, <1>2, <1>3, <1>4, <1>5 DEF Around, PastTheJob, TestRun

LEMMA OutsideIs ==
    ASSUME SearchInv, IInv, Outside
    PROVE  JobDies \/ AroundJob
  <1>1. CASE Abort
    <2>1. job'.pc # "bisect"
      BY <1>1, EndEffect DEF FinishJob, IInv, JobsInv, PendFresh
    <2> QED BY <1>1, <2>1 DEF Outside, Interference, JobDies
  <1>2. CASE ~ Abort
    <2>1. PastTheJob /\ UNCHANGED <<syncVars, truth>>
      BY <1>2 DEF Outside, Interference, PastTheJob
    <2>2. outcome = "running" => job'.pc = "bisect"
      <3> SUFFICES ASSUME outcome = "running" PROVE job'.pc = "bisect"
        OBVIOUS
      <3>1. job.pc = "bisect"
        BY DEF SearchInv, SearchBelongsToJob
      <3>2. job' = job
        BY <2>1, <3>1, JobWaits
      <3> QED BY <3>1, <3>2
    <2>3. UNCHANGED searchVars
      BY <2>2 DEF Outside, searchVars
    <2> QED BY <2>1, <2>3 DEF AroundJob
  <1> QED BY <1>1, <1>2

LEMMA TruthStays == ASSUME [BNext]_bVars PROVE truth' = truth
  <1>1. CASE StartSearch \/ StartSearchAtHead \/ SearchMoves \/ UNCHANGED bVars
    BY <1>1 DEF StartSearch, StartSearchAtHead, SearchMoves, bVars, allVars
  <1>2. CASE SearchNames \/ SearchGivesUp \/ HeadTakesTooLong \/ NoSearch
    BY <1>2 DEF SearchNames, SearchGivesUp, HeadTakesTooLong, NoSearch, Report
  <1>3. CASE OtherJobStep \/ Outside
    BY <1>3 DEF OtherJobStep, Outside, Interference
  <1>4. CASE Around
    BY <1>4 DEF Around, UpstreamCommit, SyncCheck, OtherPush, SyncPush, PushRejected,
                Retrigger, TestRun, ConcludeRun
  <1> QED BY <1>1, <1>2, <1>3, <1>4 DEF BNext

(* The end of a search is the Bisect step. *)
LEMMA ReportIsBisect ==
    ASSUME IInv, job.pc = "bisect", NEW c, NEW n, Report(c, n),
           \/ c = 0 /\ n = 0
           \/ Bisectable /\ c \in (job.good + 1)..FarEnd /\ n = 0
           \/ Bisectable /\ n \in (job.good + 1)..FarEnd /\ c = 0
    PROVE  WatchdogStep
  <1>1. job \in Job /\ job.culprit = 0 /\ job.narrowed = 0
    BY DEF IInv, TypeInv, TypeOK, JobsInv, JobRange
  <1>2. job' = [job EXCEPT !.pc = "file", !.culprit = c, !.narrowed = n]
    BY DEF Report
  <1>3. CASE c = 0 /\ n = 0
    <2>1. job' = [job EXCEPT !.pc = "file"]
      BY <1>1, <1>2, <1>3 DEF Job
    <2>2. Bisect
      BY <2>1 DEF Bisect, Report
    <2> QED BY <2>2 DEF WatchdogStep, JobStep, Report
  <1>4. CASE Bisectable /\ c \in (job.good + 1)..FarEnd /\ n = 0
    <2>1. job' = [job EXCEPT !.pc = "file", !.culprit = c]
      BY <1>1, <1>2, <1>4 DEF Job
    <2>2. Bisect
      BY <1>4, <2>1 DEF Bisect, Report
    <2> QED BY <2>2 DEF WatchdogStep, JobStep, Report
  <1>5. CASE Bisectable /\ n \in (job.good + 1)..FarEnd /\ c = 0
    <2>1. job' = [job EXCEPT !.pc = "file", !.narrowed = n]
      BY <1>1, <1>2, <1>5 DEF Job
    <2>2. Bisect
      BY <1>5, <2>1 DEF Bisect, Report
    <2> QED BY <2>2 DEF WatchdogStep, JobStep, Report
  <1> QED BY <1>3, <1>4, <1>5

LEMMA JobEnds ==
    ASSUME IInv
    PROVE  job.good \in 0..MaxCommit /\ job.commit \in 0..MaxCommit
  <1>1. job \in Job
    BY DEF IInv, TypeInv, TypeOK
  <1> QED BY <1>1 DEF Job

(* The search starts between the ends of its job. *)
LEMMA StartStep ==
    ASSUME SearchInv, IInv, StartSearch
    PROVE  SearchInv' /\ UNCHANGED allVars
  <1>1. job.good \in 0..MaxCommit /\ job.commit \in 0..MaxCommit
    BY JobEnds
  <1>2. /\ job' = job /\ truth' = truth /\ outcome' = "running"
        /\ lo' = job.good /\ hi' = job.commit /\ UNCHANGED allVars
        /\ job.pc = "bisect" /\ Bisectable
    BY DEF StartSearch, allVars, vars
  <1>3. class' \in Answers(job.type, job.tests, job.good, job.commit)
    BY <1>2 DEF StartSearch
  <1>4. SearchTypes'
    <2>1. class' \in [Commit -> FB!Classes]
      BY <1>3 DEF Answers
    <2>2. upstream' \in Nat
      BY <1>2 DEF SearchInv, SearchTypes, allVars, syncVars
    <2> QED BY <1>1, <1>2, <2>1, <2>2 DEF SearchTypes, FB!Ends, FB!Classes
  <1>5. SearchBelongsToJob'
    BY <1>1, <1>2 DEF SearchBelongsToJob, Bisectable
  <1>6. class' \in AnswersOfJob
    BY <1>1, <1>3, RegressionAssumption DEF AnswersOfJob
  <1> QED BY <1>2, <1>4, <1>5, <1>6, AnswersStay DEF SearchInv

(* A search of a range of one commit starts below the head of upstream.     *)
LEMMA StartAtHeadStep ==
    ASSUME SearchInv, MonitorInv, IInv, StartSearchAtHead
    PROVE  /\ SearchInv' /\ UNCHANGED allVars
           /\ lo' = job.good /\ (hi' = job.commit \/ class'[hi'] = "bad")
  <1>1. /\ job.good \in 0..MaxCommit /\ job.commit \in 0..MaxCommit
        /\ upstream \in Commit /\ upstream + 1 \in Nat
    BY JobEnds, RegressionAssumption DEF MonitorInv, SyncInv, Commit
  <1>2. /\ job' = job /\ truth' = truth /\ upstream' = upstream /\ UNCHANGED allVars
        /\ job.pc = "bisect" /\ Bisectable /\ job.good + 1 = job.commit
        /\ outcome' = "running" /\ lo' = job.good
        /\ hi' = IF class'[upstream] = "bad" THEN upstream ELSE job.commit
    BY DEF StartSearchAtHead, allVars, vars, syncVars
  <1>3. class' \in Answers(job.type, job.tests, job.good, upstream + 1)
    BY <1>2 DEF StartSearchAtHead
  <1>4. class'[upstream] = "bad" => job.good < upstream
    BY <1>1, <1>3 DEF Answers
  <1>5. SearchTypes'
    <2>1. class' \in [Commit -> FB!Classes]
      BY <1>3 DEF Answers
    <2>2. hi' \in 0..MaxCommit /\ upstream' \in Nat
      BY <1>1, <1>2, RegressionAssumption DEF Commit
    <2> QED BY <1>1, <1>2, <2>1, <2>2 DEF SearchTypes, FB!Ends, FB!Classes
  <1>6. SearchBelongsToJob'
    <2>1. job.good < hi' /\ (hi' = job.commit \/ hi' = upstream)
      BY <1>1, <1>2, <1>4
    <2>2. Bisectable'
      BY <1>2 DEF Bisectable
    <2> QED BY <1>1, <1>2, <2>1, <2>2, RegressionAssumption DEF SearchBelongsToJob, Commit
  <1>7. class' \in AnswersOfJob
    BY <1>1, <1>3 DEF AnswersOfJob
  <1> QED BY <1>2, <1>5, <1>6, <1>7, AnswersStay DEF SearchInv

(* The predicate has an answer for every commit it is asked about, if only  *)
(* a wrong one.                                                             *)
LEMMA NeverUnsure ==
    ASSUME class \in AnswersOfJob, NEW c \in Commit PROVE class[c] # "unsure"
  <1>1. "unsure" \notin ClassesOf(job.type, job.tests, c)
    BY DEF ClassesOf
  <1>2. "unsure" \notin FaultyClasses(job.type, c)
    BY DEF FaultyClasses
  <1> QED BY <1>1, <1>2 DEF AnswersOfJob, Answers

(* Its ends only draw together. *)
LEMMA MoveStep ==
    ASSUME SearchInv, IInv, SearchMoves
    PROVE  /\ SearchInv' /\ UNCHANGED allVars /\ UNCHANGED <<class, outcome>>
           /\ outcome = "running"
           /\ \/ lo' = lo /\ class[hi'] = "bad"
              \/ hi' = hi /\ class[lo'] = "good" /\ lo < lo'
  <1>1. /\ UNCHANGED allVars /\ UNCHANGED <<class, outcome>> /\ outcome = "running"
        /\ job' = job /\ truth' = truth
    BY DEF SearchMoves, FB!RaiseGood, FB!LowerBad, allVars, vars
  <1>2. /\ job.pc = "bisect" /\ Bisectable /\ lo \in 0..MaxCommit /\ hi \in 0..MaxCommit
        /\ job.good <= lo /\ lo < hi
        /\ hi <= job.commit \/ (job.good + 1 = job.commit /\ hi <= upstream)
        /\ upstream \in Nat /\ upstream' = upstream
    BY <1>1 DEF SearchInv, SearchTypes, SearchBelongsToJob, allVars, syncVars
  <1>3. \E c \in (lo + 1)..(hi - 1) :
          \/ lo' = lo /\ hi' = c /\ class[c] = "bad"
          \/ hi' = hi /\ lo' = c /\ class[c] = "good"
    <2>1. \E c \in (lo + 1)..(hi - 1) :
            \/ lo' = lo /\ hi' = c /\ class[c] \in {"bad", "unsure"}
            \/ hi' = hi /\ lo' = c /\ class[c] \in {"good", "unsure"}
      BY DEF SearchMoves, FB!RaiseGood, FB!LowerBad
    <2>2. \A c \in (lo + 1)..(hi - 1) : c \in Commit
      BY <1>2, RegressionAssumption DEF Commit
    <2> QED BY <1>1, <2>1, <2>2, NeverUnsure DEF SearchInv
  <1>4. /\ lo' \in 0..MaxCommit /\ hi' \in 0..MaxCommit
        /\ lo <= lo' /\ lo' < hi' /\ hi' <= hi
        /\ \/ lo' = lo /\ class[hi'] = "bad"
           \/ hi' = hi /\ class[lo'] = "good" /\ lo < lo'
    BY <1>2, <1>3, RegressionAssumption
  <1>5. /\ job.good <= lo'
        /\ hi' <= job.commit \/ (job.good + 1 = job.commit /\ hi' <= upstream)
    BY <1>2, <1>4, JobEnds, RegressionAssumption
  <1>6. SearchTypes' /\ SearchBelongsToJob'
    BY <1>1, <1>2, <1>4, <1>5
       DEF SearchInv, SearchTypes, SearchBelongsToJob, Bisectable, FB!Classes, FB!Ends
  <1>7. class' \in AnswersOfJob'
    BY <1>1, AnswersStay DEF SearchInv
  <1> QED BY <1>1, <1>4, <1>6, <1>7 DEF SearchInv

(* Named, given up or never begun: the Bisect step, and no search is left.  *)
LEMMA OverStep ==
    ASSUME SearchInv, IInv, SearchNames \/ SearchGivesUp \/ HeadTakesTooLong \/ NoSearch
    PROVE  SearchInv' /\ WatchdogStep
  <1>1. job.pc = "bisect"
    BY DEF SearchInv, SearchBelongsToJob, SearchNames, SearchGivesUp, HeadTakesTooLong,
           NoSearch, FB!Name, FB!GiveUp
  <1>2. outcome' # "running" /\ UNCHANGED <<class, lo, hi, upstream>>
        /\ outcome' \in {"idle", "running"} \cup FB!Ends
    BY DEF SearchNames, SearchGivesUp, HeadTakesTooLong, NoSearch, FB!Name, FB!GiveUp, FB!Ends,
           searchVars, Report, syncVars, SearchInv, SearchTypes
  <1>3. SearchInv'
    BY <1>2 DEF SearchInv, SearchTypes, SearchBelongsToJob, FB!Classes, FB!Ends
  <1>4. ASSUME outcome = "running"
        PROVE  Bisectable /\ hi \in (job.good + 1)..FarEnd
    <2>1. /\ Bisectable /\ job.good <= lo /\ lo < hi
          /\ hi <= job.commit \/ job.good + 1 = job.commit
          /\ lo \in 0..MaxCommit /\ hi \in 0..MaxCommit
      BY <1>4 DEF SearchInv, SearchTypes, SearchBelongsToJob
    <2> QED BY <2>1, JobEnds, RegressionAssumption DEF FarEnd
  <1>5. CASE SearchNames
    <2>1. outcome = "running" /\ Report(hi, 0)
      BY <1>5 DEF SearchNames, FB!Name
    <2> QED BY <1>1, <1>3, <1>4, <2>1, ReportIsBisect
  <1>6. CASE SearchGivesUp
    <2>1. outcome = "running" /\ (Report(0, hi) \/ Report(0, 0))
      BY <1>6 DEF SearchGivesUp, FB!GiveUp
    <2> QED BY <1>1, <1>3, <1>4, <2>1, ReportIsBisect
  <1>7. CASE NoSearch
    <2>1. Report(0, 0)
      BY <1>7 DEF NoSearch
    <2> QED BY <1>1, <1>3, <2>1, ReportIsBisect
  <1>8. CASE HeadTakesTooLong
    <2>1. /\ Bisectable /\ job.good + 1 = job.commit /\ Report(0, job.commit)
      BY <1>8 DEF HeadTakesTooLong
    <2>2. job.commit \in (job.good + 1)..FarEnd
      BY <2>1, JobEnds, RegressionAssumption DEF FarEnd
    <2> QED BY <1>1, <1>3, <2>1, <2>2, ReportIsBisect
  <1> QED BY <1>5, <1>6, <1>7, <1>8

(* The rest of the loop leaves a search under way alone, or ends it.        *)
LEMMA RestStep ==
    ASSUME SearchInv, IInv, OtherJobStep \/ Around \/ Outside
    PROVE  SearchInv' /\ MNext
  <1>1. MNext
    BY DEF OtherJobStep, Around, Outside, MNext, WatchdogStep, JobStep
  <1>2. truth' = truth /\ upstream' \in Nat /\ upstream <= upstream'
    BY TruthStays, UpstreamGrows DEF BNext, SearchInv, SearchTypes
  <1>3. CASE OtherJobStep
    <2>1. job.pc # "bisect" /\ UNCHANGED searchVars
      BY <1>3 DEF OtherJobStep, DetectSuccess, DetectFailure, DetectCancelled, AutoClose,
                  Dedup, Bound, File
    <2> QED BY <1>1, <1>2, <2>1 DEF SearchInv, SearchTypes, SearchBelongsToJob, searchVars
  <1>4. CASE JobDies
    <2>1. outcome' # "running" /\ UNCHANGED <<class, lo, hi>>
          /\ outcome' \in {"idle", "running"} \cup FB!Ends
      BY <1>4 DEF JobDies, SearchInv, SearchTypes, FB!Ends
    <2> QED BY <1>1, <1>2, <2>1 DEF SearchInv, SearchTypes, SearchBelongsToJob
  <1>5. CASE Around \/ AroundJob
    <2>1. UNCHANGED searchVars
      BY <1>5 DEF Around, AroundJob
    <2>2. CASE outcome = "running"
      <3>1. job.pc # "idle"
        BY <2>2 DEF SearchInv, SearchBelongsToJob
      <3>2. job' = job
        BY <1>5, <3>1, JobWaits DEF AroundJob
      <3> QED BY <1>1, <1>2, <2>1, <3>2, SearchKept
    <2>3. CASE outcome # "running"
      BY <1>1, <1>2, <2>1, <2>3 DEF SearchInv, SearchTypes, SearchBelongsToJob, searchVars
    <2> QED BY <2>2, <2>3
  <1> QED BY <1>3, <1>4, <1>5, OutsideIs

(* Every step keeps the search with its job, and is a step of Monitor.      *)
LEMMA SearchStep ==
    SearchInv /\ MonitorInv /\ IInv /\ [BNext]_bVars => SearchInv' /\ [MNext]_allVars
  <1> SUFFICES ASSUME SearchInv, MonitorInv, IInv, [BNext]_bVars
               PROVE  SearchInv' /\ [MNext]_allVars
    OBVIOUS
  <1>1. CASE UNCHANGED bVars
    <2>1. UNCHANGED <<job, truth, searchVars>> /\ UNCHANGED allVars
      BY <1>1 DEF bVars, allVars, vars
    <2> QED BY <2>1, SearchKept, UpstreamGrows DEF SearchInv, SearchTypes
  <1>2. CASE StartSearch \/ StartSearchAtHead \/ SearchMoves
    BY <1>2, StartStep, StartAtHeadStep, MoveStep
  <1>3. CASE SearchNames \/ SearchGivesUp \/ HeadTakesTooLong \/ NoSearch
    BY <1>3, OverStep DEF MNext
  <1>4. CASE OtherJobStep \/ Around \/ Outside
    BY <1>4, RestStep
  <1> QED BY <1>1, <1>2, <1>3, <1>4 DEF BNext

LEMMA SearchInit == BInit => SearchInv
  <1> SUFFICES ASSUME BInit PROVE SearchInv
    OBVIOUS
  <1>1. class \in [Commit -> FB!Classes] /\ lo = 0 /\ hi = 0 /\ outcome = "idle"
        /\ upstream \in Nat
    BY DEF BInit, MInit, FB!Classes
  <1> QED BY <1>1, RegressionAssumption DEF SearchInv, SearchTypes, SearchBelongsToJob

(* A search that takes hours, with everything that goes on around it, is    *)
(* the one step that ShRegression takes for a bisect: what is proved of     *)
(* Monitor, and through it of the watchdog and the queue, holds with the    *)
(* search in the place of that step.                                        *)
THEOREM BisectingRefinesMonitor == BSpec => RefinesMonitor
  <1>1. BInit => MInit /\ IInv /\ SearchInv
    BY InitIInv, SearchInit DEF BInit, MInit
  <1>2. SearchInv /\ MonitorInv /\ IInv /\ [BNext]_bVars =>
            SearchInv' /\ MonitorInv' /\ IInv' /\ [MNext]_allVars
    BY SearchStep, MonitorStep, StepIInv
  <1>3. BInit => MonitorInv
    BY MonitorInit DEF BInit
  <1> QED BY <1>1, <1>2, <1>3, PTL DEF BSpec, RefinesMonitor, MSpec

(* No search outlives its job or leaves the range of the job that waits for *)
(* it, whichever jobs die, are re-run or dispatched in between.             *)
THEOREM SearchStaysWithJob == BSpec => []SearchBelongsToJob
  <1>1. BInit => MonitorInv /\ IInv /\ SearchInv
    BY InitIInv, SearchInit, MonitorInit DEF BInit, MInit
  <1>2. SearchInv /\ MonitorInv /\ IInv /\ [BNext]_bVars => SearchInv' /\ MonitorInv' /\ IInv'
    BY SearchStep, MonitorStep, StepIInv
  <1>3. SearchInv => SearchBelongsToJob
    BY DEF SearchInv
  <1> QED BY <1>1, <1>2, <1>3, PTL DEF BSpec

(* The search and the loop around it keep their types.                      *)
THEOREM BisectingTypeOK == BSpec => []BTypeOK
  <1>1. BInit => MonitorInv /\ IInv /\ SearchInv
    BY InitIInv, SearchInit, MonitorInit DEF BInit, MInit
  <1>2. SearchInv /\ MonitorInv /\ IInv /\ [BNext]_bVars => SearchInv' /\ MonitorInv' /\ IInv'
    BY SearchStep, MonitorStep, StepIInv
  <1>3. MTypeOK /\ SearchInv => BTypeOK
    BY DEF SearchInv, SearchTypes, BTypeOK
  <1> QED BY <1>1, <1>2, <1>3, BisectingRefinesMonitor, MonitorTypeOK, PTL
          DEF BSpec, RefinesMonitor

-----------------------------------------------------------------------------
(* What the search knows *)

(* The ends a search has moved to are on the side they should be; those it  *)
(* started with it never tests.                                             *)
SearchFits ==
    outcome = "running" =>
        /\ hi # job.commit => class[hi] = "bad"
        /\ lo # job.good => class[lo] = "good"

(* A job with a culprit or a narrowed end to file has the right one.        *)
JobTells == job.pc = "file" => BroughtIn(job) /\ NarrowedShows(job)

IssueTells(x) == BroughtIn(x) /\ EndsDiffer(x) /\ NarrowedShows(x)
IssuesTell == \A k \in DOMAIN issues : IssueTells(issues[k])

TellInv == SearchFits /\ JobTells /\ IssuesTell

(* What an answer says of the commit, where the truth is known and nothing  *)
(* goes wrong in the predicate.                                             *)
LEMMA AnswerTells ==
    ASSUME PredicateFaults = {}, job.type \in Judged, class \in AnswersOfJob, NEW c \in Commit
    PROVE  /\ class[c] = "bad" => Shows(job.type, job.tests, c)
           /\ class[c] = "good" => truth[c].builds /\ ~ Shows(job.type, job.tests, c)
  <1>1. FaultyClasses(job.type, c) = {}
    BY DEF FaultyClasses
  <1>2. class[c] = "untestable" \/ class[c] \in ClassesOf(job.type, job.tests, c)
    BY <1>1 DEF AnswersOfJob, Answers
  <1>3. CASE job.type = "build"
    BY <1>2, <1>3 DEF ClassesOf, Shows
  <1>4. CASE job.type \in TestTypes
    BY <1>2, <1>4 DEF ClassesOf, TestTypes
  <1> QED BY <1>3, <1>4 DEF Judged

(* The commits a job knows of. *)
LEMMA Known ==
    ASSUME LoopInv
    PROVE  /\ job.tests \subseteq DjTests \cup SimTests
           /\ job.good \in 0..MaxCommit /\ job.commit \in 0..MaxCommit
           /\ job.commit # 0 => job.commit \in Commit
           /\ job.pc = "bisect" => job.goodRun # 0
  <1>1. job \in Job
    BY DEF LoopInv, IInv, TypeInv, TypeOK
  <1>2. job.commit \in 0..MaxCommit /\ job.good \in 0..MaxCommit
        /\ job.tests \subseteq DjTests \cup SimTests
    BY <1>1 DEF Job
  <1>3. job.pc = "bisect" => job.goodRun # 0
    BY DEF LoopInv, TruthInv, BoundGreen
  <1> QED BY <1>2, <1>3, RegressionAssumption DEF Commit

(* The bad end of a bisect shows what the predicate looks for, though no    *)
(* predicate was ever run on it.                                            *)
LEMMA BadEndShows ==
    ASSUME "hide" \notin Faults, LoopInv, job.pc \in {"bisect", "file"},
           job.goodRun # 0, job.commit # 0, job.type \in Judged
    PROVE  /\ Shows(job.type, job.tests, job.commit)
           /\ EndsDiffer([type |-> job.type, tests |-> job.tests, goodRun |-> job.goodRun,
                          good |-> job.good, bad |-> job.commit])
  <1>1. /\ truth[job.good].builds
        /\ job.type = "build" => ~ truth[job.commit].builds
        /\ job.type \in TestTypes => /\ job.tests # {}
                                     /\ job.tests \subseteq FailsAt(job.type, job.commit)
                                     /\ job.tests \cap FailsAt(job.type, job.good) = {}
    BY EndsSeen DEF LoopInv, FailsAt, TestTypes
  <1>2. EndsDiffer([type |-> job.type, tests |-> job.tests, goodRun |-> job.goodRun,
                    good |-> job.good, bad |-> job.commit])
    BY <1>1 DEF EndsDiffer
  <1>3. CASE job.type = "build"
    BY <1>1, <1>2, <1>3 DEF Shows
  <1>4. CASE job.type \in TestTypes
    <2>1. PICK t \in job.tests : t \in FailsAt(job.type, job.commit)
      BY <1>1, <1>4
    <2>2. t \in Matched[t]
      BY <2>1, Known, BisectingAssumption
    <2>3. Shows(job.type, job.tests, job.commit)
      BY <1>4, <2>1, <2>2 DEF Shows, TestTypes
    <2> QED BY <1>2, <2>3
  <1> QED BY <1>3, <1>4 DEF Judged

-----------------------------------------------------------------------------
(* Each step *)

LEMMA FitsStart ==
    ASSUME SearchInv, MonitorInv, IInv, StartSearch \/ StartSearchAtHead
    PROVE  SearchFits'
  <1>1. CASE StartSearch
    BY <1>1 DEF StartSearch, allVars, vars, SearchFits
  <1>2. CASE StartSearchAtHead
    <2>1. job' = job
      BY <1>2 DEF StartSearchAtHead, allVars, vars
    <2>2. lo' = job.good /\ (hi' = job.commit \/ class'[hi'] = "bad")
      BY <1>2, StartAtHeadStep
    <2> QED BY <2>1, <2>2 DEF SearchFits
  <1> QED BY <1>1, <1>2

LEMMA FitsMove ==
    ASSUME SearchInv, IInv, SearchFits, SearchMoves
    PROVE  SearchFits'
  <1>1. /\ UNCHANGED allVars /\ UNCHANGED <<class, outcome>> /\ outcome = "running"
        /\ \/ lo' = lo /\ class[hi'] = "bad"
           \/ hi' = hi /\ class[lo'] = "good"
    BY MoveStep
  <1>2. job' = job
    BY <1>1 DEF allVars, vars
  <1> QED BY <1>1, <1>2 DEF SearchFits

LEMMA FitsSame ==
    ASSUME SearchFits, UNCHANGED <<job, searchVars>>
    PROVE  SearchFits'
  BY DEF SearchFits, searchVars

(* What the issue will say is settled when the search ends: the culprit is  *)
(* its bad end and the commit before it its good end.                       *)
LEMMA NamedTells ==
    ASSUME "hide" \notin Faults, PredicateFaults = {},
           LoopInv, SearchInv, SearchFits, SearchNames
    PROVE  JobTells'
  <1>1. /\ outcome = "running" /\ hi = lo + 1 /\ truth' = truth
        /\ job' = [job EXCEPT !.pc = "file", !.culprit = hi, !.narrowed = 0]
    BY DEF SearchNames, FB!Name, Report
  <1>2. /\ job.pc = "bisect" /\ Bisectable
        /\ job.good <= lo /\ lo < hi
        /\ lo \in 0..MaxCommit /\ hi \in 0..MaxCommit
        /\ class \in AnswersOfJob
    BY <1>1 DEF SearchInv, SearchTypes, SearchBelongsToJob
  <1>3. /\ job'.type = job.type /\ job'.tests = job.tests /\ job'.good = job.good
        /\ job'.culprit = hi /\ job'.narrowed = 0
    <2>1. job \in Job
      BY DEF LoopInv, IInv, TypeInv, TypeOK
    <2> QED BY <1>1, <2>1 DEF Job
  <1> SUFFICES ASSUME job.type \in Judged
               PROVE  /\ Shows(job.type, job.tests, hi)
                      /\ truth[lo].builds
                      /\ ~ Shows(job.type, job.tests, job.good) =>
                           ~ Shows(job.type, job.tests, lo)
    <2>1. hi - 1 = lo
      BY <1>1, <1>2
    <2> QED BY <1>1, <1>3, <2>1 DEF JobTells, BroughtIn, NarrowedShows, Shows, FailsAt
  <1>4. hi \in Commit /\ job.goodRun # 0 /\ job.commit # 0
    BY <1>2, Known, RegressionAssumption DEF Commit, Bisectable
  <1>5. Shows(job.type, job.tests, hi)
    <2>1. CASE hi = job.commit
      BY <1>2, <1>4, <2>1, BadEndShows
    <2>2. CASE hi # job.commit
      BY <1>1, <1>2, <1>4, <2>2, AnswerTells DEF SearchFits
    <2> QED BY <2>1, <2>2
  <1>6. CASE lo = job.good
    <2>1. truth[job.good].builds
      BY <1>2, <1>4, EndsSeen DEF LoopInv
    <2> QED BY <1>5, <1>6, <2>1
  <1>7. CASE lo # job.good
    <2>1. lo \in Commit
      BY <1>2, <1>7, Known, RegressionAssumption DEF Commit
    <2>2. class[lo] = "good"
      BY <1>1, <1>7 DEF SearchFits
    <2> QED BY <1>2, <1>5, <2>1, <2>2, AnswerTells
  <1> QED BY <1>6, <1>7

LEMMA GivenUpTells ==
    ASSUME "hide" \notin Faults, PredicateFaults = {},
           LoopInv, SearchInv, SearchFits, SearchGivesUp \/ HeadTakesTooLong \/ NoSearch
    PROVE  JobTells'
  <1>1. job \in Job
    BY DEF LoopInv, IInv, TypeInv, TypeOK
  <1>2. PICK n : /\ Report(0, n)
                 /\ n # 0 => \/ n = hi /\ outcome = "running"
                             \/ n = job.commit /\ job.pc = "bisect" /\ Bisectable
    BY DEF SearchGivesUp, HeadTakesTooLong, NoSearch, FB!GiveUp
  <1>3. /\ job'.type = job.type /\ job'.tests = job.tests
        /\ job'.culprit = 0 /\ job'.narrowed = n /\ truth' = truth
    BY <1>1, <1>2 DEF Report, Job
  <1>4. BroughtIn(job)'
    BY <1>3 DEF BroughtIn
  <1>5. ASSUME n # 0, job.type \in Judged PROVE Shows(job.type, job.tests, n)
    <2>1. /\ job.pc = "bisect" /\ Bisectable
          /\ n # job.commit => /\ n = hi /\ outcome = "running" /\ class \in AnswersOfJob
                               /\ hi \in 0..MaxCommit
      BY <1>2, <1>5 DEF SearchInv, SearchTypes, SearchBelongsToJob
    <2>2. job.goodRun # 0 /\ job.commit # 0
      BY <2>1, Known DEF Bisectable
    <2>3. CASE n = job.commit
      BY <1>5, <2>1, <2>2, <2>3, BadEndShows
    <2>4. CASE n # job.commit
      <3>1. n \in Commit /\ class[n] = "bad"
        BY <1>5, <2>1, <2>4, RegressionAssumption DEF Commit, SearchFits
      <3> QED BY <1>5, <2>1, <2>4, <3>1, AnswerTells
    <2> QED BY <2>3, <2>4
  <1>6. NarrowedShows(job)'
    BY <1>2, <1>3, <1>5 DEF NarrowedShows, Shows, FailsAt
  <1> QED BY <1>4, <1>6 DEF JobTells

LEMMA JobTellsSame ==
    ASSUME JobTells, UNCHANGED <<job, truth>>
    PROVE  JobTells'
  BY DEF JobTells, BroughtIn, NarrowedShows, Shows, FailsAt

(* A job that has not bisected has nothing to tell yet. *)
LEMMA OtherTells ==
    ASSUME LoopInv, OtherJobStep \/ JobDies
    PROVE  JobTells'
  <1>1. IInv /\ TypeInv
    BY DEF LoopInv, IInv
  <1>2. CASE \E v \in Verdicts : FinishJob(v)
    <2>1. job'.pc # "file"
      BY <1>1, <1>2 DEF FinishJob, IInv, JobsInv, PendFresh
    <2> QED BY <2>1 DEF JobTells
  <1>3. CASE DetectSuccess \/ DetectFailure
    <2>1. job'.pc \in {"dedup", "close"}
      <3>1. CASE DetectSuccess
        BY <1>1, <3>1, DetectSuccessEffect
      <3>2. CASE DetectFailure
        BY <1>1, <3>2 DEF DetectFailure, AfterClassify, TypeInv, TypeOK, Job
      <3> QED BY <1>3, <3>1, <3>2
    <2> QED BY <2>1 DEF JobTells
  <1>4. CASE Dedup
    <2>1. FinishJob("dedup") \/ job'.pc = "bound"
      BY <1>1, <1>4, DedupEffect
    <2>2. "dedup" \in Verdicts
      BY DEF Verdicts
    <2> QED BY <1>2, <2>1, <2>2 DEF JobTells
  <1>5. CASE Bound
    <2>1. job'.culprit = 0 /\ job'.narrowed = 0
      BY <1>1, <1>5, BoundEffect DEF Bound, IInv, JobsInv, JobRange
    <2> QED BY <2>1 DEF JobTells, BroughtIn, NarrowedShows
  <1>6. CASE DetectCancelled \/ AutoClose \/ File \/ JobDies
    <2>1. \E v \in Verdicts : FinishJob(v)
      <3>1. CASE DetectCancelled \/ JobDies
        BY <1>1, <3>1, EndEffect DEF JobDies
      <3>2. CASE AutoClose
        BY <1>1, <3>2, AutoCloseEffect
      <3>3. CASE File
        BY <1>1, <3>3, FileEffect DEF Verdicts
      <3> QED BY <1>6, <3>1, <3>2, <3>3
    <2> QED BY <1>2, <2>1
  <1> QED BY <1>3, <1>4, <1>5, <1>6 DEF OtherJobStep

-----------------------------------------------------------------------------
(* The issues *)

(* What an issue tells about commits is there as long as it is.             *)
SameTale(x, y) == /\ x.type = y.type /\ x.tests = y.tests /\ x.goodRun = y.goodRun
                  /\ x.good = y.good /\ x.bad = y.bad
                  /\ x.culprit = y.culprit /\ x.narrowed = y.narrowed

LEMMA TaleKept ==
    ASSUME truth' = truth, NEW k \in DOMAIN issues', NEW y, IssueTells(y),
           SameTale(issues'[k], y)
    PROVE  IssueTells(issues[k])'
  <1>1. PICK x : x = issues'[k]
    OBVIOUS
  <1>2. SameTale(x, y)
    BY <1>1
  <1>3. IssueTells(x)
    BY <1>2 DEF IssueTells, BroughtIn, EndsDiffer, NarrowedShows, SameTale
  <1>4. IssueTells(x)'
    BY <1>3 DEF IssueTells, BroughtIn, EndsDiffer, NarrowedShows, Shows, FailsAt
  <1> QED BY <1>1, <1>4 DEF IssueTells, BroughtIn, EndsDiffer, NarrowedShows, Shows, FailsAt

LEMMA TalesKept ==
    ASSUME IssuesTell, truth' = truth, DOMAIN issues' \subseteq DOMAIN issues,
           \A k \in DOMAIN issues' : SameTale(issues'[k], issues[k])
    PROVE  IssuesTell'
  <1> SUFFICES ASSUME NEW k \in DOMAIN issues' PROVE IssueTells(issues[k])'
    BY DEF IssuesTell
  <1>1. PICK y : y = issues[k] /\ IssueTells(y)
    BY DEF IssuesTell
  <1> QED BY <1>1, TaleKept

LEMMA TalesSame ==
    ASSUME IssuesTell, truth' = truth, issues' = issues
    PROVE  IssuesTell'
  BY TalesKept DEF SameTale

(* Closing an issue changes nothing of its tale. *)
LEMMA TalesClosed ==
    ASSUME IInv, IssuesTell, truth' = truth, AutoClose \/ HumanClose
    PROVE  IssuesTell'
  <1>1. CASE issues' = issues
    BY <1>1, TalesSame
  <1>2. CASE \E k \in DOMAIN issues : \E s, a :
               issues' = [issues EXCEPT ![k].state = s, ![k].closedAt = a]
    <2>1. PICK k \in DOMAIN issues : \E s, a :
             issues' = [issues EXCEPT ![k].state = s, ![k].closedAt = a]
      BY <1>2
    <2>2. ASSUME NEW m \in DOMAIN issues PROVE SameTale(issues'[m], issues[m])
      BY <2>1, <2>2, IssueType DEF IInv, SameTale, Issue
    <2> QED BY <2>1, <2>2, TalesKept
  <1>3. CASE \E k \in DOMAIN issues : issues' = [issues EXCEPT ![k].state = "human"]
    <2>1. PICK k \in DOMAIN issues : issues' = [issues EXCEPT ![k].state = "human"]
      BY <1>3
    <2>2. ASSUME NEW m \in DOMAIN issues PROVE SameTale(issues'[m], issues[m])
      BY <2>1, <2>2, IssueType DEF IInv, SameTale, Issue
    <2> QED BY <2>1, <2>2, TalesKept
  <1> QED BY <1>1, <1>2, <1>3 DEF AutoClose, HumanClose, NewestOpen, OpenIssues

(* The issue is filed with what the job has found out. *)
LEMMA TalesFiled ==
    ASSUME "hide" \notin Faults, LoopInv, JobTells, IssuesTell, truth' = truth, File
    PROVE  IssuesTell'
  <1>1. PICK x : x = [type |-> job.type, tests |-> job.tests, run |-> job.run,
                      goodRun |-> job.goodRun, good |-> job.good, bad |-> job.commit,
                      culprit |-> job.culprit, narrowed |-> job.narrowed,
                      state |-> "open", closedAt |-> 0]
    OBVIOUS
  <1>2. job.pc = "file" /\ issues' = Append(issues, x)
    BY <1>1 DEF File
  <1>3. BroughtIn(x) /\ NarrowedShows(x)
    BY <1>1, <1>2 DEF JobTells, BroughtIn, NarrowedShows
  <1>4. EndsDiffer(x)
    <2> SUFFICES ASSUME x.goodRun # 0, x.bad # 0, x.type \in Judged PROVE EndsDiffer(x)
      BY DEF EndsDiffer
    <2>1. EndsDiffer([type |-> job.type, tests |-> job.tests, goodRun |-> job.goodRun,
                      good |-> job.good, bad |-> job.commit])
      BY <1>1, <1>2, BadEndShows
    <2> QED BY <1>1, <2>1 DEF EndsDiffer
  <1>5. IssueTells(x)
    BY <1>3, <1>4 DEF IssueTells
  <1> SUFFICES ASSUME NEW k \in DOMAIN issues' PROVE IssueTells(issues[k])'
    BY DEF IssuesTell
  <1>6. issues \in Seq(Issue) /\ DOMAIN issues = 1..Len(issues) /\ Len(issues) \in Nat
    BY LenProperties DEF LoopInv, IInv, TypeInv, TypeOK
  <1>7. \/ k \in DOMAIN issues /\ issues'[k] = issues[k]
        \/ issues'[k] = x
    BY <1>2, <1>6
  <1>8. CASE k \in DOMAIN issues /\ issues'[k] = issues[k]
    <2>1. PICK y : y = issues[k] /\ IssueTells(y)
      BY <1>8 DEF IssuesTell
    <2>2. SameTale(issues'[k], y)
      BY <1>8, <2>1 DEF SameTale
    <2> QED BY <2>1, <2>2, TaleKept
  <1>9. CASE issues'[k] = x
    <2>1. SameTale(issues'[k], x)
      BY <1>9 DEF SameTale
    <2> QED BY <1>5, <2>1, TaleKept
  <1> QED BY <1>7, <1>8, <1>9

(* Only a closing or a filing touches the issues. *)
LEMMA TalesStep ==
    ASSUME "hide" \notin Faults, LoopInv, JobTells, IssuesTell, [BNext]_bVars
    PROVE  IssuesTell'
  <1>1. truth' = truth
    BY TruthStays
  <1>2. CASE issues' = issues
    BY <1>1, <1>2, TalesSame
  <1>3. CASE AutoClose \/ HumanClose
    BY <1>1, <1>3, TalesClosed DEF LoopInv
  <1>4. CASE File
    BY <1>1, <1>4, TalesFiled
  <1>5. CASE UNCHANGED bVars \/ StartSearch \/ StartSearchAtHead \/ SearchMoves
    BY <1>2, <1>5 DEF bVars, allVars, vars, StartSearch, StartSearchAtHead, SearchMoves
  <1>6. CASE SearchNames \/ SearchGivesUp \/ HeadTakesTooLong \/ NoSearch
    BY <1>2, <1>6 DEF SearchNames, SearchGivesUp, HeadTakesTooLong, NoSearch, Report
  <1>7. CASE OtherJobStep
    BY <1>2, <1>3, <1>4, <1>7
       DEF OtherJobStep, DetectSuccess, DetectFailure, DetectCancelled, Dedup, Bound
  <1>8. CASE Around
    BY <1>2, <1>8 DEF Around, UpstreamCommit, SyncCheck, OtherPush, SyncPush, PushRejected,
                      Retrigger, TestRun, ConcludeRun, BuildDone, Conclude, Queue, vars
  <1>9. CASE Outside
    BY <1>2, <1>3, <1>9 DEF Outside, Interference, Expire, Dispatch, Abort
  <1> QED BY <1>5, <1>6, <1>7, <1>8, <1>9 DEF BNext

(* TellInv is inductive, next to the invariants of the loop and the search. *)
LEMMA TellStep ==
    ASSUME "hide" \notin Faults, PredicateFaults = {}
    PROVE  LoopInv /\ SearchInv /\ TellInv /\ [BNext]_bVars => TellInv'
  <1> SUFFICES ASSUME LoopInv, SearchInv, TellInv, [BNext]_bVars
               PROVE  SearchFits' /\ JobTells'
    BY TalesStep DEF TellInv
  <1>1. IInv /\ truth' = truth
    BY TruthStays DEF LoopInv
  <1>2. CASE job' = job /\ UNCHANGED searchVars
    BY <1>1, <1>2, FitsSame, JobTellsSame DEF TellInv
  <1>3. CASE StartSearch \/ StartSearchAtHead
    <2>1. job' = job
      BY <1>3 DEF StartSearch, StartSearchAtHead, allVars, vars
    <2> QED BY <1>1, <1>3, <2>1, FitsStart, JobTellsSame DEF TellInv, LoopInv
  <1>4. CASE SearchMoves
    <2>1. job' = job
      BY <1>4 DEF SearchMoves, allVars, vars
    <2> QED BY <1>1, <1>4, <2>1, FitsMove, JobTellsSame DEF TellInv
  <1>5. CASE SearchNames \/ SearchGivesUp \/ HeadTakesTooLong \/ NoSearch
    <2>1. outcome' # "running"
      BY <1>5 DEF SearchNames, SearchGivesUp, HeadTakesTooLong, NoSearch, FB!Name, FB!GiveUp,
                  FB!Ends, searchVars
    <2>2. JobTells'
      BY <1>5, NamedTells, GivenUpTells DEF TellInv
    <2> QED BY <2>1, <2>2 DEF SearchFits
  <1>6. CASE OtherJobStep \/ JobDies
    <2>1. outcome' # "running"
      BY <1>6 DEF OtherJobStep, JobDies, DetectSuccess, DetectFailure, DetectCancelled,
                  AutoClose, Dedup, Bound, File, SearchInv, SearchBelongsToJob, searchVars
    <2> QED BY <1>6, <2>1, OtherTells DEF SearchFits
  <1>7. CASE Around \/ AroundJob
    <2>1. UNCHANGED searchVars
      BY <1>7 DEF Around, AroundJob
    <2>2. CASE job' = job
      BY <1>2, <2>1, <2>2
    <2>3. CASE job.pc = "idle" /\ job'.pc = "detect"
      <3>1. outcome' # "running"
        BY <2>1, <2>3 DEF SearchInv, SearchBelongsToJob, searchVars
      <3> QED BY <2>3, <3>1 DEF SearchFits, JobTells
    <2> QED BY <1>7, <2>2, <2>3, JobWaits DEF AroundJob
  <1>8. CASE UNCHANGED bVars
    BY <1>2, <1>8 DEF bVars, allVars, vars
  <1> QED BY <1>1, <1>3, <1>4, <1>5, <1>6, <1>7, <1>8, OutsideIs DEF BNext

LEMMA TellInit == BInit => TellInv
  <1> SUFFICES ASSUME BInit PROVE TellInv
    OBVIOUS
  <1>1. outcome = "idle" /\ DOMAIN issues = {} /\ job.pc = "idle"
    BY NoJobType DEF BInit, MInit, Init
  <1> QED BY <1>1 DEF TellInv, SearchFits, JobTells, IssuesTell

(* What every reachable state of the loop satisfies. *)
WholeInv == LoopInv /\ SearchInv /\ TellInv

LEMMA WholeInvariant == ASSUME "hide" \notin Faults, PredicateFaults = {} PROVE BSpec => []WholeInv
  <1>1. BInit => WholeInv
    BY LoopInit, SearchInit, TellInit DEF BInit, WholeInv
  <1>2. WholeInv /\ [BNext]_bVars => WholeInv'
    BY SearchStep, LoopStep, TellStep DEF WholeInv, LoopInv
  <1> QED BY <1>1, <1>2, PTL DEF BSpec

(* The commit an issue blames for a failed build or failed tests brought    *)
(* the failure in: it shows it, and the one before it builds and does not.  *)
(* No commit was tested with another job's failure in mind, and neither end *)
(* was taken from another run than the one the failure was seen against.    *)
THEOREM BlamedCommitsBroughtItIn ==
    ASSUME "hide" \notin Faults, PredicateFaults = {}
    PROVE  BSpec => []CulpritBroughtItIn
  <1>1. WholeInv => CulpritBroughtItIn
    BY DEF WholeInv, TellInv, IssuesTell, IssueTells, CulpritBroughtItIn
  <1> QED BY <1>1, WholeInvariant, PTL

(* The failure of an issue lies between the two commits it names, and a     *)
(* narrowed end still shows it.                                             *)
THEOREM RangesBoundFailures ==
    ASSUME "hide" \notin Faults, PredicateFaults = {}
    PROVE  BSpec => []RangeBoundsTheFailure
  <1>1. WholeInv => RangeBoundsTheFailure
    BY DEF WholeInv, TellInv, IssuesTell, IssueTells, RangeBoundsTheFailure
  <1> QED BY <1>1, WholeInvariant, PTL

=============================================================================
