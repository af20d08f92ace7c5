---------------------------- MODULE MonitorProofs ----------------------------
(***************************************************************************)
(* The composed system shows the watchdog the history it is specified for, *)
(* and to who only looks at commits it is the queue of SyncCI, for every   *)
(* number of commits, runs and dispatches and every fault.                 *)
(*                                                                         *)
(* The invariant SyncInv says why: the commit sync.yml has on main is at   *)
(* least that of every run queued so far, and the head it is about to push *)
(* is at least the one on main.  Every step of Monitor is then a step of   *)
(* ShRegression, or leaves its variables alone, and the theorems about the *)
(* watchdog hold of the whole.                                             *)
(*                                                                         *)
(* TruthInv adds what the runs that are over tell of their commits: with   *)
(* the evidence of ShRegressionProofs a bisect starts between ends that    *)
(* are what CI saw.  QueueInv says that somebody is always at the head of  *)
(* the queue and that at most one run waits: every step of Monitor is then *)
(* a step of SyncCI or leaves its variables alone.                         *)
(***************************************************************************)
EXTENDS Monitor, ShRegressionProofs

SyncInv ==
    /\ upstream \in Commit /\ lastTested \in Commit /\ seen \in Commit
    /\ lastTested <= upstream
    /\ sync = "push" => lastTested <= seen /\ seen <= upstream
    /\ \A i \in DOMAIN runs : runs[i].commit <= lastTested

MonitorInv == TypeInv /\ SyncInv

(* A step after which the runs are as many and test what they tested; and   *)
(* one that also concludes none and starts none.                            *)
SameCommits ==
    /\ DOMAIN runs' = DOMAIN runs
    /\ \A i \in DOMAIN runs : runs'[i].commit = runs[i].commit

SameQueue ==
    /\ SameCommits
    /\ \A i \in DOMAIN runs : /\ runs'[i].conclusion = runs[i].conclusion
                              /\ runs'[i].result = runs[i].result \/ Active(i)

-----------------------------------------------------------------------------
(* The steps of the watchdog *)

(* Replacing a run by one of the same commit. *)
LEMMA ReplaceSameCommits ==
    ASSUME TypeInv, NEW i \in DOMAIN runs, NEW r \in Run,
           runs' = [runs EXCEPT ![i] = r], r.commit = runs[i].commit
    PROVE  /\ SameCommits
           /\ \A j \in DOMAIN runs : runs'[j] = IF j = i THEN r ELSE runs[j]
  <1>1. DOMAIN runs' = DOMAIN runs
    BY RunUpdateType
  <1>2. \A j \in DOMAIN runs : runs'[j] = IF j = i THEN r ELSE runs[j]
    BY DEF TypeInv, TypeOK
  <1> QED BY <1>1, <1>2 DEF SameCommits

LEMMA ReplaceSameQueue ==
    ASSUME TypeInv, NEW i \in DOMAIN runs, NEW r \in Run, runs' = [runs EXCEPT ![i] = r],
           r.commit = runs[i].commit, r.conclusion = runs[i].conclusion,
           r.result = runs[i].result \/ Active(i)
    PROVE  SameQueue
  BY ReplaceSameCommits DEF SameQueue

LEMMA SameRunsSameQueue == ASSUME runs' = runs PROVE SameQueue
  BY DEF SameQueue, SameCommits

(* The end of a job gives its run a verdict and nothing else.               *)
LEMMA FinishSameQueue ==
    ASSUME TypeInv, NEW v \in Verdicts, FinishJob(v)
    PROVE  SameQueue
  <1>1. CASE runs' = runs
    BY <1>1, SameRunsSameQueue
  <1>2. CASE job.run \in DOMAIN runs /\ \E r \in Run :
                /\ runs' = [runs EXCEPT ![job.run] = r]
                /\ r.commit = runs[job.run].commit /\ r.result = runs[job.run].result
                /\ r.conclusion = runs[job.run].conclusion
    BY <1>2, ReplaceSameQueue
  <1> QED BY <1>1, <1>2, FinishJobEffect

(* The end of a build or of a retention leaves the queue as it is.          *)
LEMMA RunSameQueue ==
    ASSUME TypeInv, NEW i \in DOMAIN runs, BuildDone(i) \/ Expire(i)
    PROVE  TypeInv' /\ SameQueue
  <1>1. CASE BuildDone(i)
    <2>1. Active(i)
      BY <1>1 DEF BuildDone
    <2> QED BY <1>1, <2>1, BuildDoneEffect, ReplaceSameQueue
  <1>2. CASE Expire(i)
    BY <1>2, ExpireEffect, ReplaceSameQueue
  <1> QED BY <1>1, <1>2

(* A conclusion keeps the commits. *)
LEMMA ConcludeSameCommits ==
    ASSUME TypeInv, NEW i \in DOMAIN runs, Conclude(i)
    PROVE  TypeInv' /\ SameCommits
  BY ConcludeEffect, ReplaceSameCommits

(* A dispatch at most answers for the run whose watchdog it pushes out.     *)
LEMMA DispatchSameQueue ==
    ASSUME TypeInv, NEW c \in Commit, NEW q \in {"success", "failure"}, Dispatch(c, q)
    PROVE  TypeInv' /\ SameQueue
  <1>1. CASE runs' = runs
    BY <1>1, DispatchEffect, SameRunsSameQueue
  <1>2. CASE pend.run \in DOMAIN runs /\ \E r \in Run :
                /\ runs' = [runs EXCEPT ![pend.run] = r]
                /\ r.commit = runs[pend.run].commit /\ r.result = runs[pend.run].result
                /\ r.conclusion = runs[pend.run].conclusion
    BY <1>2, ReplaceSameQueue, DispatchEffect
  <1> QED BY <1>1, <1>2, DispatchEffect

(* Detection of a success marks the run whose evidence it missed. *)
LEMMA DetectSameQueue ==
    ASSUME TypeInv, DetectSuccess
    PROVE  TypeInv' /\ SameQueue
  <1>1. CASE runs' = runs
    BY <1>1, DetectSuccessEffect, SameRunsSameQueue
  <1>2. CASE job.run \in DOMAIN runs /\ \E r \in Run :
                /\ runs' = [runs EXCEPT ![job.run] = r]
                /\ r.commit = runs[job.run].commit /\ r.result = runs[job.run].result
                /\ r.conclusion = runs[job.run].conclusion
    BY <1>2, ReplaceSameQueue, DetectSuccessEffect
  <1> QED BY <1>1, <1>2, DetectSuccessEffect

(* Every step of the job, and every interference with it.                   *)
LEMMA JobSameQueue ==
    ASSUME TypeInv, JobStep \/ Abort \/ HumanClose
    PROVE  TypeInv' /\ SameQueue
  <1>1. CASE DetectSuccess
    BY <1>1, DetectSameQueue
  <1>2. CASE DetectFailure \/ Bound \/ Bisect \/ HumanClose
    BY <1>2, DetectFailureEffect, BoundEffect, BisectEffect, HumanCloseEffect,
       SameRunsSameQueue
  <1>3. CASE DetectCancelled \/ Abort
    BY <1>3, EndEffect, FinishSameQueue
  <1>4. CASE AutoClose \/ File
    BY <1>4, AutoCloseEffect, FileEffect, FinishSameQueue DEF Verdicts
  <1>5. CASE Dedup
    BY <1>5, DedupEffect, FinishSameQueue, SameRunsSameQueue DEF Verdicts
  <1> QED BY <1>1, <1>2, <1>3, <1>4, <1>5 DEF JobStep

-----------------------------------------------------------------------------
(* Sync and queue *)

(* The first commit is the recorded one and no run exists.                  *)
LEMMA MonitorInit == MInit => MonitorInv
  <1> SUFFICES ASSUME MInit PROVE MonitorInv
    OBVIOUS
  <1>1. TypeInv
    BY TypeInit DEF MInit
  <1>2. 1 \in Commit
    BY MonitorAssumption, RegressionAssumption DEF Commit
  <1>3. DOMAIN runs = {}
    BY DEF MInit, Init
  <1> QED BY <1>1, <1>2, <1>3 DEF MInit, MonitorInv, SyncInv, Commit

(* Queueing a commit that no run has gone beyond is what ShRegression means *)
(* by Enqueue.                                                              *)
LEMMA QueueIsEnqueue ==
    ASSUME TypeInv, NEW c \in Commit, Queue(c), \A i \in DOMAIN runs : runs[i].commit <= c
    PROVE  Enqueue(c)
  <1>1. DOMAIN runs = 1..Len(runs) /\ Len(runs) \in Nat
    BY LenProperties DEF TypeInv, TypeOK
  <1>2. Len(runs) > 0 => Len(runs) \in DOMAIN runs
    BY <1>1
  <1> QED BY <1>2 DEF Enqueue

(* After it no run has gone beyond that commit. *)
LEMMA EnqueueBound ==
    ASSUME TypeInv, NEW c \in Commit, Enqueue(c), \A i \in DOMAIN runs : runs[i].commit <= c
    PROVE  TypeInv' /\ \A i \in DOMAIN runs' : runs'[i].commit <= c
  <1>1. DOMAIN runs = 1..Len(runs) /\ Len(runs) \in Nat /\ TypeInv'
    BY EnqueueType, LenProperties DEF TypeInv, TypeOK
  <1>2. DOMAIN runs' = 1..(Len(runs) + 1)
    BY <1>1, EnqueueType, LenProperties DEF TypeInv, TypeOK
  <1>3. ASSUME NEW i \in DOMAIN runs PROVE runs'[i].commit = runs[i].commit
    <2>1. runs[i] \in Run
      BY RunType
    <2>2. [runs[i] EXCEPT !.conclusion = "cancelled", !.verdict = "cancelled"].commit
            = runs[i].commit
      BY <2>1 DEF Run
    <2> QED BY <2>2, EnqueueType
  <1>4. runs'[Len(runs) + 1].commit = c
    <2>1. NewRun(c).commit = c
      BY DEF NewRun
    <2> QED BY <2>1, EnqueueType
  <1>5. \A i \in DOMAIN runs' : i \in DOMAIN runs \/ i = Len(runs) + 1
    BY <1>1, <1>2
  <1>6. c <= c
    BY DEF Commit
  <1> QED BY <1>1, <1>3, <1>4, <1>5, <1>6

(* A step of sync.yml or upstream that leaves the runs alone. *)
LEMMA SyncStep ==
    ASSUME MonitorInv, UpstreamCommit \/ SyncCheck \/ OtherPush \/ PushRejected
    PROVE  MonitorInv' /\ UNCHANGED vars
  <1>1. UNCHANGED vars
    BY DEF UpstreamCommit, SyncCheck, OtherPush, PushRejected
  <1>2. TypeInv'
    BY <1>1, TypeStep DEF MonitorInv
  <1>3. /\ upstream \in Commit /\ lastTested \in Commit /\ seen \in Commit
        /\ lastTested <= upstream /\ (sync = "push" => lastTested <= seen /\ seen <= upstream)
        /\ \A i \in DOMAIN runs : runs[i].commit <= lastTested
    BY DEF MonitorInv, SyncInv
  <1>4. CASE UpstreamCommit
    <2>1. /\ upstream' = upstream + 1 /\ upstream' \in Commit
          /\ UNCHANGED <<lastTested, sync, seen>>
      BY <1>3, <1>4, RegressionAssumption DEF UpstreamCommit, Commit
    <2>2. lastTested' <= upstream' /\ (sync' = "push" => lastTested' <= seen' /\ seen' <= upstream')
      BY <1>3, <2>1 DEF Commit
    <2> QED BY <1>1, <1>2, <1>3, <2>1, <2>2 DEF MonitorInv, SyncInv, vars
  <1>5. CASE SyncCheck
    <2>1. UNCHANGED <<upstream, lastTested>> /\ seen' = upstream
      BY <1>5 DEF SyncCheck
    <2>2. upstream <= upstream
      BY <1>3 DEF Commit
    <2> QED BY <1>1, <1>2, <1>3, <2>1, <2>2 DEF MonitorInv, SyncInv, vars
  <1>6. CASE OtherPush \/ PushRejected
    <2>1. UNCHANGED <<upstream, lastTested, seen>> /\ (sync' = "push" => sync = "push")
      BY <1>6 DEF OtherPush, PushRejected
    <2> QED BY <1>1, <1>2, <1>3, <2>1 DEF MonitorInv, SyncInv, vars
  <1> QED BY <1>1, <1>4, <1>5, <1>6

(* A push queues the head that it records. *)
LEMMA PushEnqueues ==
    ASSUME MonitorInv, SyncPush
    PROVE  Enqueue(seen) /\ \A i \in DOMAIN runs : runs[i].commit <= seen
  <1>1. seen \in Commit /\ Queue(seen)
    BY DEF MonitorInv, SyncInv, SyncPush
  <1>2. ASSUME NEW i \in DOMAIN runs PROVE runs[i].commit <= seen
    <2>1. runs[i].commit <= lastTested /\ lastTested <= seen
      BY DEF MonitorInv, SyncInv, SyncPush
    <2>2. runs[i].commit \in Nat /\ lastTested \in Nat /\ seen \in Nat
      BY RunType DEF MonitorInv, SyncInv, Commit
    <2> QED BY <2>1, <2>2
  <1> QED BY <1>1, <1>2, QueueIsEnqueue DEF MonitorInv

LEMMA PushStep ==
    ASSUME MonitorInv, SyncPush
    PROVE  MonitorInv' /\ \E c \in Commit : Enqueue(c)
  <1>1. seen \in Commit /\ lastTested' = seen /\ UNCHANGED <<upstream, seen>> /\ sync' = "idle"
    BY DEF MonitorInv, SyncInv, SyncPush
  <1>2. Enqueue(seen) /\ TypeInv' /\ \A i \in DOMAIN runs' : runs'[i].commit <= seen
    BY <1>1, PushEnqueues, EnqueueBound DEF MonitorInv
  <1>3. seen <= upstream
    BY DEF MonitorInv, SyncInv, SyncPush
  <1> QED BY <1>1, <1>2, <1>3 DEF MonitorInv, SyncInv

(* A re-run repeats the recorded commit. *)
LEMMA RetriggerEnqueues ==
    ASSUME MonitorInv, Retrigger
    PROVE  Enqueue(lastTested)
  BY QueueIsEnqueue DEF MonitorInv, SyncInv, Retrigger

LEMMA RetriggerStep ==
    ASSUME MonitorInv, Retrigger
    PROVE  MonitorInv' /\ \E c \in Commit : Enqueue(c)
  <1>1. lastTested \in Commit /\ UNCHANGED syncVars
    BY DEF MonitorInv, SyncInv, Retrigger
  <1>2. TypeInv' /\ \A i \in DOMAIN runs' : runs'[i].commit <= lastTested
    BY <1>1, RetriggerEnqueues, EnqueueBound DEF MonitorInv, SyncInv
  <1> QED BY <1>1, <1>2, RetriggerEnqueues DEF MonitorInv, SyncInv, syncVars

(* A step that keeps the runs' commits and the sync's state keeps the rest. *)
LEMMA SameCommitsStep ==
    ASSUME MonitorInv, TypeInv', SameCommits, UNCHANGED syncVars
    PROVE  MonitorInv'
  BY DEF MonitorInv, SyncInv, SameCommits, syncVars

(* Tests, jobs and faults move the watchdog's variables and not the queue.  *)
LEMMA WatchdogMoves ==
    ASSUME MonitorInv, TestRun \/ WatchdogStep \/ Interference
    PROVE  MonitorInv' /\ Next /\ SameQueue /\ UNCHANGED syncVars
  <1>1. UNCHANGED syncVars
    BY DEF TestRun, WatchdogStep, Interference
  <1>2. TypeInv' /\ Next /\ SameQueue
    <2>1. CASE \E i \in DOMAIN runs : BuildDone(i) \/ Expire(i)
      BY <2>1, RunSameQueue DEF MonitorInv, Next
    <2>2. CASE \E c \in Commit, r \in {"success", "failure"} : Dispatch(c, r)
      BY <2>2, DispatchSameQueue DEF MonitorInv, Next
    <2>3. CASE JobStep \/ Abort \/ HumanClose
      <3>1. Next
        BY <2>3 DEF JobStep, Next
      <3> QED BY <2>3, <3>1, JobSameQueue DEF MonitorInv
    <2> QED BY <2>1, <2>2, <2>3 DEF TestRun, WatchdogStep, Interference
  <1> QED BY <1>1, <1>2, SameCommitsStep DEF SameQueue

LEMMA ConcludeMoves ==
    ASSUME MonitorInv, ConcludeRun
    PROVE  MonitorInv' /\ Next
  BY ConcludeSameCommits, SameCommitsStep DEF MonitorInv, ConcludeRun, Next

(* Every step keeps the invariant and is a step of the watchdog or none.    *)
LEMMA MonitorStep == MonitorInv /\ [MNext]_allVars => MonitorInv' /\ [Next]_vars
  <1> SUFFICES ASSUME MonitorInv, [MNext]_allVars PROVE MonitorInv' /\ [Next]_vars
    OBVIOUS
  <1>1. CASE UNCHANGED allVars
    <2>1. UNCHANGED vars /\ UNCHANGED syncVars
      BY <1>1 DEF allVars
    <2>2. TypeInv' /\ SameCommits
      BY <2>1, TypeStep DEF MonitorInv, SameCommits, vars
    <2> QED BY <2>1, <2>2, SameCommitsStep
  <1>2. CASE UpstreamCommit \/ SyncCheck \/ OtherPush \/ PushRejected
    BY <1>2, SyncStep
  <1>3. CASE SyncPush \/ Retrigger
    <2>1. MonitorInv' /\ \E c \in Commit : Enqueue(c)
      BY <1>3, PushStep, RetriggerStep
    <2> QED BY <2>1 DEF Next
  <1>4. CASE TestRun \/ ConcludeRun \/ WatchdogStep \/ Interference
    BY <1>4, WatchdogMoves, ConcludeMoves
  <1> QED BY <1>1, <1>2, <1>3, <1>4 DEF MNext

(* The sync, the queue, the tests and the watchdog together behave as the   *)
(* watchdog alone is specified: in particular ci-full runs come in upstream *)
(* order, which no line of ci-full.yml checks, because sync.yml records the *)
(* head it queues and a rejected push records nothing.                      *)
THEOREM MonitorRefinesWatchdog == MSpec => RefinesWatchdog
  <1>1. MInit => Init
    BY DEF MInit
  <1> QED BY <1>1, MonitorInit, MonitorStep, PTL DEF MSpec, RefinesWatchdog, Spec

(* So the whole has at most one watchdog issue open, closes issues only on  *)
(* the word of later runs, reports ranges that point forward and is quiet   *)
(* only when nothing new fails in what it saw, whatever upstream, other     *)
(* pushes to main, re-runs and faults do.                                   *)
THEOREM MonitorIssuesSound ==
    MSpec => [](/\ OneOpenIssue /\ CloseIsLater /\ RangePointsForward
                /\ QuietMeansNoNewFailure)
  BY MonitorRefinesWatchdog, AtMostOneOpenIssue, ClosesAreLater, RangesPointForward,
     QuietMeansNothingNew, PTL DEF RefinesWatchdog

-----------------------------------------------------------------------------
(* Types *)

(* What sync.yml and the commits themselves bring to the watchdog's types.  *)
LoopTypes == /\ sync \in {"idle", "push"} /\ main \in {"same", "moved"}
             /\ truth \in [Commit -> Truths]

LEMMA LoopTypesStep == LoopTypes /\ [MNext]_allVars => LoopTypes'
  <1> SUFFICES ASSUME LoopTypes, [MNext]_allVars PROVE LoopTypes'
    OBVIOUS
  <1>1. CASE UNCHANGED allVars
    BY <1>1 DEF allVars, syncVars, LoopTypes
  <1>2. CASE UpstreamCommit \/ SyncCheck \/ OtherPush \/ SyncPush \/ PushRejected
    BY <1>2 DEF UpstreamCommit, SyncCheck, OtherPush, SyncPush, PushRejected, LoopTypes
  <1>3. CASE Retrigger \/ TestRun \/ ConcludeRun \/ WatchdogStep \/ Interference
    <2>1. UNCHANGED <<sync, main, truth>>
      BY <1>3 DEF Retrigger, TestRun, ConcludeRun, WatchdogStep, Interference, syncVars
    <2> QED BY <2>1 DEF LoopTypes
  <1> QED BY <1>1, <1>2, <1>3 DEF MNext

(* Upstream, sync.yml, the queue and the watchdog keep their types, and the *)
(* recorded and polled commits are upstream commits.                        *)
THEOREM MonitorTypeOK == MSpec => []MTypeOK
  <1>1. MInit => LoopTypes
    BY DEF MInit, LoopTypes
  <1>2. MonitorInv /\ LoopTypes => MTypeOK
    BY DEF MonitorInv, TypeInv, SyncInv, LoopTypes, MTypeOK
  <1> QED BY <1>1, <1>2, MonitorInit, MonitorStep, LoopTypesStep, PTL DEF MSpec

-----------------------------------------------------------------------------
(* The ends of a bisect *)

(* A run that is over tells the truth about its commit, or, of the sh-sim   *)
(* lane, less when its sums were lost; a failed one has no sums.            *)
RunTrue(i) ==
    /\ runs[i].result = "success" =>
         /\ truth[runs[i].commit].builds
         /\ runs[i].dj = truth[runs[i].commit].dj
         /\ runs[i].sim \subseteq truth[runs[i].commit].sim
         /\ runs[i].simArt => runs[i].sim = truth[runs[i].commit].sim
    /\ runs[i].result = "failure" /\ runs[i].step = "build" =>
         ~ truth[runs[i].commit].builds
    /\ runs[i].result \in {"failure", "cancelled"} => runs[i].dj = {} /\ runs[i].sim = {}

RunsTrue == \A i \in DOMAIN runs : RunTrue(i)

Reporting == {"dedup", "bound", "bisect", "file"}

(* The bound is a run that built and tested its commit. *)
BoundGreen == /\ job.goodRun # 0 => Green(job.goodRun)
              /\ job.pc = "bisect" => job.goodRun # 0

(* A build regression was found in a run whose compiler build failed.       *)
BuildFound == job.pc \in Reporting /\ job.type = "build" =>
                /\ job.kind = "call" /\ runs[job.run].result = "failure"
                /\ runs[job.run].step = "build"

(* A simulator regression was found against sums that had not been lost.    *)
SimWhole == job.pc \in Reporting /\ job.type = "sh-sim" /\ "hide" \notin Faults =>
              \E d \in DOMAIN runs : /\ LastGreen(d)
                                     /\ runs[d].sim = truth[runs[d].commit].sim

TruthInv == RunsTrue /\ BoundGreen /\ BuildFound /\ SimWhole

(* A run keeps what its build found. *)
Carried(i) ==
    /\ i \in DOMAIN runs
    /\ runs'[i].commit = runs[i].commit /\ runs'[i].result = runs[i].result
    /\ runs'[i].step = runs[i].step
    /\ runs'[i].dj = runs[i].dj /\ runs'[i].sim = runs[i].sim
    /\ runs'[i].simArt => runs[i].simArt

(* And so does every run, but one that is queued, unless a build ends.      *)
AllCarried == /\ DOMAIN runs \subseteq DOMAIN runs'
              /\ \A i \in DOMAIN runs' :
                   \/ Carried(i)
                   \/ i \notin DOMAIN runs /\ runs'[i].result = "pending"

(* One run is replaced by a later state of it. *)
LEMMA CarriedByUpdate ==
    ASSUME TypeInv, NEW i \in DOMAIN runs, NEW r \in Run, runs' = [runs EXCEPT ![i] = r],
           r.commit = runs[i].commit, r.result = runs[i].result, r.step = runs[i].step,
           r.dj = runs[i].dj, r.sim = runs[i].sim, r.simArt => runs[i].simArt
    PROVE  AllCarried
  <1>1. DOMAIN runs' = DOMAIN runs
    BY RunUpdateType
  <1>2. \A j \in DOMAIN runs : runs'[j] = IF j = i THEN r ELSE runs[j]
    BY DEF TypeInv, TypeOK
  <1> QED BY <1>1, <1>2 DEF AllCarried, Carried

LEMMA CarriedSame == ASSUME runs' = runs PROVE AllCarried
  BY DEF AllCarried, Carried

(* Queueing cancels waiting runs, which keep all else, and adds a run.      *)
LEMMA EnqueueCarries ==
    ASSUME TypeInv, NEW c \in Commit, Enqueue(c)
    PROVE  AllCarried
  <1>1. /\ TypeInv' /\ Len(runs') = Len(runs) + 1
        /\ runs'[Len(runs) + 1] = NewRun(c)
        /\ \A i \in DOMAIN runs :
             runs'[i] = IF Waiting(i)
                        THEN [runs[i] EXCEPT !.conclusion = "cancelled",
                                             !.verdict = "cancelled"]
                        ELSE runs[i]
    BY EnqueueType
  <1>2. /\ DOMAIN runs = 1..Len(runs) /\ Len(runs) \in Nat
        /\ DOMAIN runs' = 1..(Len(runs) + 1)
    BY <1>1, LenProperties DEF TypeInv, TypeOK
  <1>3. ASSUME NEW i \in DOMAIN runs PROVE Carried(i)
    <2>1. runs[i] \in Run
      BY RunType
    <2> QED BY <1>1, <2>1 DEF Run, Carried
  <1>4. NewRun(c).result = "pending"
    BY DEF NewRun
  <1>5. ASSUME NEW i \in DOMAIN runs', i \notin DOMAIN runs PROVE runs'[i].result = "pending"
    <2>1. i = Len(runs) + 1
      BY <1>2, <1>5
    <2> QED BY <1>1, <1>4, <2>1
  <1> QED BY <1>2, <1>3, <1>5 DEF AllCarried

(* A verdict, a conclusion, the mark of missing evidence or an expiry.      *)
LEMMA MarkCarries ==
    ASSUME TypeInv, NEW i \in DOMAIN runs,
           \/ \E v \in Verdicts : runs' = [runs EXCEPT ![i].verdict = v]
           \/ \E x \in {"cancelled", "completed"} : runs' = [runs EXCEPT ![i].conclusion = x]
           \/ \E b \in BOOLEAN : runs' = [runs EXCEPT ![i].blind = b]
           \/ runs' = [runs EXCEPT ![i].djArt = FALSE, ![i].simArt = FALSE]
    PROVE  AllCarried
  <1>1. runs[i] \in Run
    BY RunType
  <1>2. ASSUME NEW v \in Verdicts, runs' = [runs EXCEPT ![i].verdict = v] PROVE AllCarried
    <2>1. PICK r : r = [runs[i] EXCEPT !.verdict = v]
      OBVIOUS
    <2>2. /\ r \in Run /\ r.commit = runs[i].commit /\ r.result = runs[i].result
          /\ r.step = runs[i].step /\ r.dj = runs[i].dj /\ r.sim = runs[i].sim
          /\ r.simArt = runs[i].simArt
      BY <1>1, <2>1 DEF Run
    <2>3. runs' = [runs EXCEPT ![i] = r]
      BY <1>2, <2>1
    <2> QED BY <2>2, <2>3, CarriedByUpdate
  <1>3. ASSUME NEW x \in {"cancelled", "completed"}, runs' = [runs EXCEPT ![i].conclusion = x]
        PROVE  AllCarried
    <2>1. PICK r : r = [runs[i] EXCEPT !.conclusion = x]
      OBVIOUS
    <2>2. /\ r \in Run /\ r.commit = runs[i].commit /\ r.result = runs[i].result
          /\ r.step = runs[i].step /\ r.dj = runs[i].dj /\ r.sim = runs[i].sim
          /\ r.simArt = runs[i].simArt
      BY <1>1, <2>1 DEF Run
    <2>3. runs' = [runs EXCEPT ![i] = r]
      BY <1>3, <2>1
    <2> QED BY <2>2, <2>3, CarriedByUpdate
  <1>4. ASSUME NEW b \in BOOLEAN, runs' = [runs EXCEPT ![i].blind = b] PROVE AllCarried
    <2>1. PICK r : r = [runs[i] EXCEPT !.blind = b]
      OBVIOUS
    <2>2. /\ r \in Run /\ r.commit = runs[i].commit /\ r.result = runs[i].result
          /\ r.step = runs[i].step /\ r.dj = runs[i].dj /\ r.sim = runs[i].sim
          /\ r.simArt = runs[i].simArt
      BY <1>1, <2>1 DEF Run
    <2>3. runs' = [runs EXCEPT ![i] = r]
      BY <1>4, <2>1
    <2> QED BY <2>2, <2>3, CarriedByUpdate
  <1>5. CASE runs' = [runs EXCEPT ![i].djArt = FALSE, ![i].simArt = FALSE]
    <2>1. PICK r : r = [runs[i] EXCEPT !.djArt = FALSE, !.simArt = FALSE]
      OBVIOUS
    <2>2. /\ r \in Run /\ r.commit = runs[i].commit /\ r.result = runs[i].result
          /\ r.step = runs[i].step /\ r.dj = runs[i].dj /\ r.sim = runs[i].sim
          /\ r.simArt = FALSE
      BY <1>1, <2>1 DEF Run
    <2>3. runs' = [runs EXCEPT ![i] = r]
      BY <1>5, <2>1
    <2> QED BY <2>2, <2>3, CarriedByUpdate
  <1> QED BY <1>2, <1>3, <1>4, <1>5

(* The end of a watchdog job gives its run a verdict. *)
LEMMA FinishCarries ==
    ASSUME TypeInv, NEW v \in Verdicts, FinishJob(v)
    PROVE  AllCarried
  <1>1. CASE job.kind # "call"
    <2>1. runs' = runs
      BY <1>1 DEF FinishJob
    <2> QED BY <2>1, CarriedSame
  <1>2. CASE job.kind = "call"
    <2>1. PICK i \in DOMAIN runs : i = job.run
      BY <1>2 DEF TypeInv, RunsNamed
    <2>2. runs' = [runs EXCEPT ![i].verdict = v]
      BY <1>2, <2>1 DEF FinishJob
    <2> QED BY <2>2, MarkCarries
  <1> QED BY <1>1, <1>2

LEMMA DispatchCarries ==
    ASSUME TypeInv, NEW c \in Commit, NEW q \in {"success", "failure"}, Dispatch(c, q)
    PROVE  AllCarried
  <1>1. CASE job.pc # "idle" /\ pend.kind = "call"
    <2>1. PICK i \in DOMAIN runs : i = pend.run
      BY <1>1 DEF TypeInv, RunsNamed
    <2>2. runs' = [runs EXCEPT ![i].verdict = "cancelled"] /\ "cancelled" \in Verdicts
      BY <1>1, <2>1 DEF Dispatch, Verdicts
    <2> QED BY <2>2, MarkCarries
  <1>2. CASE ~ (job.pc # "idle" /\ pend.kind = "call")
    <2>1. runs' = runs
      BY <1>2 DEF Dispatch
    <2> QED BY <2>1, CarriedSame
  <1> QED BY <1>1, <1>2

LEMMA DetectSuccessCarries ==
    ASSUME TypeInv, DetectSuccess
    PROVE  AllCarried
  <1>1. PICK b \in BOOLEAN :
          runs' = IF job.kind = "call" THEN [runs EXCEPT ![job.run].blind = b] ELSE runs
    BY DEF DetectSuccess
  <1>2. CASE job.kind # "call"
    <2>1. runs' = runs
      BY <1>1, <1>2
    <2> QED BY <2>1, CarriedSame
  <1>3. CASE job.kind = "call"
    <2>1. PICK i \in DOMAIN runs : i = job.run
      BY <1>3 DEF TypeInv, RunsNamed
    <2>2. runs' = [runs EXCEPT ![i].blind = b]
      BY <1>1, <1>3, <2>1
    <2> QED BY <2>2, MarkCarries
  <1> QED BY <1>2, <1>3

(* The truth of a run stands as long as it is carried. *)
LEMMA RunsStayTrue ==
    ASSUME RunsTrue, AllCarried, truth' = truth
    PROVE  RunsTrue'
  <1> SUFFICES ASSUME NEW i \in DOMAIN runs' PROVE RunTrue(i)'
    BY DEF RunsTrue
  <1>1. CASE Carried(i)
    <2>1. RunTrue(i)
      BY <1>1 DEF RunsTrue, Carried
    <2> QED BY <1>1, <2>1 DEF RunTrue, Carried
  <1>2. CASE runs'[i].result = "pending"
    BY <1>2 DEF RunTrue
  <1> QED BY <1>1, <1>2 DEF AllCarried

(* A job at its start has found nothing yet. *)
LEMMA FreshJob ==
    ASSUME RunsTrue', job'.pc \in {"idle", "detect"}, job'.goodRun = 0
    PROVE  TruthInv'
  BY DEF TruthInv, BoundGreen, BuildFound, SimWhole, Reporting

(* The runs whose build is over keep what it found. *)
OverCarried == /\ DOMAIN runs \subseteq DOMAIN runs'
               /\ \A i \in DOMAIN runs : runs[i].result # "pending" => Carried(i)

LEMMA AllIsOver == AllCarried => OverCarried
  BY DEF AllCarried, OverCarried

(* A job that keeps its finding, in a history that keeps its evidence.      *)
LEMMA FindingStays ==
    ASSUME IInv, EvInv, TruthInv, RunsTrue', Kept, OverCarried, truth' = truth,
           NoNewGreen \/ job.kind # "call",
           SameJob(job'), job'.type = job.type, job'.goodRun = job.goodRun,
           job'.pc \in Reporting => job.pc \in Reporting,
           job'.pc = "bisect" => job.pc = "bisect"
    PROVE  TruthInv'
  <1>2. BoundGreen'
    <2>1. PICK g : g = job.goodRun
      OBVIOUS
    <2>2. ASSUME g # 0 PROVE Green(g)'
      <3>1. g \in DOMAIN runs /\ Green(g)
        BY <2>1, <2>2 DEF IInv, JobsInv, JobRange, TruthInv, BoundGreen
      <3> QED BY <3>1 DEF Kept, Green
    <2> QED BY <2>1, <2>2 DEF TruthInv, BoundGreen, Green
  <1>3. BuildFound'
    <2> SUFFICES ASSUME job'.pc \in Reporting, job'.type = "build" PROVE BuildFound'
      BY DEF BuildFound
    <2>1. PICK i : i = job.run
      OBVIOUS
    <2>2. job.kind = "call" /\ runs[i].result = "failure" /\ runs[i].step = "build"
      BY <2>1 DEF TruthInv, BuildFound
    <2>3. i \in DOMAIN runs /\ runs[i].result # "pending"
      BY <2>1, <2>2 DEF IInv, TypeInv, RunsNamed
    <2>4. Carried(i)
      BY <2>3 DEF OverCarried
    <2> QED BY <2>1, <2>2, <2>4 DEF BuildFound, Carried, SameJob
  <1>4. SimWhole'
    <2> SUFFICES ASSUME job'.pc \in Reporting, job'.type = "sh-sim", "hide" \notin Faults
                 PROVE  \E d \in DOMAIN runs' :
                          LastGreen(d)' /\ runs'[d].sim = truth'[runs'[d].commit].sim
      BY DEF SimWhole, LastGreen, Green
    <2>1. PICK d \in DOMAIN runs : LastGreen(d) /\ runs[d].sim = truth[runs[d].commit].sim
      BY DEF TruthInv, SimWhole
    <2>2. job.kind = "call"
      BY DEF EvInv, JobEvid, DeltaFound, TestTypes, Reporting
    <2>3. LastGreen(d)'
      BY <2>1, <2>2, LastGreenKept
    <2>4. Carried(d)
      BY <2>1 DEF OverCarried, LastGreen, Green
    <2>5. d \in DOMAIN runs'
      BY DEF OverCarried
    <2> QED BY <2>1, <2>3, <2>4, <2>5 DEF Carried
  <1> QED BY <1>2, <1>3, <1>4 DEF TruthInv

(* No run and no job exists at first. *)
LEMMA TruthInit == MInit => TruthInv
  <1>1. NoJob.pc = "idle" /\ NoJob.goodRun = 0
    BY DEF NoJob, NewJob
  <1>2. MInit => DOMAIN runs = {} /\ job = NoJob
    BY DEF MInit, Init
  <1> QED BY <1>1, <1>2 DEF TruthInv, RunsTrue, BoundGreen, BuildFound, SimWhole, Reporting

(* When a job ends its successor has just begun. *)
LEMMA TruthFinish ==
    ASSUME IInv, TruthInv, NEW v \in Verdicts, FinishJob(v), truth' = truth
    PROVE  TruthInv'
  <1>1. job' = pend /\ AllCarried
    BY FinishCarries DEF IInv, FinishJob
  <1>2. RunsTrue'
    BY <1>1, RunsStayTrue DEF TruthInv
  <1> QED BY <1>1, <1>2, FreshJob DEF IInv, JobsInv, PendFresh

(* A step of others leaves the job and its finding alone. *)
LEMMA TruthOther ==
    ASSUME IInv, EvInv, TruthInv, Kept, AllCarried, truth' = truth, job' = job,
           NoNewGreen \/ job.kind # "call"
    PROVE  TruthInv'
  <1>1. RunsTrue'
    BY RunsStayTrue DEF TruthInv
  <1> QED BY <1>1, AllIsOver, FindingStays DEF SameJob

LEMMA TruthQueue ==
    ASSUME IInv, EvInv, TruthInv, NEW c \in Commit, Enqueue(c), truth' = truth
    PROVE  TruthInv'
  <1>1. job' = job
    BY DEF Enqueue, Queue
  <1> QED BY <1>1, EnqueueKeeps, EnqueueCarries, TruthOther DEF IInv

LEMMA TruthConclude ==
    ASSUME IInv, EvInv, TruthInv, NEW i \in DOMAIN runs, Conclude(i), truth' = truth
    PROVE  TruthInv'
  <1>1. \E x \in {"cancelled", "completed"} : runs' = [runs EXCEPT ![i].conclusion = x]
    BY DEF Conclude
  <1>2. job' = job
    BY DEF Conclude
  <1> QED BY <1>1, <1>2, ConcludeKeeps, MarkCarries, TruthOther DEF IInv

LEMMA TruthExpire ==
    ASSUME IInv, EvInv, TruthInv, NEW i \in DOMAIN runs, Expire(i), truth' = truth
    PROVE  TruthInv'
  <1>1. runs' = [runs EXCEPT ![i].djArt = FALSE, ![i].simArt = FALSE] /\ job' = job
    BY DEF Expire
  <1> QED BY <1>1, ExpireKeeps, MarkCarries, TruthOther DEF IInv

(* A new job finds the group free, and begins, or leaves the running one.   *)
LEMMA TruthJoin ==
    ASSUME IInv, EvInv, TruthInv, RunsTrue', Kept, NoNewGreen, OverCarried, truth' = truth,
           NEW k, NEW i, NEW c, NEW r, JoinGroup(NewJob(k, i, c, r))
    PROVE  TruthInv'
  <1>1. CASE job.pc = "idle"
    <2>1. job' = NewJob(k, i, c, r)
      BY <1>1 DEF JoinGroup
    <2>2. job'.pc = "detect" /\ job'.goodRun = 0
      BY <2>1 DEF NewJob
    <2> QED BY <2>2, FreshJob
  <1>2. CASE job.pc # "idle"
    <2>1. job' = job
      BY <1>2 DEF JoinGroup
    <2> QED BY <2>1, FindingStays DEF SameJob
  <1> QED BY <1>1, <1>2

LEMMA TruthDispatch ==
    ASSUME IInv, EvInv, TruthInv, NEW c \in Commit, NEW q \in {"success", "failure"},
           Dispatch(c, q), truth' = truth
    PROVE  TruthInv'
  <1>1. Kept /\ NoNewGreen /\ AllCarried
    BY DispatchKeeps, DispatchCarries DEF IInv
  <1>2. RunsTrue' /\ OverCarried
    BY <1>1, AllIsOver, RunsStayTrue DEF TruthInv
  <1>3. JoinGroup(NewJob("dispatch", 0, c, q))
    BY DEF Dispatch
  <1> QED BY <1>1, <1>2, <1>3, TruthJoin

(* build-and-test finds in a run what its commit really is. *)
LEMMA TruthTest ==
    ASSUME MonitorInv, LoopTypes, IInv, EvInv, TruthInv, TestRun
    PROVE  TruthInv'
  <1>1. PICK i \in DOMAIN runs : BuildDone(i) /\ Agrees(RunOutcome(i)', runs[i].commit)
    BY DEF TestRun
  <1>2. truth' = truth
    BY DEF TestRun
  <1>3. PICK c : c = runs[i].commit
    OBVIOUS
  <1>4. /\ runs[i].result = "pending"
        /\ \E o \in Outcomes : runs' = [runs EXCEPT ![i] = BuildOutcome(i, o)]
    BY <1>1 DEF BuildDone
  <1>5. PICK r \in Run : /\ runs' = [runs EXCEPT ![i] = r] /\ r.commit = c
                         /\ r.result \in {"failure", "cancelled"} => r.dj = {} /\ r.sim = {}
    <2>1. PICK r \in Run : runs' = [runs EXCEPT ![i] = r] /\ r.commit = c
      BY <1>1, <1>3, BuildDoneEffect DEF IInv
    <2>2. PICK o \in Outcomes : runs' = [runs EXCEPT ![i] = BuildOutcome(i, o)]
      BY <1>4
    <2>3. r = BuildOutcome(i, o)
      BY <2>1, <2>2 DEF IInv, TypeInv, TypeOK
    <2>4. r.result = o.result /\ r.dj = o.dj /\ r.sim = o.sim /\ runs[i] \in Run
      BY <2>3, RunType DEF BuildOutcome, Run, IInv
    <2>5. o.result \in {"failure", "cancelled"} => o.dj = {} /\ o.sim = {}
      BY DEF Outcomes
    <2> QED BY <2>1, <2>4, <2>5
  <1>6. /\ DOMAIN runs' = DOMAIN runs
        /\ \A j \in DOMAIN runs : runs'[j] = IF j = i THEN r ELSE runs[j]
    BY <1>5, RunUpdateType DEF IInv, TypeInv, TypeOK
  <1>7. OverCarried
    BY <1>4, <1>6 DEF OverCarried, Carried
  <1>8. PICK o : /\ o = [result |-> r.result, step |-> r.step, dj |-> r.dj,
                         sim |-> r.sim, simArt |-> r.simArt]
                 /\ Agrees(o, c)
    <2>1. RunOutcome(i)' = [result |-> r.result, step |-> r.step, dj |-> r.dj,
                            sim |-> r.sim, simArt |-> r.simArt]
      BY <1>6 DEF RunOutcome
    <2> QED BY <1>1, <1>3, <2>1
  <1>9. RunTrue(i)'
    <2>1. /\ r.result = "success" =>
               /\ truth[c].builds /\ r.dj = truth[c].dj
               /\ r.sim = (IF r.simArt THEN truth[c].sim ELSE {})
          /\ r.result = "failure" /\ r.step = "build" => ~ truth[c].builds
      BY <1>8 DEF Agrees
    <2>2. runs'[i] = r
      BY <1>6
    <2> QED BY <1>2, <1>5, <2>1, <2>2 DEF RunTrue
  <1>10. RunsTrue'
    <2> SUFFICES ASSUME NEW j \in DOMAIN runs' PROVE RunTrue(j)'
      BY DEF RunsTrue
    <2>1. CASE j = i
      BY <1>9, <2>1
    <2>2. CASE j # i
      <3>1. j \in DOMAIN runs /\ runs'[j] = runs[j] /\ RunTrue(j)
        BY <1>6, <2>2 DEF TruthInv, RunsTrue
      <3> QED BY <1>2, <3>1 DEF RunTrue
    <2> QED BY <2>1, <2>2
  <1>11. PICK d, q : JoinGroup(NewJob("call", i, d, q))
    BY <1>1, BuildDoneEffect DEF IInv
  <1>12. Kept /\ NoNewGreen
    BY <1>1, BuildDoneKeeps
  <1> QED BY <1>2, <1>7, <1>10, <1>11, <1>12, TruthJoin

(* Detection of a success finds new simulator failures only against sums    *)
(* that are still on GitHub.                                                *)
LEMMA TruthDetectSuccess ==
    ASSUME IInv, EvInv, TruthInv, DetectSuccess, truth' = truth
    PROVE  TruthInv'
  <1>1. PICK lost \in LostEvidence, djHidden \in HiddenRuns, simHidden \in HiddenRuns,
            d \in 0..Len(runs), s \in 0..Len(runs), blind \in BOOLEAN :
          /\ PickGoodRun(d, djHidden) /\ PickGoodRun(s, simHidden)
          /\ job' = Detected(NewDj(lost, d), NewSim(lost, s))
          /\ runs' = IF job.kind = "call" THEN [runs EXCEPT ![job.run].blind = blind]
                                          ELSE runs
    BY DEF DetectSuccess
  <1>2. job.pc = "detect" /\ job \in Job
    BY DEF DetectSuccess, IInv, TypeInv, TypeOK
  <1>3. Kept /\ NoNewGreen /\ AllCarried
    BY <1>1, DetectSuccessKeeps, DetectSuccessCarries DEF IInv
  <1>4. RunsTrue' /\ OverCarried
    BY <1>3, AllIsOver, RunsStayTrue DEF TruthInv
  <1>5. PICK nd, ns, t : /\ nd = NewDj(lost, d) /\ ns = NewSim(lost, s)
                         /\ t = Classify("success", "", nd, ns)
    OBVIOUS
  <1>6. job' = [job EXCEPT !.pc = AfterClassify(t), !.type = t,
                           !.tests = IF t = "dejagnu" THEN nd ELSE ns]
    BY <1>1, <1>5 DEF Detected
  <1>7. /\ SameJob(job') /\ job'.goodRun = job.goodRun
        /\ job'.pc \in {"dedup", "close"} /\ job'.type = t
    BY <1>2, <1>6 DEF Job, SameJob, AfterClassify
  <1>8. BoundGreen'
    <2>1. PICK g : g = job.goodRun
      OBVIOUS
    <2>2. ASSUME g # 0 PROVE Green(g)'
      <3>1. g \in DOMAIN runs /\ Green(g)
        BY <2>1, <2>2 DEF IInv, JobsInv, JobRange, TruthInv, BoundGreen
      <3> QED BY <1>3, <3>1 DEF Kept, Green
    <2> QED BY <1>7, <2>1, <2>2 DEF BoundGreen, Green
  <1>9. BuildFound'
    <2>1. t # "build"
      BY <1>5, ClassifySuccess
    <2> QED BY <1>7, <2>1 DEF BuildFound
  <1>10. SimWhole'
    <2> SUFFICES ASSUME t = "sh-sim", "hide" \notin Faults
                 PROVE  \E g \in DOMAIN runs' :
                          LastGreen(g)' /\ runs'[g].sim = truth'[runs'[g].commit].sim
      BY <1>7 DEF SimWhole, LastGreen, Green
    <2>1. ns # {}
      BY <1>5, ClassifySuccess
    <2>2. HaveSim(lost, s)
      BY <1>5, <2>1 DEF NewSim
    <2>3. s # 0 /\ runs[s].simArt
      BY <2>2 DEF HaveSim
    <2>4. LastGreen(s)
      BY <1>1, <2>3, PickIsLastGreen DEF IInv, HiddenRuns
    <2>5. s \in DOMAIN runs /\ runs[s].sim = truth[runs[s].commit].sim
      BY <2>3, <2>4 DEF TruthInv, RunsTrue, RunTrue, LastGreen, Green
    <2>6. LastGreen(s)'
      BY <1>3, <2>4, LastGreenKept
    <2>7. Carried(s) /\ s \in DOMAIN runs'
      BY <1>4, <2>4 DEF OverCarried, LastGreen, Green
    <2> QED BY <2>5, <2>6, <2>7 DEF Carried
  <1> QED BY <1>4, <1>8, <1>9, <1>10 DEF TruthInv

(* Detection of a failure calls it a build regression when the compiler     *)
(* build of its run failed.                                                 *)
LEMMA TruthDetectFailure ==
    ASSUME IInv, EvInv, TruthInv, DetectFailure, truth' = truth
    PROVE  TruthInv'
  <1>1. PICK step : \E lost \in LostEvidence :
          /\ step = IF job.kind = "call" /\ lost = {} THEN runs[job.run].step ELSE ""
          /\ job' = [job EXCEPT !.pc = AfterClassify(Classify("failure", step, {}, {})),
                                !.type = Classify("failure", step, {}, {}),
                                !.step = step]
    BY DEF DetectFailure
  <1>2. /\ UNCHANGED <<runs, issues, pend>> /\ job \in Job
        /\ job.pc = "detect" /\ job.result = "failure"
    BY DEF DetectFailure, IInv, TypeInv, TypeOK
  <1>3. PICK t \in {"build", "script"} : t = Classify("failure", step, {}, {})
    BY ClassifyFailure
  <1>4. job' = [job EXCEPT !.pc = "dedup", !.type = t, !.step = step]
    BY <1>1, <1>3 DEF AfterClassify
  <1>5. SameJob(job') /\ job'.goodRun = job.goodRun /\ job'.pc = "dedup" /\ job'.type = t
    BY <1>2, <1>4 DEF Job, SameJob
  <1>6. RunsTrue'
    BY <1>2, CarriedSame, RunsStayTrue DEF TruthInv
  <1>7. BoundGreen'
    BY <1>2, <1>5 DEF TruthInv, BoundGreen, Green
  <1>8. t = "build" => step = "build"
    BY <1>3 DEF Classify
  <1>9. BuildFound'
    <2> SUFFICES ASSUME t = "build" PROVE BuildFound'
      BY <1>5 DEF BuildFound
    <2>1. job.kind = "call" /\ runs[job.run].step = "build"
      BY <1>1, <1>8
    <2>2. runs[job.run].result = "failure"
      BY <1>2, <2>1 DEF EvInv, JobEvid, Called
    <2> QED BY <1>2, <1>5, <2>1, <2>2 DEF BuildFound, SameJob
  <1>10. SimWhole'
    BY <1>5 DEF SimWhole
  <1> QED BY <1>6, <1>7, <1>9, <1>10 DEF TruthInv

(* The bound is a run that sh-lastgreen.py takes for green. *)
LEMMA TruthBound ==
    ASSUME IInv, EvInv, TruthInv, Bound, truth' = truth
    PROVE  TruthInv'
  <1>1. PICK hidden \in HiddenRuns, b \in 0..Len(runs) :
          /\ PickGoodRun(b, hidden)
          /\ job' = [job EXCEPT !.goodRun = b,
                                !.good = IF b = 0 THEN 0 ELSE runs[b].commit,
                                !.pc = IF b = 0 THEN "file" ELSE "bisect"]
    BY DEF Bound
  <1>2. UNCHANGED <<runs, issues, pend>> /\ job \in Job /\ job.pc = "bound"
    BY DEF Bound, IInv, TypeInv, TypeOK
  <1>3. PICK p \in {"bisect", "file"} :
          /\ job' = [job EXCEPT !.goodRun = b, !.good = IF b = 0 THEN 0 ELSE runs[b].commit,
                                !.pc = p]
          /\ p = "bisect" => b # 0
    BY <1>1
  <1>4. /\ SameJob(job') /\ job'.goodRun = b /\ job'.pc = p /\ job'.type = job.type
    BY <1>2, <1>3 DEF Job, SameJob
  <1>5. RunsTrue'
    BY <1>2, CarriedSame, RunsStayTrue DEF TruthInv
  <1>6. b # 0 => Green(b)
    BY <1>1 DEF PickGoodRun, GatheredRuns, Green
  <1>7. BoundGreen'
    BY <1>2, <1>3, <1>4, <1>6 DEF BoundGreen, Green
  <1>8. BuildFound'
    BY <1>2, <1>4 DEF TruthInv, BuildFound, Reporting, SameJob
  <1>9. SimWhole'
    BY <1>2, <1>4 DEF TruthInv, SimWhole, Reporting, LastGreen, Green
  <1> QED BY <1>5, <1>7, <1>8, <1>9 DEF TruthInv

(* The other steps of a job keep its finding, or end it. *)
LEMMA TruthAdvance ==
    ASSUME IInv, EvInv, TruthInv, truth' = truth, Dedup \/ Bisect
    PROVE  TruthInv'
  <1>1. job \in Job
    BY DEF IInv, TypeInv, TypeOK
  <1>2. CASE Dedup /\ OpenIssues # {}
    <2>1. FinishJob("dedup") /\ "dedup" \in Verdicts
      BY <1>2 DEF Dedup, Verdicts
    <2> QED BY <2>1, TruthFinish
  <1>3. CASE (Dedup /\ OpenIssues = {}) \/ Bisect
    <2>1. /\ runs' = runs /\ SameJob(job') /\ job'.type = job.type /\ job'.goodRun = job.goodRun
          /\ job.pc \in Reporting /\ job'.pc # "bisect"
      BY <1>1, <1>3 DEF Dedup, Bisect, Job, SameJob, Reporting
    <2>2. Kept /\ NoNewGreen /\ OverCarried /\ RunsTrue'
      BY <2>1, KeptSame, CarriedSame, AllIsOver, RunsStayTrue DEF TruthInv
    <2> QED BY <2>1, <2>2, FindingStays
  <1> QED BY <1>2, <1>3

LEMMA TruthJobStep ==
    ASSUME IInv, EvInv, TruthInv, truth' = truth, JobStep
    PROVE  TruthInv'
  <1>1. CASE DetectSuccess \/ DetectFailure \/ Bound
    BY <1>1, TruthDetectSuccess, TruthDetectFailure, TruthBound
  <1>2. CASE Dedup \/ Bisect
    BY <1>2, TruthAdvance
  <1>3. CASE DetectCancelled \/ AutoClose \/ File
    <2>1. \E v \in Verdicts : FinishJob(v)
      <3>1. CASE DetectCancelled
        BY <3>1 DEF DetectCancelled, Verdicts
      <3>2. CASE AutoClose
        <4>1. \E k \in 0..Len(issues) : FinishJob(IF k = 0 THEN "green" ELSE "closed")
          BY <3>2 DEF AutoClose
        <4> QED BY <4>1 DEF Verdicts
      <3>3. CASE File
        BY <3>3 DEF File, Verdicts
      <3> QED BY <1>3, <3>1, <3>2, <3>3
    <2> QED BY <2>1, TruthFinish
  <1> QED BY <1>1, <1>2, <1>3 DEF JobStep

LEMMA TruthInterference ==
    ASSUME IInv, EvInv, TruthInv, Interference
    PROVE  TruthInv'
  <1>1. truth' = truth
    BY DEF Interference
  <1>2. ASSUME NEW i \in DOMAIN runs, Expire(i) PROVE TruthInv'
    BY <1>1, <1>2, TruthExpire
  <1>3. ASSUME NEW c \in Commit, NEW q \in {"success", "failure"}, Dispatch(c, q)
        PROVE  TruthInv'
    BY <1>1, <1>3, TruthDispatch
  <1>4. CASE Abort
    <2>1. \E v \in Verdicts : FinishJob(v)
      BY <1>4 DEF Abort, Verdicts
    <2> QED BY <1>1, <2>1, TruthFinish
  <1>5. CASE HumanClose
    <2>1. runs' = runs /\ job' = job
      BY <1>5 DEF HumanClose
    <2> QED BY <1>1, <2>1, KeptSame, CarriedSame, TruthOther
  <1> QED BY <1>2, <1>3, <1>4, <1>5 DEF Interference

(* TruthInv is inductive, next to the invariants of the watchdog. *)
LEMMA TruthStep ==
    MonitorInv /\ LoopTypes /\ IInv /\ EvInv /\ TruthInv /\ [MNext]_allVars => TruthInv'
  <1> SUFFICES ASSUME MonitorInv, LoopTypes, IInv, EvInv, TruthInv, [MNext]_allVars
               PROVE  TruthInv'
    OBVIOUS
  <1>1. CASE UNCHANGED allVars \/ UpstreamCommit \/ SyncCheck \/ OtherPush \/ PushRejected
    <2>1. runs' = runs /\ job' = job /\ truth' = truth
      BY <1>1 DEF allVars, vars, UpstreamCommit, SyncCheck, OtherPush, PushRejected
    <2> QED BY <2>1, KeptSame, CarriedSame, TruthOther
  <1>2. CASE SyncPush \/ Retrigger
    <2>1. \E c \in Commit : Enqueue(c)
      BY <1>2, PushStep, RetriggerStep
    <2>2. truth' = truth
      BY <1>2 DEF SyncPush, Retrigger
    <2> QED BY <2>1, <2>2, TruthQueue
  <1>3. CASE TestRun
    BY <1>3, TruthTest
  <1>4. CASE ConcludeRun
    <2>1. truth' = truth /\ \E i \in DOMAIN runs : Conclude(i)
      BY <1>4 DEF ConcludeRun
    <2> QED BY <2>1, TruthConclude
  <1>5. CASE WatchdogStep
    BY <1>5, TruthJobStep DEF WatchdogStep
  <1>6. CASE Interference
    BY <1>6, TruthInterference
  <1> QED BY <1>1, <1>2, <1>3, <1>4, <1>5, <1>6 DEF MNext

(* From the bound on a job knows two ends that are what CI saw: the last    *)
(* green run built its commit, and the run the job was called for shows at  *)
(* the bad end what the delta says passed at the good one.                  *)
LEMMA EndsSeen ==
    ASSUME "hide" \notin Faults, IInv, EvInv, TruthInv,
           job.pc \in {"bisect", "file"}, job.goodRun # 0, job.commit # 0
    PROVE  /\ job.good \in Commit /\ truth[job.good].builds
           /\ job.type = "build" => ~ truth[job.commit].builds
           /\ job.type \in TestTypes => job.tests # {}
           /\ job.type = "dejagnu" => /\ job.tests \subseteq truth[job.commit].dj
                                      /\ job.tests \cap truth[job.good].dj = {}
           /\ job.type = "sh-sim" => /\ job.tests \subseteq truth[job.commit].sim
                                     /\ job.tests \cap truth[job.good].sim = {}
  <1>1. PICK g, i : g = job.goodRun /\ i = job.run
    OBVIOUS
  <1>2. /\ g \in DOMAIN runs /\ Green(g) /\ job.good = runs[g].commit
    BY <1>1 DEF TruthInv, BoundGreen, IInv, JobsInv, JobRange
  <1>3. RunTrue(g)
    BY <1>2 DEF TruthInv, RunsTrue
  <1>4. job.good \in Commit /\ truth[job.good].builds
    <2>1. runs[g] \in Run
      BY <1>2, RunType DEF IInv
    <2>2. runs[g].commit \in Commit
      BY <2>1 DEF Run
    <2> QED BY <1>2, <1>3, <2>2 DEF RunTrue, Green
  <1>5. ASSUME job.kind = "call"
        PROVE  /\ i \in DOMAIN runs /\ RunTrue(i) /\ job.commit = runs[i].commit
               /\ LastGreen(g)
    BY <1>1, <1>2, <1>5 DEF IInv, TypeInv, RunsNamed, JobsInv, JobsOwned, Owned,
         TruthInv, RunsTrue, EvInv, JobEvid, BoundFound
  <1>6. CASE job.type = "build"
    <2>1. /\ job.kind = "call" /\ runs[i].result = "failure" /\ runs[i].step = "build"
      BY <1>1, <1>6 DEF TruthInv, BuildFound, Reporting
    <2> QED BY <1>4, <1>5, <1>6, <2>1 DEF RunTrue, TestTypes
  <1>7. CASE job.type \in TestTypes
    <2>1. /\ job.kind = "call" /\ job.tests # {} /\ job.tests \subseteq Fails(job.type, i)
          /\ \E d \in DOMAIN runs : LastGreen(d) /\ job.tests \cap Fails(job.type, d) = {}
      BY <1>1, <1>7 DEF EvInv, JobEvid, DeltaFound
    <2>2. DOMAIN runs = 1..Len(runs) /\ Len(runs) \in Nat
      BY LenProperties DEF IInv, TypeInv, TypeOK
    <2>3. \A d \in DOMAIN runs : LastGreen(d) => d = g
      BY <1>5, <2>1, <2>2 DEF LastGreen
    <2>4. job.tests \cap Fails(job.type, g) = {}
      BY <2>1, <2>3
    <2>5. Fails(job.type, i) # {} /\ runs[i] \in Run /\ runs[i].result # "pending"
      <3>1. i \in DOMAIN runs /\ runs[i].result # "pending"
        BY <1>1, <2>1 DEF IInv, TypeInv, RunsNamed, JobsInv, JobsOwned, Owned
      <3> QED BY <2>1, <3>1, RunType DEF IInv
    <2>6. runs[i].result = "success"
      BY <1>5, <2>1, <2>5 DEF RunTrue, Run, Results, Fails
    <2>7. /\ runs[i].dj = truth[job.commit].dj /\ runs[i].sim \subseteq truth[job.commit].sim
          /\ runs[g].dj = truth[job.good].dj
      BY <1>2, <1>3, <1>5, <2>1, <2>6 DEF RunTrue, Green
    <2>8. CASE job.type = "dejagnu"
      BY <1>4, <2>1, <2>4, <2>7, <2>8 DEF Fails
    <2>9. CASE job.type = "sh-sim"
      <3>1. runs[g].sim = truth[job.good].sim
        BY <1>2, <2>3, <2>9 DEF TruthInv, SimWhole, Reporting
      <3> QED BY <1>4, <2>1, <2>4, <2>7, <2>9, <3>1 DEF Fails
    <2> QED BY <1>7, <2>8, <2>9 DEF TestTypes
  <1>8. CASE job.type \notin {"build"} \cup TestTypes
    BY <1>4, <1>8 DEF TestTypes
  <1> QED BY <1>6, <1>7, <1>8

(* The invariants of the loop, which EndsSeen needs, and each step of it    *)
(* keeps.                                                                   *)
LoopInv == MonitorInv /\ LoopTypes /\ IInv /\ EvInv /\ TruthInv

LEMMA LoopInit == MInit => LoopInv
  BY InitIInv, EvInit, TruthInit, MonitorInit DEF MInit, LoopTypes, LoopInv

LEMMA LoopStep == LoopInv /\ [MNext]_allVars => LoopInv'
  BY MonitorStep, LoopTypesStep, StepIInv, EvStep, TruthStep DEF LoopInv

(* A bisect starts between ends that are what CI saw, and so never between  *)
(* two that the failure does not lie between.  Without the fault that hides *)
(* a state file, for with it the bound may be another run than the one the  *)
(* delta was taken against.                                                 *)
THEOREM BisectStartsSound ==
    ASSUME "hide" \notin Faults
    PROVE  MSpec => []BisectEndsAsSeen
  <1>1. LoopInv => BisectEndsAsSeen
    <2> SUFFICES ASSUME LoopInv, job.pc = "bisect", Bisectable
                 PROVE  BisectEndsAsSeen
      BY DEF BisectEndsAsSeen
    <2>1. job.goodRun # 0 /\ job.commit # 0
      BY DEF LoopInv, TruthInv, BoundGreen, Bisectable
    <2> QED BY <2>1, EndsSeen DEF LoopInv, BisectEndsAsSeen
  <1> QED BY <1>1, LoopInit, LoopStep, PTL DEF MSpec

-----------------------------------------------------------------------------
(* The queue *)

StartedRuns == {i \in DOMAIN runs : Started(i)}

(* The run at the head of those that have not concluded is active, at most  *)
(* one waits, and one of the runs started is the last of them.              *)
Headed == \A i \in DOMAIN runs :
            runs[i].conclusion = "none" => \E a \in DOMAIN runs : Active(a)
OneWaits == \A i, j \in DOMAIN runs : Waiting(i) /\ Waiting(j) => i = j
IsLast(m) == m \in StartedRuns /\ \A j \in StartedRuns : j <= m
HasLast == StartedRuns # {} => \E m \in StartedRuns : IsLast(m)

QueueInv == Headed /\ OneWaits /\ HasLast

(* The variables of SyncCI in the composition. *)
QRunning == CommitsOf({i \in DOMAIN runs : Active(i)})
QWaiting == CommitsOf({i \in DOMAIN runs : Waiting(i)})
QTested == {0} \cup CommitsOf({i \in DOMAIN runs :
                                 Started(i) /\ runs[i].conclusion # "none"})

LEMMA RunIndices ==
    ASSUME TypeInv
    PROVE  DOMAIN runs = 1..Len(runs) /\ Len(runs) \in Nat
  BY LenProperties DEF TypeInv, TypeOK

(* One run at most is active, and those that wait come after it with their  *)
(* builds still to do.                                                      *)
LEMMA OneActive ==
    ASSUME TypeInv, NEW a \in DOMAIN runs, NEW b \in DOMAIN runs, Active(a), Active(b)
    PROVE  a = b
  <1>1. a \in 1..Len(runs) /\ b \in 1..Len(runs) /\ Len(runs) \in Nat
    BY RunIndices
  <1>2. ~ (a < b) /\ ~ (b < a)
    BY <1>1 DEF Active
  <1> QED BY <1>1, <1>2

LEMMA WaitsBehind ==
    ASSUME TypeInv, RunsInv, NEW w \in DOMAIN runs, Waiting(w)
    PROVE  /\ runs[w].result = "pending" /\ ~ Started(w)
           /\ \A a \in DOMAIN runs : Active(a) => a < w
  <1>1. w \in 1..Len(runs) /\ Len(runs) \in Nat /\ DOMAIN runs = 1..Len(runs)
    BY RunIndices
  <1>2. PICK j \in 1..(w - 1) : runs[j].conclusion = "none"
    BY DEF Waiting, Active
  <1>3. j \in DOMAIN runs /\ j < w
    BY <1>1
  <1>4. runs[w].result = "pending"
    BY <1>2, <1>3 DEF RunsInv, Ordered
  <1>5. ASSUME NEW a \in DOMAIN runs, Active(a) PROVE a < w
    <2>1. ~ (j < a)
      BY <1>1, <1>2, <1>5 DEF Active
    <2> QED BY <1>1, <1>3, <2>1
  <1> QED BY <1>4, <1>5 DEF Waiting, Started

(* The value of Latest, whichever history it is taken of. *)
LEMMA LastOf ==
    ASSUME NEW S, S \subseteq Nat, NEW m \in S, \A j \in S : j <= m
    PROVE  (CHOOSE i \in S : \A j \in S : j <= i) = m
  <1>1. \E i \in S : \A j \in S : j <= i
    OBVIOUS
  <1>2. PICK top : top = CHOOSE i \in S : \A j \in S : j <= i
    OBVIOUS
  <1>3. top \in S /\ \A j \in S : j <= top
    BY <1>1, <1>2
  <1> QED BY <1>2, <1>3

LEMMA LatestValue ==
    ASSUME NEW S, S \subseteq Nat, NEW R, NEW L,
           L = IF S = {} THEN 0
               ELSE R[CHOOSE i \in S : \A j \in S : j <= i].commit - 1
    PROVE  /\ S = {} => L = 0
           /\ \A m \in S : (\A j \in S : j <= m) => L = R[m].commit - 1
  BY LastOf

LEMMA LatestNow ==
    ASSUME TypeInv
    PROVE  /\ StartedRuns = {} => Latest = 0
           /\ \A m : IsLast(m) => Latest = runs[m].commit - 1
  <1>1. StartedRuns \subseteq Nat
    BY RunIndices DEF StartedRuns
  <1>2. Latest = IF StartedRuns = {} THEN 0
                 ELSE runs[CHOOSE i \in StartedRuns : \A j \in StartedRuns : j <= i].commit - 1
    BY DEF Latest, StartedRuns
  <1>3. PICK S, L, R : S = StartedRuns /\ L = Latest /\ R = runs
    OBVIOUS
  <1>4. /\ S \subseteq Nat
        /\ L = IF S = {} THEN 0 ELSE R[CHOOSE i \in S : \A j \in S : j <= i].commit - 1
    BY <1>1, <1>2, <1>3
  <1>5. /\ S = {} => L = 0
        /\ \A m \in S : (\A j \in S : j <= m) => L = R[m].commit - 1
    BY <1>4, LatestValue
  <1> QED BY <1>3, <1>5 DEF IsLast

LEMMA LatestNext ==
    ASSUME TypeInv'
    PROVE  /\ StartedRuns' = {} => Latest' = 0
           /\ \A m : IsLast(m)' => Latest' = runs'[m].commit - 1
  <1>1. StartedRuns' \subseteq Nat
    <2>1. DOMAIN runs' = 1..Len(runs') /\ Len(runs') \in Nat
      BY LenProperties DEF TypeInv, TypeOK
    <2> QED BY <2>1 DEF StartedRuns
  <1>2. Latest' = IF StartedRuns' = {} THEN 0
                  ELSE runs'[CHOOSE i \in StartedRuns' : \A j \in StartedRuns' : j <= i].commit - 1
    BY DEF Latest, StartedRuns
  <1>3. PICK S, L, R : S = StartedRuns' /\ L = Latest' /\ R = runs'
    OBVIOUS
  <1>4. /\ S \subseteq Nat
        /\ L = IF S = {} THEN 0 ELSE R[CHOOSE i \in S : \A j \in S : j <= i].commit - 1
    BY <1>1, <1>2, <1>3
  <1>5. /\ S = {} => L = 0
        /\ \A m \in S : (\A j \in S : j <= m) => L = R[m].commit - 1
    BY <1>4, LatestValue
  <1> QED BY <1>3, <1>5 DEF IsLast

LEMMA LatestKept ==
    ASSUME TypeInv, TypeInv', HasLast, StartedRuns' = StartedRuns,
           \A i \in StartedRuns : runs'[i].commit = runs[i].commit
    PROVE  Latest' = Latest /\ HasLast'
  <1>1. CASE StartedRuns = {}
    BY <1>1, LatestNow, LatestNext DEF HasLast
  <1>2. CASE StartedRuns # {}
    <2>1. PICK m \in StartedRuns : IsLast(m)
      BY <1>2 DEF HasLast
    <2>2. IsLast(m)'
      BY <2>1 DEF IsLast
    <2> QED BY <2>1, <2>2, LatestNow, LatestNext DEF HasLast
  <1> QED BY <1>1, <1>2

(* The same runs are active, waiting and started after a step of others.    *)
LEMMA SameStanding ==
    ASSUME TypeInv, SameQueue, NEW i \in DOMAIN runs
    PROVE  /\ i \in DOMAIN runs' /\ runs'[i].commit = runs[i].commit
           /\ runs'[i].conclusion = runs[i].conclusion
           /\ Active(i)' <=> Active(i)
           /\ Waiting(i)' <=> Waiting(i)
           /\ Started(i)' <=> Started(i)
  <1>1. \A j \in 1..(i - 1) : j \in DOMAIN runs
    BY RunIndices
  <1>2. Active(i)' <=> Active(i)
    BY <1>1 DEF SameQueue, SameCommits, Active
  <1>3. Waiting(i)' <=> Waiting(i)
    BY <1>2 DEF SameQueue, Waiting
  <1>4. Started(i)' <=> Started(i)
    BY <1>2 DEF SameQueue, Started
  <1> QED BY <1>2, <1>3, <1>4 DEF SameQueue, SameCommits

LEMMA QueueSame ==
    ASSUME TypeInv, TypeInv', QueueInv, SameQueue
    PROVE  QueueInv' /\ UNCHANGED <<QRunning, QWaiting, QTested, Latest>>
  <1>1. DOMAIN runs' = DOMAIN runs
    BY DEF SameQueue, SameCommits
  <1>2. ASSUME NEW i \in DOMAIN runs
        PROVE  /\ runs'[i].commit = runs[i].commit
               /\ runs'[i].conclusion = runs[i].conclusion
               /\ Active(i)' <=> Active(i)
               /\ Waiting(i)' <=> Waiting(i)
               /\ Started(i)' <=> Started(i)
    BY SameStanding
  <1>3. Headed' /\ OneWaits'
    BY <1>1, <1>2 DEF QueueInv, Headed, OneWaits
  <1>4. StartedRuns' = StartedRuns
    BY <1>1, <1>2 DEF StartedRuns
  <1>5. Latest' = Latest /\ HasLast'
    BY <1>2, <1>4, LatestKept DEF QueueInv, StartedRuns
  <1>6. QRunning' = QRunning
    BY <1>1, <1>2 DEF QRunning, CommitsOf
  <1>7. QWaiting' = QWaiting
    BY <1>1, <1>2 DEF QWaiting, CommitsOf
  <1>8. QTested' = QTested
    BY <1>1, <1>2 DEF QTested, CommitsOf
  <1> QED BY <1>3, <1>5, <1>6, <1>7, <1>8 DEF QueueInv

(* Queueing a run: it starts when nothing is active, and otherwise waits in *)
(* the place of the one that waited.                                        *)
LEMMA EnqueueStanding ==
    ASSUME TypeInv, RunsInv, NEW c \in Commit, Enqueue(c), NEW n, n = Len(runs) + 1
    PROVE  /\ DOMAIN runs' = DOMAIN runs \cup {n} /\ n \notin DOMAIN runs
           /\ \A j \in DOMAIN runs : j < n
           /\ runs'[n] = NewRun(c)
           /\ \A i \in DOMAIN runs :
                /\ runs'[i].commit = runs[i].commit
                /\ Active(i)' <=> Active(i)
                /\ ~ Waiting(i)'
                /\ Started(i)' <=> Started(i)
                /\ Started(i) => runs'[i].conclusion = runs[i].conclusion
           /\ Active(n)' <=> ~ \E a \in DOMAIN runs : Active(a)
           /\ Waiting(n)' <=> \E a \in DOMAIN runs : Active(a)
           /\ Started(n)' <=> Active(n)'
  <1>1. /\ TypeInv' /\ Len(runs') = Len(runs) + 1
        /\ runs'[n] = NewRun(c)
        /\ \A i \in DOMAIN runs :
             runs'[i] = IF Waiting(i)
                        THEN [runs[i] EXCEPT !.conclusion = "cancelled",
                                             !.verdict = "cancelled"]
                        ELSE runs[i]
    BY EnqueueType
  <1>2. /\ DOMAIN runs = 1..Len(runs) /\ Len(runs) \in Nat
        /\ DOMAIN runs' = 1..(Len(runs) + 1)
    BY <1>1, LenProperties DEF TypeInv, TypeOK
  <1>3. /\ DOMAIN runs' = DOMAIN runs \cup {n} /\ n \notin DOMAIN runs
        /\ \A j \in DOMAIN runs : j < n
    BY <1>2
  <1>4. ASSUME NEW i \in DOMAIN runs
        PROVE  /\ runs'[i].commit = runs[i].commit /\ runs'[i].result = runs[i].result
               /\ Waiting(i) => runs'[i].conclusion = "cancelled"
               /\ ~ Waiting(i) => runs'[i].conclusion = runs[i].conclusion
    <2>1. runs[i] \in Run
      BY RunType
    <2> QED BY <1>1, <2>1 DEF Run
  <1>5. ASSUME NEW i \in DOMAIN runs
        PROVE  runs'[i].conclusion = "none" <=> Active(i)
    BY <1>4 DEF Waiting, Active
  <1>6. ASSUME NEW i \in DOMAIN runs
        PROVE  /\ Active(i)' <=> Active(i)
               /\ ~ Waiting(i)'
    <2>1. i \in 1..Len(runs) /\ \A j \in 1..(i - 1) : j \in DOMAIN runs
      BY <1>2
    <2>2. ASSUME Active(i), NEW j \in 1..(i - 1) PROVE runs'[j].conclusion # "none"
      <3>1. j \in DOMAIN runs /\ runs[j].conclusion # "none"
        BY <2>1, <2>2 DEF Active
      <3> QED BY <1>5, <3>1 DEF Active
    <2>3. Active(i)' <=> Active(i)
      BY <1>5, <2>2 DEF Active
    <2> QED BY <1>5, <2>3 DEF Waiting
  <1>7. ASSUME NEW i \in DOMAIN runs
        PROVE  /\ Started(i)' <=> Started(i)
               /\ Started(i) => runs'[i].conclusion = runs[i].conclusion
    BY <1>4, <1>6, WaitsBehind DEF Started
  <1>8. NewRun(c).conclusion = "none" /\ NewRun(c).result = "pending"
    BY DEF NewRun
  <1>9. Active(n)' <=> ~ \E a \in DOMAIN runs : Active(a)
    <2>1. 1..(n - 1) = DOMAIN runs
      BY <1>2
    <2> QED BY <1>1, <1>5, <1>8, <2>1 DEF Active
  <1>10. Waiting(n)' <=> \E a \in DOMAIN runs : Active(a)
    BY <1>1, <1>8, <1>9 DEF Waiting
  <1>11. Started(n)' <=> Active(n)'
    BY <1>1, <1>8 DEF Started
  <1> QED BY <1>1, <1>3, <1>4, <1>6, <1>7, <1>9, <1>10, <1>11

LEMMA QueueEnqueue ==
    ASSUME TypeInv, RunsInv, QueueInv, NEW c \in Commit, Enqueue(c)
    PROVE  /\ QueueInv'
           /\ IF QRunning = {}
              THEN QRunning' = {c - 1} /\ Latest' = c - 1 /\ QWaiting' = QWaiting
              ELSE QWaiting' = {c - 1} /\ UNCHANGED <<QRunning, Latest>>
           /\ QTested' = QTested
  <1>1. PICK n : n = Len(runs) + 1
    OBVIOUS
  <1>2. /\ DOMAIN runs' = DOMAIN runs \cup {n} /\ n \notin DOMAIN runs
        /\ \A j \in DOMAIN runs : j < n
        /\ runs'[n] = NewRun(c)
        /\ \A i \in DOMAIN runs :
             /\ runs'[i].commit = runs[i].commit
             /\ Active(i)' <=> Active(i)
             /\ ~ Waiting(i)'
             /\ Started(i)' <=> Started(i)
             /\ Started(i) => runs'[i].conclusion = runs[i].conclusion
        /\ Active(n)' <=> ~ \E a \in DOMAIN runs : Active(a)
        /\ Waiting(n)' <=> \E a \in DOMAIN runs : Active(a)
        /\ Started(n)' <=> Active(n)'
    BY <1>1, EnqueueStanding
  <1>3. runs'[n].commit = c /\ runs'[n].conclusion = "none"
    <2>1. NewRun(c).commit = c /\ NewRun(c).conclusion = "none"
      BY DEF NewRun
    <2>2. runs'[n] = NewRun(c)
      BY <1>2
    <2> QED BY <2>1, <2>2
  <1>4. TypeInv'
    BY EnqueueType
  <1>5. Headed'
    <2>1. \E a \in DOMAIN runs' : Active(a)'
      BY <1>2
    <2> QED BY <2>1 DEF Headed
  <1>6. OneWaits'
    BY <1>2 DEF OneWaits
  <1>7. QTested' = QTested
    <2>1. {i \in DOMAIN runs' : Started(i)' /\ runs'[i].conclusion # "none"}
            = {i \in DOMAIN runs : Started(i) /\ runs[i].conclusion # "none"}
      BY <1>2, <1>3
    <2>2. \A i \in DOMAIN runs : runs'[i].commit - 1 = runs[i].commit - 1
      BY <1>2
    <2> QED BY <2>1, <2>2 DEF QTested, CommitsOf
  <1>8. CASE \E a \in DOMAIN runs : Active(a)
    <2>1. StartedRuns' = StartedRuns
      BY <1>2, <1>8 DEF StartedRuns
    <2>2. Latest' = Latest /\ HasLast'
      BY <1>2, <1>4, <2>1, LatestKept DEF QueueInv, StartedRuns
    <2>3. {i \in DOMAIN runs' : Active(i)'} = {i \in DOMAIN runs : Active(i)}
      BY <1>2, <1>8
    <2>4. \A i \in DOMAIN runs : runs'[i].commit - 1 = runs[i].commit - 1
      BY <1>2
    <2>5. QRunning' = QRunning
      BY <2>3, <2>4 DEF QRunning, CommitsOf
    <2>6. {i \in DOMAIN runs' : Waiting(i)'} = {n}
      BY <1>2, <1>8
    <2>7. QWaiting' = {c - 1}
      BY <1>3, <2>6 DEF QWaiting, CommitsOf
    <2>8. QRunning # {}
      BY <1>8 DEF QRunning, CommitsOf
    <2> QED BY <1>5, <1>6, <1>7, <2>2, <2>5, <2>7, <2>8 DEF QueueInv
  <1>9. CASE ~ \E a \in DOMAIN runs : Active(a)
    <2>1. StartedRuns' = StartedRuns \cup {n}
      BY <1>2, <1>9 DEF StartedRuns
    <2>2. \A j \in StartedRuns' : j <= n
      <3>1. DOMAIN runs' = 1..Len(runs') /\ Len(runs') \in Nat
        BY <1>4, LenProperties DEF TypeInv, TypeOK
      <3> QED BY <1>2, <2>1, <3>1 DEF StartedRuns
    <2>3. IsLast(n)'
      BY <2>1, <2>2 DEF IsLast
    <2>4. Latest' = c - 1
      BY <1>3, <1>4, <2>3, LatestNext
    <2>5. HasLast'
      BY <2>1, <2>3 DEF HasLast
    <2>6. {i \in DOMAIN runs' : Active(i)'} = {n}
      BY <1>2, <1>9
    <2>7. QRunning' = {c - 1}
      BY <1>3, <2>6 DEF QRunning, CommitsOf
    <2>8. QRunning = {}
      BY <1>9 DEF QRunning, CommitsOf
    <2>9. {i \in DOMAIN runs' : Waiting(i)'} = {}
      BY <1>2, <1>9
    <2>10. {i \in DOMAIN runs : Waiting(i)} = {}
      BY <1>9 DEF QueueInv, Headed, Waiting
    <2>11. QWaiting' = QWaiting
      BY <2>9, <2>10 DEF QWaiting, CommitsOf
    <2> QED BY <1>5, <1>6, <1>7, <2>4, <2>5, <2>7, <2>8, <2>11 DEF QueueInv
  <1> QED BY <1>8, <1>9

(* A conclusion makes the waiting run, if any, the active one. *)
LEMMA ConcludeStanding ==
    ASSUME TypeInv, RunsInv, QueueInv, NEW i \in DOMAIN runs, Conclude(i)
    PROVE  /\ DOMAIN runs' = DOMAIN runs
           /\ Active(i) /\ Started(i)
           /\ \A j \in DOMAIN runs :
                /\ runs'[j].commit = runs[j].commit
                /\ j # i => runs'[j].conclusion = runs[j].conclusion /\ ~ Active(j)
                /\ Active(j)' <=> Waiting(j)
                /\ ~ Waiting(j)'
                /\ Started(j)' <=> Started(j) \/ Waiting(j)
           /\ runs[i].conclusion = "none" /\ runs'[i].conclusion # "none"
  <1>1. PICK r \in Run : /\ runs' = [runs EXCEPT ![i] = r]
                         /\ r.commit = runs[i].commit /\ r.result = runs[i].result
                         /\ r.conclusion # "none"
    BY ConcludeEffect
  <1>2. /\ DOMAIN runs' = DOMAIN runs
        /\ \A j \in DOMAIN runs : runs'[j] = IF j = i THEN r ELSE runs[j]
    BY <1>1, ReplaceSameCommits DEF SameCommits
  <1>3. Active(i) /\ runs[i].conclusion = "none" /\ runs[i].result # "pending"
    BY DEF Conclude, Active, RunsInv, Progress
  <1>4. ASSUME NEW j \in DOMAIN runs, j # i PROVE ~ Active(j)
    BY <1>3, <1>4, OneActive
  <1>5. ASSUME NEW j \in DOMAIN runs PROVE Active(j)' <=> Waiting(j)
    <2>1. \A k \in 1..(j - 1) : k \in DOMAIN runs /\ k # j
      BY RunIndices
    <2>2. ASSUME Active(j)' PROVE Waiting(j)
      <3>1. runs[j].conclusion = "none" /\ j # i
        BY <1>1, <1>2, <2>2 DEF Active
      <3> QED BY <1>4, <3>1 DEF Waiting
    <2>3. ASSUME Waiting(j) PROVE Active(j)'
      <3>1. j # i /\ runs'[j].conclusion = "none"
        BY <1>2, <1>3, <2>3 DEF Waiting
      <3>2. ASSUME NEW k \in 1..(j - 1) PROVE runs'[k].conclusion # "none"
        <4>1. k \in DOMAIN runs /\ k # j
          BY <2>1
        <4>2. k # i => runs[k].conclusion # "none"
          BY <1>4, <2>3, <4>1 DEF Waiting, QueueInv, OneWaits
        <4> QED BY <1>1, <1>2, <4>1, <4>2
      <3> QED BY <3>1, <3>2 DEF Active
    <2> QED BY <2>2, <2>3
  <1>6. ASSUME NEW j \in DOMAIN runs PROVE ~ Waiting(j)'
    <2> SUFFICES ASSUME Waiting(j)' PROVE FALSE
      OBVIOUS
    <2>1. runs[j].conclusion = "none" /\ j # i /\ ~ Active(j)'
      BY <1>1, <1>2 DEF Waiting
    <2> QED BY <1>4, <1>5, <2>1 DEF Waiting
  <1>7. ASSUME NEW j \in DOMAIN runs PROVE Started(j)' <=> Started(j) \/ Waiting(j)
    BY <1>1, <1>2, <1>3, <1>4, <1>5 DEF Started
  <1> QED BY <1>1, <1>2, <1>3, <1>4, <1>5, <1>6, <1>7 DEF Started

LEMMA QueueConclude ==
    ASSUME TypeInv, RunsInv, QueueInv, NEW i \in DOMAIN runs, Conclude(i)
    PROVE  /\ QueueInv' /\ QRunning # {}
           /\ QTested' = QTested \cup QRunning
           /\ QRunning' = QWaiting /\ QWaiting' = {}
           /\ Latest' \in IF QWaiting = {} THEN {Latest} ELSE QWaiting
  <1>1. /\ DOMAIN runs' = DOMAIN runs
        /\ Active(i) /\ Started(i)
        /\ \A j \in DOMAIN runs :
             /\ runs'[j].commit = runs[j].commit
             /\ j # i => runs'[j].conclusion = runs[j].conclusion /\ ~ Active(j)
             /\ Active(j)' <=> Waiting(j)
             /\ ~ Waiting(j)'
             /\ Started(j)' <=> Started(j) \/ Waiting(j)
        /\ runs[i].conclusion = "none" /\ runs'[i].conclusion # "none"
    BY ConcludeStanding
  <1>2. TypeInv'
    BY ConcludeEffect
  <1>3. \A w \in DOMAIN runs : Waiting(w) => ~ Started(w) /\ runs[w].conclusion = "none"
    BY WaitsBehind DEF Waiting
  <1>4. Headed' /\ OneWaits'
    BY <1>1 DEF Headed, OneWaits, Waiting
  <1>5. {j \in DOMAIN runs : Active(j)} = {i}
    BY <1>1
  <1>6. QRunning = {runs[i].commit - 1}
    BY <1>5 DEF QRunning, CommitsOf
  <1>7. QTested' = QTested \cup QRunning
    <2>1. {j \in DOMAIN runs' : Started(j)' /\ runs'[j].conclusion # "none"}
            = {j \in DOMAIN runs : Started(j) /\ runs[j].conclusion # "none"} \cup {i}
      BY <1>1, <1>3
    <2> QED BY <1>1, <1>6, <2>1 DEF QTested, CommitsOf
  <1>8. QRunning' = QWaiting
    <2>1. {j \in DOMAIN runs' : Active(j)'} = {j \in DOMAIN runs : Waiting(j)}
      BY <1>1
    <2> QED BY <1>1, <2>1 DEF QRunning, QWaiting, CommitsOf
  <1>9. QWaiting' = {}
    BY <1>1 DEF QWaiting, CommitsOf
  <1>10. CASE \E w \in DOMAIN runs : Waiting(w)
    <2>1. PICK w \in DOMAIN runs : Waiting(w)
      BY <1>10
    <2>2. runs[w].commit - 1 \in QWaiting
      BY <2>1 DEF QWaiting, CommitsOf
    <2>3. ASSUME NEW j \in StartedRuns' PROVE j <= w
      <3>1. j \in DOMAIN runs /\ (Started(j) \/ Waiting(j))
        BY <1>1 DEF StartedRuns
      <3>2. w \in Nat /\ j \in Nat
        BY <3>1, RunIndices
      <3>3. CASE Waiting(j)
        BY <2>1, <3>1, <3>2, <3>3 DEF QueueInv, OneWaits
      <3>4. CASE Active(j)
        BY <2>1, <3>1, <3>2, <3>4, WaitsBehind
      <3>5. CASE runs[j].result # "pending"
        <4>1. ~ (w < j)
          BY <1>3, <2>1, <3>1, <3>5 DEF RunsInv, Ordered
        <4> QED BY <3>2, <4>1
      <3> QED BY <3>1, <3>3, <3>4, <3>5 DEF Started
    <2>4. w \in StartedRuns'
      BY <1>1, <2>1 DEF StartedRuns
    <2>5. IsLast(w)'
      BY <2>3, <2>4 DEF IsLast
    <2>6. HasLast' /\ Latest' = runs[w].commit - 1
      BY <1>1, <1>2, <2>4, <2>5, LatestNext DEF HasLast
    <2> QED BY <1>4, <1>6, <1>7, <1>8, <1>9, <2>2, <2>6 DEF QueueInv
  <1>11. CASE ~ \E w \in DOMAIN runs : Waiting(w)
    <2>1. StartedRuns' = StartedRuns
      BY <1>1, <1>11 DEF StartedRuns
    <2>2. Latest' = Latest /\ HasLast'
      BY <1>1, <1>2, <2>1, LatestKept DEF QueueInv, StartedRuns
    <2>3. QWaiting = {}
      BY <1>11 DEF QWaiting, CommitsOf
    <2> QED BY <1>4, <1>6, <1>7, <1>8, <1>9, <2>2, <2>3 DEF QueueInv
  <1> QED BY <1>10, <1>11

LEMMA QueueInit == MInit => QueueInv
  <1> SUFFICES ASSUME MInit PROVE QueueInv
    OBVIOUS
  <1>1. DOMAIN runs = {}
    BY DEF MInit, Init
  <1> QED BY <1>1 DEF QueueInv, Headed, OneWaits, HasLast, StartedRuns

(* No run is queued at first, and SyncCI starts with its commit 0 tested.   *)
LEMMA QueuedInit == MInit => Queued!Init
  <1> SUFFICES ASSUME MInit PROVE Queued!Init
    OBVIOUS
  <1>1. DOMAIN runs = {}
    BY DEF MInit, Init
  <1>2. upstream - 1 = 0 /\ lastTested - 1 = 0 /\ seen - 1 = 0
    BY DEF MInit
  <1>3. QRunning = {} /\ QWaiting = {} /\ QTested = {0}
    BY <1>1 DEF QRunning, QWaiting, QTested, CommitsOf
  <1>4. Latest = 0
    <2>1. {i \in DOMAIN runs : Started(i)} = {}
      BY <1>1
    <2> QED BY <2>1 DEF Latest
  <1> QED BY <1>2, <1>3, <1>4 DEF Queued!Init, QRunning, QWaiting, QTested, MInit

(* Every step of Monitor is a step of SyncCI or leaves its variables alone. *)
LEMMA QueueStep ==
    MonitorInv /\ IInv /\ QueueInv /\ [MNext]_allVars =>
        QueueInv' /\ [Queued!Next]_(Queued!vars)
  <1> SUFFICES ASSUME MonitorInv, IInv, QueueInv, [MNext]_allVars
               PROVE  QueueInv' /\ [Queued!Next]_(Queued!vars)
    OBVIOUS
  <1>1. TypeInv /\ TypeInv' /\ RunsInv
    BY MonitorStep DEF MonitorInv, IInv
  <1>2. ASSUME runs' = runs
        PROVE  QueueInv' /\ UNCHANGED <<QRunning, QWaiting, QTested, Latest>>
    BY <1>1, <1>2, SameRunsSameQueue, QueueSame
  <1>3. CASE UNCHANGED allVars
    <2>1. runs' = runs /\ UNCHANGED syncVars
      BY <1>3 DEF allVars, vars
    <2> QED BY <1>2, <2>1 DEF syncVars, Queued!vars, QRunning, QWaiting, QTested
  <1>4. CASE UpstreamCommit \/ SyncCheck \/ OtherPush \/ PushRejected
    <2>1. runs' = runs
      BY <1>4, SyncStep DEF vars
    <2>2. QueueInv' /\ UNCHANGED <<QRunning, QWaiting, QTested, Latest>>
      BY <1>2, <2>1
    <2>3. upstream \in Nat /\ lastTested \in Nat /\ MaxCommit \in Nat
      BY RegressionAssumption DEF MonitorInv, SyncInv, Commit
    <2>4. CASE UpstreamCommit
      <3>1. Queued!UpstreamCommit
        BY <2>2, <2>3, <2>4
           DEF UpstreamCommit, Queued!UpstreamCommit, Queued!ci, QRunning, QWaiting, QTested
      <3> QED BY <2>2, <3>1 DEF Queued!Next
    <2>5. CASE SyncCheck
      <3>1. Queued!SyncCheck
        BY <2>2, <2>3, <2>5
           DEF SyncCheck, Queued!SyncCheck, Queued!ci, QRunning, QWaiting, QTested
      <3> QED BY <2>2, <3>1 DEF Queued!Next
    <2>6. CASE OtherPush
      <3>1. Queued!OtherPush
        BY <2>2, <2>6
           DEF OtherPush, Queued!OtherPush, Queued!ci, QRunning, QWaiting, QTested
      <3> QED BY <2>2, <3>1 DEF Queued!Next
    <2>7. CASE PushRejected
      <3>1. Queued!PushRejected
        BY <2>2, <2>7
           DEF PushRejected, Queued!PushRejected, Queued!ci, QRunning, QWaiting, QTested
      <3> QED BY <2>2, <3>1 DEF Queued!Next
    <2> QED BY <1>4, <2>4, <2>5, <2>6, <2>7
  <1>5. CASE SyncPush
    <2>1. Enqueue(seen) /\ seen \in Commit
      BY <1>5, PushEnqueues DEF MonitorInv, SyncInv
    <2>2. /\ QueueInv'
          /\ IF QRunning = {}
             THEN QRunning' = {seen - 1} /\ Latest' = seen - 1 /\ QWaiting' = QWaiting
             ELSE QWaiting' = {seen - 1} /\ UNCHANGED <<QRunning, Latest>>
          /\ QTested' = QTested
      BY <1>1, <2>1, QueueEnqueue
    <2>3. Queued!Enqueue(seen - 1)
      BY <2>2 DEF Queued!Enqueue, QRunning, QWaiting, QTested
    <2>4. Queued!SyncPush
      BY <1>5, <2>3 DEF SyncPush, Queued!SyncPush
    <2> QED BY <2>2, <2>4 DEF Queued!Next
  <1>6. CASE Retrigger
    <2>1. Enqueue(lastTested) /\ lastTested \in Commit
      BY <1>6, RetriggerEnqueues DEF MonitorInv, SyncInv
    <2>2. /\ QueueInv'
          /\ IF QRunning = {}
             THEN QRunning' = {lastTested - 1} /\ Latest' = lastTested - 1 /\ QWaiting' = QWaiting
             ELSE QWaiting' = {lastTested - 1} /\ UNCHANGED <<QRunning, Latest>>
          /\ QTested' = QTested
      BY <1>1, <2>1, QueueEnqueue
    <2>3. Queued!Enqueue(lastTested - 1)
      BY <2>2 DEF Queued!Enqueue, QRunning, QWaiting, QTested
    <2>4. Queued!Retrigger
      BY <1>6, <2>3 DEF Retrigger, syncVars, Queued!Retrigger
    <2> QED BY <2>2, <2>4 DEF Queued!Next
  <1>7. CASE ConcludeRun
    <2>1. PICK i \in DOMAIN runs : Conclude(i)
      BY <1>7 DEF ConcludeRun
    <2>2. /\ QueueInv' /\ QRunning # {}
          /\ QTested' = QTested \cup QRunning
          /\ QRunning' = QWaiting /\ QWaiting' = {}
          /\ Latest' \in IF QWaiting = {} THEN {Latest} ELSE QWaiting
      BY <1>1, <2>1, QueueConclude
    <2>3. Queued!FinishRun
      BY <1>7, <2>2
         DEF ConcludeRun, syncVars, Queued!FinishRun, QRunning, QWaiting, QTested
    <2> QED BY <2>2, <2>3 DEF Queued!Next
  <1>8. CASE TestRun \/ WatchdogStep \/ Interference
    <2>1. SameQueue /\ UNCHANGED syncVars
      BY <1>8, WatchdogMoves
    <2>2. QueueInv' /\ UNCHANGED <<QRunning, QWaiting, QTested, Latest>>
      BY <1>1, <2>1, QueueSame
    <2> QED BY <2>1, <2>2 DEF syncVars, Queued!vars, QRunning, QWaiting, QTested
  <1> QED BY <1>3, <1>4, <1>5, <1>6, <1>7, <1>8 DEF MNext

(* The runs with their jobs and watchdogs are, to whoever only looks at the *)
(* commits they test, the queue of SyncCI: one run under test, one waiting, *)
(* a conclusion starts the waiting one, and no verdict, dispatch or abort   *)
(* of the watchdog moves the queue.                                         *)
THEOREM MonitorRefinesQueue == MSpec => RefinesQueue
  <1>1. MInit => IInv
    BY InitIInv DEF MInit
  <1> QED BY <1>1, MonitorInit, MonitorStep, StepIInv, QueueInit, QueueStep, QueuedInit, PTL
          DEF MSpec, RefinesQueue, Queued!Spec

-----------------------------------------------------------------------------
(* What the queue promises *)

QueueProofs == INSTANCE SyncCIProofs WITH
                   MaxCommit <- MaxCommit - 1,
                   upstream <- upstream - 1, lastTested <- lastTested - 1, seen <- seen - 1,
                   running <- QRunning, waiting <- QWaiting, tested <- QTested,
                   latest <- Latest

(* The queue that Monitor implements is the one the theorems of SyncCI are  *)
(* about.                                                                   *)
LEMMA QueuedIsSyncCI ==
    /\ Queued!Init => QueueProofs!Init
    /\ [Queued!Next]_(Queued!vars) => [QueueProofs!Next]_(QueueProofs!vars)
  <1>1. Queued!Init => QueueProofs!Init
    BY DEF Queued!Init, QueueProofs!Init, QRunning, QWaiting, QTested
  <1>2. Queued!vars = QueueProofs!vars /\ Queued!vars' = QueueProofs!vars'
    BY DEF Queued!vars, QueueProofs!vars, QRunning, QWaiting, QTested
  <1>3. ASSUME NEW c PROVE Queued!Enqueue(c) => QueueProofs!Enqueue(c)
    BY DEF Queued!Enqueue, QueueProofs!Enqueue, QRunning, QWaiting, QTested
  <1>4. /\ Queued!SyncPush => QueueProofs!SyncPush
        /\ Queued!Retrigger => QueueProofs!Retrigger
    BY <1>3 DEF Queued!SyncPush, QueueProofs!SyncPush, Queued!Retrigger, QueueProofs!Retrigger
  <1>5. /\ Queued!UpstreamCommit => QueueProofs!UpstreamCommit
        /\ Queued!SyncCheck => QueueProofs!SyncCheck
        /\ Queued!OtherPush => QueueProofs!OtherPush
        /\ Queued!PushRejected => QueueProofs!PushRejected
    BY DEF Queued!UpstreamCommit, QueueProofs!UpstreamCommit, Queued!SyncCheck,
           QueueProofs!SyncCheck, Queued!OtherPush, QueueProofs!OtherPush,
           Queued!PushRejected, QueueProofs!PushRejected, Queued!ci, QueueProofs!ci,
           QRunning, QWaiting, QTested
  <1>6. Queued!FinishRun => QueueProofs!FinishRun
    BY DEF Queued!FinishRun, QueueProofs!FinishRun, QRunning, QWaiting, QTested
  <1> QED BY <1>1, <1>2, <1>4, <1>5, <1>6 DEF Queued!Next, QueueProofs!Next

(* The recorded commit is under test, waits, or is over, as the commit of a *)
(* run that started; the first one was tested before.                       *)
RecordedIsNotLost ==
    \/ lastTested = 1
    \/ \E i \in DOMAIN runs : /\ runs[i].commit = lastTested
                              /\ Active(i) \/ Waiting(i) \/ Started(i)

(* However pushes are rejected, runs replaced and watchdogs cancelled, the  *)
(* commit that state/last-tested.json records has a run that started or     *)
(* waits: the run that a newer one cancels is of an older commit.           *)
THEOREM RecordedCommitHasARun == MSpec => []RecordedIsNotLost
  <1>1. MaxCommit - 1 \in Nat
    BY RegressionAssumption, MonitorAssumption
  <1>2. QueueProofs!Spec => []QueueProofs!NewestNotLost
    BY <1>1, QueueProofs!NewestIsNeverLost DEF QueueProofs!SyncAssumption
  <1>3. Queued!Spec => QueueProofs!Spec
    BY QueuedIsSyncCI, PTL DEF Queued!Spec, QueueProofs!Spec
  <1>4. QueueProofs!NewestNotLost /\ MonitorInv => RecordedIsNotLost
    <2> SUFFICES ASSUME lastTested - 1 \in QTested \cup QRunning \cup QWaiting, MonitorInv
                 PROVE  RecordedIsNotLost
      BY DEF QueueProofs!NewestNotLost
    <2>1. lastTested \in Nat
      BY DEF MonitorInv, SyncInv, Commit
    <2>2. CASE lastTested - 1 = 0
      BY <2>1, <2>2 DEF RecordedIsNotLost
    <2>3. CASE \E i \in DOMAIN runs : /\ lastTested - 1 = runs[i].commit - 1
                                      /\ Active(i) \/ Waiting(i) \/ Started(i)
      <3>1. PICK i \in DOMAIN runs : /\ lastTested - 1 = runs[i].commit - 1
                                     /\ Active(i) \/ Waiting(i) \/ Started(i)
        BY <2>3
      <3>2. runs[i].commit \in 1..MaxCommit
        BY RunType DEF MonitorInv
      <3>3. runs[i].commit = lastTested
        BY <2>1, <3>1, <3>2, RegressionAssumption
      <3> QED BY <3>1, <3>3 DEF RecordedIsNotLost
    <2> QED BY <2>2, <2>3 DEF QTested, QRunning, QWaiting, CommitsOf
  <1>5. MSpec => []MonitorInv
    BY MonitorInit, MonitorStep, PTL DEF MSpec
  <1> QED BY <1>2, <1>3, <1>4, <1>5, MonitorRefinesQueue, PTL DEF RefinesQueue

=============================================================================
