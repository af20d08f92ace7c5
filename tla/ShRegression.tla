---------------------------- MODULE ShRegression ----------------------------
(***************************************************************************)
(* The regression watchdog of the SH lane: the job detect-bisect-file of   *)
(* .github/workflows/sh-regression.yml with the scripts it runs            *)
(* (sh-lastgreen.py, sh-dejagnu-delta.py, sh-regression-detect.py,         *)
(* sh-step-command.py, sh-file-issue.py), over the history of ci-full runs *)
(* it reads back from GitHub.                                              *)
(*                                                                         *)
(* The job is called once by every ci-full run, after build-and-test, and  *)
(* may be dispatched by hand.  It reads shared state (the run history, the *)
(* artifacts, the issue list) at several moments, hours apart, while other *)
(* runs, people and artifact expiry change it.  Upstream commits are their *)
(* positions 1..MaxCommit on the linear master branch; 0 is the empty      *)
(* string or null of the scripts.  Runs and issues are named by their      *)
(* position in the histories below, 0 again meaning none.                  *)
(***************************************************************************)
EXTENDS Naturals, Sequences

CONSTANTS
    DjTests,      \* names in gcc.sum (dejagnu lane)
    SimTests,     \* names in the sh-sim sums
    MaxCommit,    \* bound: upstream commits
    MaxRuns,      \* bound: ci-full runs ever queued
    MaxDispatch,  \* bound: manual dispatches of sh-regression
    PerPage,      \* runs sh-lastgreen.py asks GitHub for (50 in the code)
    Faults        \* the faults of the environment this instance includes

FaultKinds == {"download",   \* an artifact download or the jobs query fails
               "hide",       \* one run's state file cannot be read back
               "abort",      \* the job dies: timeout, runner lost, gh error
               "expire"}     \* artifacts reach the end of their retention

ASSUME RegressionAssumption ==
    /\ MaxCommit \in Nat /\ MaxRuns \in Nat /\ MaxDispatch \in Nat
    /\ PerPage \in Nat \ {0}
    /\ Faults \subseteq FaultKinds

VARIABLES
    runs,        \* the ci-full runs, oldest first
    issues,      \* the issues labelled sh-ci-regression, oldest first
    job,         \* the running job of the concurrency group sh-regression
    pend,        \* the one job that may wait in the group
    dispatches   \* manual dispatches so far

vars == <<runs, issues, job, pend, dispatches>>

-----------------------------------------------------------------------------
(* Data *)

Commit == 1..MaxCommit
Results == {"success", "failure", "cancelled"}

(* The first failed step of build-and-test: the compiler build; a step      *)
(* before "Read tested commit", which leaves the commit output empty; a     *)
(* step sh-step-command.py knows; any other step.                           *)
FailedSteps == {"build", "early", "mapped", "unmapped"}

Verdicts == {"none", "failed", "cancelled", "green", "closed", "dedup", "filed"}

Run == [commit: Commit,
        result: Results \cup {"pending"},        \* needs.build-and-test.result
        step: FailedSteps \cup {""},
        dj: SUBSET DjTests, sim: SUBSET SimTests, \* FAILs in the sums
        djArt: BOOLEAN, simArt: BOOLEAN,          \* artifacts still on GitHub
        conclusion: {"none", "completed", "cancelled"},
        verdict: Verdicts,                        \* how its watchdog job ended
        blind: BOOLEAN]                           \* ghost: evidence was missing

Types == {"build", "script", "dejagnu", "sh-sim", "none"}
Pcs == {"idle", "detect", "close", "dedup", "bound", "bisect", "file"}

Job == [kind: {"none", "call", "dispatch"}, run: 0..MaxRuns,
        commit: 0..MaxCommit, result: Results, pc: Pcs,
        type: Types, step: FailedSteps \cup {""},
        tests: SUBSET (DjTests \cup SimTests),
        goodRun: 0..MaxRuns, good: 0..MaxCommit,
        culprit: 0..MaxCommit, narrowed: 0..MaxCommit]

Issue == [type: Types, tests: SUBSET (DjTests \cup SimTests), run: 0..MaxRuns,
          goodRun: 0..MaxRuns, good: 0..MaxCommit, bad: 0..MaxCommit,
          culprit: 0..MaxCommit, narrowed: 0..MaxCommit,
          state: {"open", "bot", "human"}, closedAt: 0..MaxRuns]

NewRun(c) == [commit |-> c, result |-> "pending", step |-> "", dj |-> {},
              sim |-> {}, djArt |-> FALSE, simArt |-> FALSE,
              conclusion |-> "none", verdict |-> "none", blind |-> FALSE]

NewJob(k, i, c, r) ==
    [kind |-> k, run |-> i, commit |-> c, result |-> r, pc |-> "detect",
     type |-> "none", step |-> "", tests |-> {}, goodRun |-> 0, good |-> 0,
     culprit |-> 0, narrowed |-> 0]

NoJob == [NewJob("none", 0, 0, "cancelled") EXCEPT !.pc = "idle"]

(* The shape of the run history, the issue list and the two places of the  *)
(* watchdog's concurrency group, with the fields the scripts pass on.       *)
TypeOK ==
    /\ runs \in Seq(Run) /\ Len(runs) <= MaxRuns
    /\ issues \in Seq(Issue)
    /\ job \in Job /\ pend \in Job
    /\ dispatches \in 0..MaxDispatch

Init ==
    /\ runs = <<>> /\ issues = <<>>
    /\ job = NoJob /\ pend = NoJob
    /\ dispatches = 0

-----------------------------------------------------------------------------
(* The ci-full workflow: a concurrency group of one running and one pending *)
(* run.  Runs are queued in the order of the commits they test (module      *)
(* SyncCI), and a run queued while another waits cancels the waiting one.   *)

\* Variant: ci-full without its concurrency group, every queued run starts.
ActiveUngrouped(i) == runs[i].conclusion = "none"

Active(i) == /\ runs[i].conclusion = "none"
             /\ \A j \in 1..(i - 1) : runs[j].conclusion # "none"

Waiting(i) == runs[i].conclusion = "none" /\ ~ Active(i)

\* Variant: the group cancels the new run and keeps the one that waits.
QueueDropsNew(c) ==
    /\ Len(runs) < MaxRuns
    /\ runs' = Append(runs,
                 IF \E i \in DOMAIN runs : Waiting(i)
                 THEN [NewRun(c) EXCEPT !.conclusion = "cancelled", !.verdict = "cancelled"]
                 ELSE NewRun(c))
    /\ UNCHANGED <<issues, job, pend, dispatches>>

(* A run of commit c joins the group: it is active once all before it have  *)
(* concluded, and takes the place of the run that waits.                    *)
Queue(c) ==
    /\ Len(runs) < MaxRuns
    /\ runs' = Append([i \in DOMAIN runs |->
                          IF Waiting(i)
                          THEN [runs[i] EXCEPT !.conclusion = "cancelled",
                                               !.verdict = "cancelled"]
                          ELSE runs[i]],
                      NewRun(c))
    /\ UNCHANGED <<issues, job, pend, dispatches>>

\* Variant: a run may test a commit older than that of the run before it.
EnqueueAnyOrder(c) == Queue(c)

(* A run of commit c is queued; module Monitor shows that the order of the  *)
(* commits is what the sync and the queue together guarantee.               *)
Enqueue(c) ==
    /\ Len(runs) > 0 => runs[Len(runs)].commit <= c
    /\ Queue(c)

(* Joining the group sh-regression: run at once when it is free, else wait  *)
(* in place of whatever was waiting.                                        *)
JoinGroup(j) ==
    IF job.pc = "idle" THEN job' = j /\ pend' = pend
                       ELSE job' = job /\ pend' = j

(* build-and-test ends and the run calls the watchdog (if: always()).  The  *)
(* dejagnu sums are uploaded by a step that every earlier failure skips;    *)
(* the sh-sim sums may be missing from a successful job, its steps being    *)
(* continue-on-error and its upload if-no-files-found: ignore.              *)
BuildOutcome(i, o) ==
    [runs[i] EXCEPT !.result = o.result, !.step = o.step, !.dj = o.dj,
                    !.sim = o.sim, !.djArt = (o.result = "success"),
                    !.simArt = o.simArt]

Outcomes ==
    [result: {"success"}, step: {""}, dj: SUBSET DjTests,
     sim: SUBSET SimTests, simArt: {TRUE}]
    \cup [result: {"success"}, step: {""}, dj: SUBSET DjTests, sim: {{}}, simArt: {FALSE}]
    \cup [result: {"failure"}, step: FailedSteps, dj: {{}}, sim: {{}}, simArt: {FALSE}]
    \cup [result: {"cancelled"}, step: {""}, dj: {{}}, sim: {{}}, simArt: {FALSE}]

BuildDone(i) ==
    /\ Active(i) /\ runs[i].result = "pending"
    /\ \E o \in Outcomes :
         /\ runs' = [runs EXCEPT ![i] = BuildOutcome(i, o)]
         /\ JoinGroup(NewJob("call", i,
                             IF o.step = "early" THEN 0 ELSE runs[i].commit,
                             o.result))
    /\ UNCHANGED <<issues, dispatches>>

(* workflow_dispatch of sh-regression.yml: a run of its own, without a      *)
(* build-and-test job and without artifacts.  It may push a waiting call    *)
(* out of the group, which cancels that run's watchdog.                     *)
Dispatch(c, r) ==
    /\ dispatches < MaxDispatch
    /\ dispatches' = dispatches + 1
    /\ JoinGroup(NewJob("dispatch", 0, c, r))
    /\ runs' = IF job.pc # "idle" /\ pend.kind = "call"
               THEN [runs EXCEPT ![pend.run].verdict = "cancelled"]
               ELSE runs
    /\ UNCHANGED issues

(* The run concludes once its jobs are over; a cancelled job cancels it.    *)
Conclude(i) ==
    /\ Active(i) /\ runs[i].verdict # "none"
    /\ runs' = [runs EXCEPT ![i].conclusion =
                   IF runs[i].result = "cancelled" \/ runs[i].verdict = "cancelled"
                   THEN "cancelled" ELSE "completed"]
    /\ UNCHANGED <<issues, job, pend, dispatches>>

(* retention-days: 30 of both artifacts runs out.                           *)
Expire(i) ==
    /\ "expire" \in Faults
    /\ runs[i].conclusion # "none" /\ (runs[i].djArt \/ runs[i].simArt)
    /\ runs' = [runs EXCEPT ![i].djArt = FALSE, ![i].simArt = FALSE]
    /\ UNCHANGED <<issues, job, pend, dispatches>>

-----------------------------------------------------------------------------
(* sh-lastgreen.py *)

\* Variant: in-progress runs are not filtered out.
GatheredRunsInProgress(hidden) ==
    {i \in DOMAIN runs : /\ i + PerPage > Len(runs)
                         /\ runs[i].conclusion # "cancelled"
                         /\ i \notin hidden}

(* The page of runs GitHub returns, newest first, without those whose       *)
(* conclusion is None or "cancelled" and without those whose state file     *)
(* could not be fetched (commit None).                                      *)
GatheredRuns(hidden) ==
    {i \in DOMAIN runs : /\ i + PerPage > Len(runs)
                         /\ runs[i].conclusion = "completed"
                         /\ i \notin hidden}

\* Variant: the newest completed run, whatever its build-and-test came to.
PickGoodRunAnyResult(b, hidden) ==
    \/ b = 0 /\ GatheredRuns(hidden) = {}
    \/ b \in GatheredRuns(hidden) /\ \A i \in GatheredRuns(hidden) : i <= b

(* pick_good_run, with the permissive is_test_passing that main() passes:   *)
(* b is the newest gathered run whose build-and-test succeeded, 0 if none.  *)
PickGoodRun(b, hidden) ==
    LET green == {i \in GatheredRuns(hidden) : runs[i].result = "success"}
    IN  \/ b = 0 /\ green = {}
        \/ b \in green /\ \A i \in green : i <= b

HiddenRuns == IF "hide" \in Faults THEN SUBSET DOMAIN runs ELSE {{}}

-----------------------------------------------------------------------------
(* The job *)

\* Variant: the waiting job is lost when the running one ends.
FinishJobDropsWaiter(v) ==
    /\ runs' = IF job.kind = "call" THEN [runs EXCEPT ![job.run].verdict = v]
                                    ELSE runs
    /\ job' = NoJob /\ pend' = NoJob

(* The job ends with verdict v and the waiting job, if any, starts.         *)
FinishJob(v) ==
    /\ runs' = IF job.kind = "call" THEN [runs EXCEPT ![job.run].verdict = v]
                                    ELSE runs
    /\ job' = pend /\ pend' = NoJob

\* Variant: classify falls off its end and prints null.
ClassifyNull(result, step, newDj, newSim) ==
    CASE result = "failure" /\ step = "build" -> "build"
      [] result = "failure" /\ step # "build" -> "script"
      [] result = "success" /\ newDj # {}     -> "dejagnu"
      [] OTHER -> "null"

(* classify of sh-regression-detect.py *)
Classify(result, step, newDj, newSim) ==
    CASE result = "failure" /\ step = "build" -> "build"
      [] result = "failure" /\ step # "build" -> "script"
      [] result = "success" /\ newDj # {}     -> "dejagnu"
      [] result = "success" /\ newDj = {} /\ newSim # {} -> "sh-sim"
      [] OTHER -> "none"

(* What can be missing when the evidence is fetched: the current and the    *)
(* baseline sums of each lane, the last-green answer of each lane, the jobs *)
(* of this run.                                                             *)
Evidence == {"djCur", "djBase", "simCur", "simBase", "djGreen", "simGreen", "jobs"}

LostEvidence ==
    IF "download" \notin Faults THEN {{}}
    ELSE IF job.result = "success" THEN SUBSET (Evidence \ {"jobs"}) ELSE {{}, {"jobs"}}

\* Variant: every FAIL of this run, the stable baseline included.
DeltaWholeRun(cur, base) == cur

(* delta of sh-dejagnu-delta.py: the FAILs of this run that the last-green  *)
(* run did not have.  Without the current sums (read as no FAIL) or without *)
(* a baseline (detection is suppressed) the step writes an empty set.       *)
Delta(cur, base) == cur \ base

AfterClassify(type) == IF type # "none" THEN "dedup" ELSE "close"

(* Both sums of a lane are at hand: this run's, and those of the last-green *)
(* run g.  A dispatched job has no sums of its own.                         *)
HaveDj(lost, g) ==
    /\ job.kind = "call" /\ runs[job.run].djArt /\ g # 0 /\ runs[g].djArt
    /\ lost \cap {"djCur", "djBase", "djGreen"} = {}

HaveSim(lost, g) ==
    /\ job.kind = "call" /\ runs[job.run].simArt /\ g # 0 /\ runs[g].simArt
    /\ lost \cap {"simCur", "simBase", "simGreen"} = {}

NewDj(lost, g) == IF HaveDj(lost, g) THEN Delta(runs[job.run].dj, runs[g].dj) ELSE {}
NewSim(lost, g) == IF HaveSim(lost, g) THEN Delta(runs[job.run].sim, runs[g].sim) ELSE {}

(* Classify on the success path, with the deltas of the two lanes.          *)
Detected(newDj, newSim) ==
    LET type == Classify("success", "", newDj, newSim)
    IN  [job EXCEPT !.pc = AfterClassify(type), !.type = type,
                    !.tests = IF type = "dejagnu" THEN newDj ELSE newSim]

(* Detection on the success path: each lane looks for the last-green run    *)
(* and takes its delta.                                                     *)
DetectSuccess ==
    /\ job.pc = "detect" /\ job.result = "success"
    /\ \E lost \in LostEvidence, djHidden \in HiddenRuns, simHidden \in HiddenRuns,
          d \in 0..Len(runs), s \in 0..Len(runs) :
         /\ PickGoodRun(d, djHidden) /\ PickGoodRun(s, simHidden)
         /\ job' = Detected(NewDj(lost, d), NewSim(lost, s))
         /\ runs' = IF job.kind = "call"
                    THEN [runs EXCEPT ![job.run].blind =
                            ~(/\ HaveDj(lost, d) /\ HaveSim(lost, s)
                              /\ djHidden = {} /\ simHidden = {})]
                    ELSE runs
    /\ UNCHANGED <<issues, pend, dispatches>>

(* Detection on the failure path: the name of the failed step, then         *)
(* Classify; a dispatched job finds no build-and-test job to look into.     *)
DetectFailure ==
    /\ job.pc = "detect" /\ job.result = "failure"
    /\ \E lost \in LostEvidence :
         LET step == IF job.kind = "call" /\ lost = {} THEN runs[job.run].step ELSE ""
             type == Classify("failure", step, {}, {})
         IN job' = [job EXCEPT !.pc = AfterClassify(type), !.type = type, !.step = step]
    /\ UNCHANGED <<runs, issues, pend, dispatches>>

(* A cancelled build classifies as none, and only a success may close.      *)
DetectCancelled ==
    /\ job.pc = "detect" /\ job.result = "cancelled"
    /\ Classify("cancelled", "", {}, {}) = "none"
    /\ FinishJob("green")
    /\ UNCHANGED <<issues, dispatches>>

OpenIssues == {k \in DOMAIN issues : issues[k].state = "open"}

(* gh issue list | .[0]: the newest open issue, 0 when there is none.       *)
NewestOpen(k) ==
    \/ k = 0 /\ OpenIssues = {}
    \/ k \in OpenIssues /\ \A m \in OpenIssues : m <= k

(* Auto-close on green: comment "SH green again", close.                    *)
AutoClose ==
    /\ job.pc = "close"
    /\ \E k \in 0..Len(issues) :
         /\ NewestOpen(k)
         /\ issues' = IF k = 0 THEN issues
                      ELSE [issues EXCEPT ![k].state = "bot", ![k].closedAt = job.run]
         /\ FinishJob(IF k = 0 THEN "green" ELSE "closed")
    /\ UNCHANGED dispatches

\* Variant: the list of open issues is not consulted.
DedupIgnoringOpen ==
    /\ job.pc = "dedup"
    /\ job' = [job EXCEPT !.pc = "bound"]
    /\ UNCHANGED <<runs, issues, pend, dispatches>>

(* Skip if an open regression issue already exists.                         *)
Dedup ==
    /\ job.pc = "dedup"
    /\ IF OpenIssues # {}
       THEN FinishJob("dedup")
       ELSE job' = [job EXCEPT !.pc = "bound"] /\ UNCHANGED <<runs, pend>>
    /\ UNCHANGED <<issues, dispatches>>

(* Find last-green bound: a second reading of the run history.              *)
Bound ==
    /\ job.pc = "bound"
    /\ \E hidden \in HiddenRuns, b \in 0..Len(runs) :
         /\ PickGoodRun(b, hidden)
         /\ job' = [job EXCEPT !.goodRun = b,
                               !.good = IF b = 0 THEN 0 ELSE runs[b].commit,
                               !.pc = IF b = 0 THEN "file" ELSE "bisect"]
    /\ UNCHANGED <<runs, issues, pend, dispatches>>

(* The bisect can start: the range is not empty, git accepts the two ends,  *)
(* and a script failure has a command that reproduces it.                   *)
Bisectable ==
    /\ job.commit # 0 /\ job.good < job.commit
    /\ job.type = "script" => job.step = "mapped"

(* The last commit a bisect may end at.  Of a range of one commit git       *)
(* bisect start checks nothing out, so git bisect run first tests what git  *)
(* clone left: upstream's head, which becomes the bad end if it is bad.     *)
FarEnd == IF job.good + 1 = job.commit THEN MaxCommit ELSE job.commit

(* Bisect (module ShBisect): a culprit, a narrowed end when the time budget *)
(* ran out, or nothing; the step is continue-on-error.                      *)
Bisect ==
    /\ job.pc = "bisect"
    /\ \/ job' = [job EXCEPT !.pc = "file"]
       \/ /\ Bisectable
          /\ \E c \in (job.good + 1)..FarEnd :
               \/ job' = [job EXCEPT !.pc = "file", !.culprit = c]
               \/ job' = [job EXCEPT !.pc = "file", !.narrowed = c]
    /\ UNCHANGED <<runs, issues, pend, dispatches>>

(* Build result JSON and file issue. *)
File ==
    /\ job.pc = "file"
    /\ issues' = Append(issues,
         [type |-> job.type, tests |-> job.tests, run |-> job.run,
          goodRun |-> job.goodRun, good |-> job.good, bad |-> job.commit,
          culprit |-> job.culprit, narrowed |-> job.narrowed,
          state |-> "open", closedAt |-> 0])
    /\ FinishJob("filed")
    /\ UNCHANGED dispatches

(* The job dies before its next step: a gh or API error under bash -e, its  *)
(* timeout, a lost runner ("failed"); or somebody cancels it.               *)
Abort ==
    /\ "abort" \in Faults /\ job.pc # "idle"
    /\ \E v \in {"failed", "cancelled"} : FinishJob(v)
    /\ UNCHANGED <<issues, dispatches>>

(* A maintainer closes an issue at any time. *)
HumanClose ==
    /\ \E k \in OpenIssues : issues' = [issues EXCEPT ![k].state = "human"]
    /\ UNCHANGED <<runs, job, pend, dispatches>>

-----------------------------------------------------------------------------
JobStep == \/ DetectSuccess \/ DetectFailure \/ DetectCancelled
           \/ AutoClose \/ Dedup \/ Bound \/ Bisect \/ File

RunStep == \E i \in DOMAIN runs : BuildDone(i) \/ Conclude(i)

Next ==
    \/ \E c \in Commit : Enqueue(c)
    \/ \E i \in DOMAIN runs : BuildDone(i)
    \/ \E i \in DOMAIN runs : Conclude(i)
    \/ \E i \in DOMAIN runs : Expire(i)
    \/ \E c \in Commit, r \in {"success", "failure"} : Dispatch(c, r)
    \/ DetectSuccess
    \/ DetectFailure
    \/ DetectCancelled
    \/ AutoClose
    \/ Dedup
    \/ Bound
    \/ Bisect
    \/ File
    \/ Abort
    \/ HumanClose

Spec == Init /\ [][Next]_vars

(* Every job of the two workflows has a timeout, so each step of a job that *)
(* runs is eventually over; nothing else is assumed to happen.              *)
FairSpec == Spec /\ WF_vars(RunStep) /\ WF_vars(JobStep)

-----------------------------------------------------------------------------
(* Properties *)

Fails(type, i) == IF type = "dejagnu" THEN runs[i].dj ELSE runs[i].sim
TestTypes == {"dejagnu", "sh-sim"}

(* At most one watchdog issue is open, although the check for an open issue *)
(* (Dedup) and the filing are hours apart and jobs come from two workflows. *)
OneOpenIssue == \A k, m \in OpenIssues : k = m

(* What sh-lastgreen.py asks of the bound (is_test_passing): the run   *)
(* an issue names as good passed every test the issue reports, and the run  *)
(* it names as bad failed them, although the delta and the bound come from  *)
(* two separate readings of the history.                                    *)
GoodBoundPasses ==
    \A k \in DOMAIN issues :
        LET x == issues[k]
        IN  x.type \in TestTypes /\ x.goodRun # 0 =>
              /\ x.tests # {} /\ x.tests \subseteq Fails(x.type, x.run)
              /\ x.tests \cap Fails(x.type, x.goodRun) = {}

(* The bisect range of an issue filed for a ci-full run points forward: its *)
(* good end was tested by an earlier run at the same or an earlier commit,  *)
(* and the culprit or narrowed end lies after it and not beyond the bad end *)
(* (which a search of a range of one commit may leave, see FarEnd).         *)
RangePointsForward ==
    \A k \in DOMAIN issues :
        LET x == issues[k]
        IN  x.run # 0 /\ x.goodRun # 0 /\ x.bad # 0 =>
              /\ x.goodRun < x.run /\ x.good <= x.bad
              /\ \A c \in {x.culprit, x.narrowed} \ {0} :
                    x.good < c /\ (c <= x.bad \/ x.bad = x.good + 1)

(* "Green again" is said by a later run than the one that filed the issue:  *)
(* no watchdog that waited, was overtaken or ran late closes an issue on    *)
(* evidence older than the failure.                                         *)
CloseIsLater ==
    \A k \in DOMAIN issues :
        issues[k].state = "bot" /\ issues[k].closedAt # 0 =>
            issues[k].run < issues[k].closedAt

(* A watchdog that saw all the evidence and stayed quiet (or closed) was    *)
(* right to: the build had not failed, and no test fails that passed in the *)
(* last completed successful run before it.                                 *)
QuietMeansNoNewFailure ==
    \A i \in DOMAIN runs :
        runs[i].verdict \in {"green", "closed"} =>
            /\ runs[i].result # "failure"
            /\ runs[i].result = "success" /\ ~ runs[i].blind =>
                 \A b \in 1..(i - 1) :
                     LET Green(j) == /\ runs[j].conclusion = "completed"
                                     /\ runs[j].result = "success"
                     IN  Green(b) /\ (\A j \in (b + 1)..(i - 1) : ~ Green(j)) =>
                           /\ runs[i].dj \subseteq runs[b].dj
                           /\ runs[i].sim \subseteq runs[b].sim

(* What the closing comment says ("SH green again at <commit>"): when the   *)
(* watchdog of a ci-full run closes a test regression, the tests the issue  *)
(* names no longer fail in that run.                                        *)
GreenMeansFixed ==
    \A k \in DOMAIN issues :
        LET x == issues[k]
        IN  x.state = "bot" /\ x.closedAt # 0 /\ x.type \in TestTypes =>
              x.tests \cap Fails(x.type, x.closedAt) = {}

(* No run waits for ever, neither for its turn in the group ci-full nor for *)
(* its watchdog in the group sh-regression.                                 *)
EveryRunConcludes ==
    \A i \in 1..MaxRuns :
        (i \in DOMAIN runs) ~> (i \in DOMAIN runs /\ runs[i].conclusion # "none")

=============================================================================
