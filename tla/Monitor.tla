------------------------------ MODULE Monitor ------------------------------
(***************************************************************************)
(* The loop as a whole: upstream moves, sync.yml records the head and so   *)
(* queues a ci-full run, build-and-test finds in that run what the commit  *)
(* really is, and the watchdog of ShRegression detects, bounds and files.  *)
(*                                                                         *)
(* Three things no part can show alone: runs are queued in upstream order, *)
(* as ShRegression takes for granted; the queue of runs with their jobs    *)
(* and watchdogs is the queue of SyncCI; and a bisect is started between   *)
(* ends that are what ShBisect supposes of them.                           *)
(*                                                                         *)
(* Commit 1 is the one recorded before.                                    *)
(***************************************************************************)
EXTENDS ShRegression

ASSUME MonitorAssumption == MaxCommit > 0 /\ MaxRuns >= MaxCommit - 1

VARIABLES
    upstream,    \* head of gcc-mirror master
    lastTested,  \* .commit of state/last-tested.json on main
    sync,        \* "idle", or "push": a new head is committed, not yet pushed
    seen,        \* the head the sync job read
    main,        \* "same", or "moved" since the sync job's checkout
    truth        \* what each commit does when built and tested (never changes)

syncVars == <<upstream, lastTested, sync, seen, main>>
allVars == <<vars, syncVars, truth>>

Truths == {t \in [builds : BOOLEAN, dj : SUBSET DjTests, sim : SUBSET SimTests] :
              ~ t.builds => t.dj = {} /\ t.sim = {}}

(* The recorded and polled commits are upstream commits.                    *)
MTypeOK ==
    /\ TypeOK
    /\ upstream \in Commit /\ lastTested \in Commit /\ seen \in Commit
    /\ sync \in {"idle", "push"} /\ main \in {"same", "moved"}
    /\ truth \in [Commit -> Truths]

MInit ==
    /\ Init
    /\ upstream = 1 /\ lastTested = 1 /\ seen = 1
    /\ sync = "idle" /\ main = "same"
    /\ truth \in [Commit -> Truths]

-----------------------------------------------------------------------------
(* Upstream and sync.yml *)

UpstreamCommit ==
    /\ upstream < MaxCommit /\ upstream' = upstream + 1
    /\ UNCHANGED <<vars, lastTested, sync, seen, main, truth>>

(* sync-check.sh: a head that differs from the recorded one is committed.   *)
SyncCheck ==
    /\ sync = "idle" /\ upstream # lastTested
    /\ sync' = "push" /\ seen' = upstream /\ main' = "same"
    /\ UNCHANGED <<vars, upstream, lastTested, truth>>

(* Somebody else pushes to main. *)
OtherPush ==
    /\ sync = "push" /\ main = "same" /\ main' = "moved"
    /\ UNCHANGED <<vars, upstream, lastTested, sync, seen, truth>>

(* The push is accepted and queues a run of what was seen.                  *)
SyncPush ==
    /\ sync = "push" /\ main = "same"
    /\ lastTested' = seen /\ sync' = "idle"
    /\ Queue(seen)
    /\ UNCHANGED <<upstream, seen, main, truth>>

\* Variant: a rejected push still leaves the head recorded.
PushRejectedRecords ==
    /\ sync = "push" /\ main = "moved"
    /\ sync' = "idle" /\ lastTested' = seen
    /\ UNCHANGED <<vars, upstream, seen, main, truth>>

(* The push is rejected, its commit goes with the runner.                   *)
PushRejected ==
    /\ sync = "push" /\ main = "moved"
    /\ sync' = "idle"
    /\ UNCHANGED <<vars, upstream, lastTested, seen, main, truth>>

(* Bound: a re-run leaves room for a run of every commit still to come.     *)
RoomForSync == Len(runs) + (MaxCommit - lastTested) < MaxRuns

\* Variant: a re-run repeats an earlier run with that run's commit.
RetriggerOld ==
    /\ RoomForSync
    /\ \E i \in DOMAIN runs : Queue(runs[i].commit)
    /\ UNCHANGED <<syncVars, truth>>

(* workflow_dispatch, or a rebuilt base image: the commit recorded on main. *)
Retrigger ==
    /\ RoomForSync
    /\ Queue(lastTested)
    /\ UNCHANGED <<syncVars, truth>>

-----------------------------------------------------------------------------
(* ci-full and the watchdog *)

(* What build-and-test of commit c can end with: a step before the tests    *)
(* may fail whatever the commit, a commit that does not build fails in the  *)
(* compiler build, one that does gives its own sums, or loses the sh-sim    *)
(* ones; "abort" adds a job that is cancelled.                              *)
Agrees(o, c) ==
    \/ o.result = "failure" /\ o.step = "early"
    \/ o.result = "failure" /\ (o.step = "build" <=> ~ truth[c].builds)
    \/ /\ o.result = "success" /\ truth[c].builds
       /\ o.dj = truth[c].dj /\ o.sim = (IF o.simArt THEN truth[c].sim ELSE {})
    \/ o.result = "cancelled" /\ "abort" \in Faults

(* The run's record as build-and-test left it.                              *)
RunOutcome(i) ==
    [result |-> runs[i].result, step |-> runs[i].step, dj |-> runs[i].dj,
     sim |-> runs[i].sim, simArt |-> runs[i].simArt]

TestRun ==
    /\ \E i \in DOMAIN runs : BuildDone(i) /\ Agrees(RunOutcome(i)', runs[i].commit)
    /\ UNCHANGED <<syncVars, truth>>

ConcludeRun ==
    /\ \E i \in DOMAIN runs : Conclude(i)
    /\ UNCHANGED <<syncVars, truth>>

WatchdogStep == JobStep /\ UNCHANGED <<syncVars, truth>>

Interference ==
    /\ \/ \E i \in DOMAIN runs : Expire(i)
       \/ \E c \in Commit, r \in {"success", "failure"} : Dispatch(c, r)
       \/ Abort
       \/ HumanClose
    /\ UNCHANGED <<syncVars, truth>>

MNext ==
    \/ UpstreamCommit
    \/ SyncCheck
    \/ OtherPush
    \/ SyncPush
    \/ PushRejected
    \/ Retrigger
    \/ TestRun
    \/ ConcludeRun
    \/ WatchdogStep
    \/ Interference

MSpec == MInit /\ [][MNext]_allVars

(* The fairness of SyncCI and of ShRegression.                              *)
MFairSpec ==
    /\ MSpec
    /\ WF_allVars(SyncCheck) /\ WF_allVars(PushRejected) /\ SF_allVars(SyncPush)
    /\ WF_allVars(TestRun \/ ConcludeRun) /\ WF_allVars(WatchdogStep)

-----------------------------------------------------------------------------
(* Properties *)

(* The watchdog sees the history it is specified for: in particular runs    *)
(* come in upstream order, which nothing in ci-full.yml enforces.           *)
RefinesWatchdog == Spec

(* The queue of SyncCI, whose runs are only their commits.                  *)
Started(i) == Active(i) \/ runs[i].result # "pending"
CommitsOf(R) == {runs[i].commit - 1 : i \in R}
Latest == LET started == {i \in DOMAIN runs : Started(i)}
          IN  IF started = {} THEN 0
              ELSE runs[CHOOSE i \in started : \A j \in started : j <= i].commit - 1

Queued == INSTANCE SyncCI WITH
              MaxCommit <- MaxCommit - 1,
              upstream <- upstream - 1, lastTested <- lastTested - 1, seen <- seen - 1,
              running <- CommitsOf({i \in DOMAIN runs : Active(i)}),
              waiting <- CommitsOf({i \in DOMAIN runs : Waiting(i)}),
              tested <- {0} \cup CommitsOf({i \in DOMAIN runs :
                                              Started(i) /\ runs[i].conclusion # "none"}),
              latest <- Latest

(* Every step of runs, jobs and watchdogs is a step of the queue, or none.  *)
RefinesQueue == Queued!Spec

(* A bisect starts between ends CI saw differ (EndsAsSeen of ShBisect): the *)
(* good end builds and passes the tests bisected, the bad end fails them.   *)
BisectEndsAsSeen ==
    job.pc = "bisect" /\ Bisectable =>
        /\ truth[job.good].builds
        /\ job.type = "build" => ~ truth[job.commit].builds
        /\ job.type = "dejagnu" => /\ job.tests \subseteq truth[job.commit].dj
                                   /\ job.tests \cap truth[job.good].dj = {}
        /\ job.type = "sh-sim" => /\ job.tests \subseteq truth[job.commit].sim
                                  /\ job.tests \cap truth[job.good].sim = {}

(* A head that stays and does not build is reported: its run files an issue *)
(* or finds one open, however many pushes are rejected and runs replaced.   *)
BrokenHeadReported ==
    \A c \in 2..MaxCommit :
        <>[](upstream = c /\ ~ truth[c].builds) =>
            <>(\E i \in DOMAIN runs : /\ runs[i].commit = c
                                      /\ runs[i].verdict \in {"filed", "dedup"})

=============================================================================
