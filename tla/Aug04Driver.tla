---------------------------- MODULE Aug04Driver ----------------------------
(***************************************************************************)
(* The driver scripts/bisect-aug04-regression.sh: one run bisects an ICE   *)
(* and a size drop over one range, one after the other, captures the       *)
(* report of the ICE at its culprit, writes summary.txt and prunes the     *)
(* build cache it leaves warm for a retry.  The sessions are those of      *)
(* ShBisect, "script" for the ICE and "metric" for the size.               *)
(*                                                                         *)
(* A run lives in a container of its own.  What it keeps in /tmp (clone,   *)
(* compiler, build tree) goes with the container; the build cache, the     *)
(* ICE report and the summary are under OUT_ROOT on the host and are there *)
(* for the next run.                                                       *)
(***************************************************************************)
EXTENDS ShBisect

CONSTANTS
    MaxDrivers,    \* bound: runs of the driver
    KeepCache,     \* KEEP_CACHE=1
    DriverFaults   \* the faults of the driver's environment in this instance

DriverFaultKinds == {"unequipped",  \* git, the BusyBox corpus or qemu is missing
                     "network",     \* cloning, or fetching a commit's blobs, fails
                     "stop"}        \* SIGTERM or SIGHUP: docker stop, a closed terminal

ASSUME DriverAssumption ==
    /\ Types = {"script", "metric"} /\ Cached = Types
    /\ MaxDrivers \in Nat /\ MaxSessions >= 2 * MaxDrivers
    /\ KeepCache \in BOOLEAN
    /\ DriverFaults \subseteq DriverFaultKinds

VARIABLES
    phase,      \* how far the run is
    drivers,    \* runs started
    equipped,   \* the container has what preflight looks for
    ice,        \* ICE_SHA
    csibe,      \* CSIBE_SHA
    report,     \* commit whose compiler wrote ice-report.txt
    summary,    \* what summary.txt says, and which run wrote it
    ended,      \* how the last run ended, "" while one is under way
    doubt       \* history: what rests on a verdict that was disturbed

runVars == <<phase, drivers, equipped, ice, csibe, report, summary, ended, doubt>>
allVars == <<vars, runVars>>

Phases == {"down", "preflight", "bisect1", "bisecting1", "bisect2", "bisecting2",
           "checkout", "capture", "summary", "cleanup"}
Claims == {"none", "same", "different", "could not compare"}
Endings == {"", "done", "nothing", "refused", "checkout", "killed", "stopped"}

(* The SHAs of this run, the report, and the two lines of the summary.      *)
Doubtful == {"ice", "csibe", "report", "summary.ice", "summary.csibe"}

(* The driver's own state: each SHA is empty or a commit of the range.      *)
DriverTypeOK ==
    /\ TypeOK
    /\ phase \in Phases
    /\ drivers \in 0..MaxDrivers
    /\ equipped \in BOOLEAN
    /\ ice \in Contents /\ csibe \in Contents /\ report \in Contents
    /\ summary \in [by : 0..MaxDrivers, ice : Contents, csibe : Contents, claim : Claims]
    /\ ended \in Endings
    /\ doubt \subseteq Doubtful

DInit ==
    /\ Init /\ ftype = "script"
    /\ phase = "down" /\ drivers = 0 /\ equipped = TRUE
    /\ ice = Empty /\ csibe = Empty /\ report = Empty
    /\ summary = [by |-> 0, ice |-> Empty, csibe |-> Empty, claim |-> "none"]
    /\ ended = ""
    /\ doubt = {}

-----------------------------------------------------------------------------
(* The run *)

(* docker run: a new container, with or without what the run needs.         *)
Launch ==
    /\ phase = "down" /\ drivers < MaxDrivers
    /\ drivers' = drivers + 1 /\ phase' = "preflight"
    /\ equipped' \in (IF "unequipped" \in DriverFaults THEN BOOLEAN ELSE {TRUE})
    /\ ice' = Empty /\ csibe' = Empty /\ ended' = ""
    /\ doubt' = doubt \ {"ice", "csibe"}
    /\ UNCHANGED <<vars, report, summary>>

(* The script exits; the EXIT trap is next.                                 *)
Leave(how) == phase' = "cleanup" /\ ended' = how

\* Variant: the preflight only warns.
PreflightWarns ==
    /\ phase = "preflight"
    /\ \/ phase' = "bisect1" /\ ended' = ended
       \/ "network" \in DriverFaults /\ Leave("refused")
    /\ UNCHANGED <<vars, drivers, equipped, ice, csibe, report, summary, doubt>>

(* The preflights refuse a container in which every commit would be skipped *)
(* (git) or found good (corpus, qemu, size); then clone and fetch.          *)
Preflight ==
    /\ phase = "preflight"
    /\ \/ equipped /\ phase' = "bisect1" /\ ended' = ended
       \/ (~ equipped \/ "network" \in DriverFaults) /\ Leave("refused")
    /\ UNCHANGED <<vars, drivers, equipped, ice, csibe, report, summary, doubt>>

(* run_bisect 1: script run-busybox.sh; run_bisect 2: metric run-csibe.sh.  *)
RunBisect1 ==
    /\ phase = "bisect1" /\ StartBisect("script") /\ phase' = "bisecting1"
    /\ UNCHANGED <<drivers, equipped, ice, csibe, report, summary, ended, doubt>>

RunBisect2 ==
    /\ phase = "bisect2" /\ StartBisect("metric") /\ phase' = "bisecting2"
    /\ UNCHANGED <<drivers, equipped, ice, csibe, report, summary, ended, doubt>>

(* One step of git bisect run or of the predicate.  run-busybox.sh exits 0  *)
(* when its corpus or qemu is missing, whatever the compiler does.          *)
BisectStep ==
    /\ phase \in {"bisecting1", "bisecting2"}
    /\ IF pc = "measure" /\ ftype = "script" /\ ~ equipped
       THEN Exit(0) /\ UNCHANGED <<truth, session, cur, files>>
       ELSE SessionStep
    /\ UNCHANGED runVars

(* The SHA before "is the first bad commit" in the log, or nothing.         *)
CulpritFromLog == IF outcome = "culprit" THEN hi ELSE Empty

(* A culprit rests on the verdict on it and on the one on its predecessor.  *)
Doubt(sha) ==
    doubt' = IF outcome = "culprit" /\ disturbed \cap {lo, hi} # {}
             THEN doubt \cup {sha} ELSE doubt

\* Variant: the status of git bisect run ends the script (set -e).
ReadLog1OrDie ==
    /\ phase = "bisecting1" /\ pc = "idle"
    /\ IF outcome = "culprit" THEN ice' = hi /\ phase' = "bisect2" /\ ended' = ended
                              ELSE ice' = ice /\ Leave("nothing")
    /\ Doubt("ice")
    /\ UNCHANGED <<vars, drivers, equipped, csibe, report, summary>>

ReadLog1 ==
    /\ phase = "bisecting1" /\ pc = "idle"
    /\ ice' = CulpritFromLog /\ Doubt("ice") /\ phase' = "bisect2"
    /\ UNCHANGED <<vars, drivers, equipped, csibe, report, summary, ended>>

ReadLog2 ==
    /\ phase = "bisecting2" /\ pc = "idle"
    /\ csibe' = CulpritFromLog /\ Doubt("csibe")
    /\ phase' = IF ice = Empty THEN "summary" ELSE "checkout"
    /\ UNCHANGED <<vars, drivers, equipped, ice, report, summary, ended>>

\* Variant: the report is captured wherever bisect 2 left the checkout.
StayWhereBisectEnded ==
    /\ phase = "checkout" /\ phase' = "capture"
    /\ UNCHANGED <<vars, drivers, equipped, ice, csibe, report, summary, ended, doubt>>

(* git checkout of the ICE culprit.  The clone is blobless: the bad end is  *)
(* the one culprit no bisect checked out, its blobs are still to be fetched.*)
CheckOutCulprit ==
    /\ phase = "checkout"
    /\ \/ cur' = ice /\ phase' = "capture" /\ ended' = ended
       \/ ice = N /\ "network" \in DriverFaults /\ cur' = cur /\ Leave("checkout")
    /\ UNCHANGED <<truth, session, pc, exit, files, drivers, equipped, ice, csibe,
                   report, summary, doubt>>

(* sh-bisect-predicate.sh build at the culprit, from the cache or afresh,   *)
(* then run-busybox.sh -freport-bug into ice-report.txt; a build or restore *)
(* that fails leaves an earlier run's report in place.                      *)
CaptureReport ==
    /\ phase = "capture" /\ phase' = "summary"
    /\ \/ /\ CacheHit
          /\ prefix' = tarball[cur] /\ report' = prefix' /\ UNCHANGED <<tree, tarball>>
       \/ /\ ~ CacheHit /\ builds[cur]
          /\ prefix' = cur /\ tree' = cur /\ report' = prefix'
          /\ tarball' \in {[tarball EXCEPT ![cur] = prefix']}
                          \cup (IF "pack" \in Faults THEN {tarball} ELSE {})
       \/ /\ IF CacheHit THEN "restore" \in Faults ELSE "fetch" \in Faults
          /\ prefix' = Empty /\ UNCHANGED <<tree, tarball, report>>
    /\ doubt' = IF prefix' = Empty THEN doubt
                ELSE (doubt \ {"report"}) \cup {d \in {"report"} : "ice" \in doubt}
    /\ UNCHANGED <<truth, session, pc, cur, exit, sum, drivers, equipped, ice, csibe,
                   summary, ended>>

\* Variant: two empty SHAs are different commits.
TwoWayClaim == IF ice = csibe /\ ice # Empty THEN "same" ELSE "different"

(* SAME, DIFFERENT, or COULD NOT COMPARE when a SHA is missing.             *)
Claim == IF ice = Empty \/ csibe = Empty THEN "could not compare"
         ELSE IF ice = csibe THEN "same" ELSE "different"

(* What summary.txt says, and what it rests on.                             *)
Summarise ==
    /\ summary' = [by |-> drivers, ice |-> ice, csibe |-> csibe, claim |-> Claim]
    /\ doubt' = (doubt \cap {"report"})
                 \cup {d \in {"summary.ice"} : "ice" \in doubt}
                 \cup {d \in {"summary.csibe"} : "csibe" \in doubt}

\* Variant: a run that found neither culprit exits 0 too.
SummaryExitsZero ==
    /\ phase = "summary" /\ Summarise
    /\ Leave("done")
    /\ UNCHANGED <<vars, drivers, equipped, ice, csibe, report>>

(* summary.txt; a run that identified neither culprit exits 1.              *)
WriteSummary ==
    /\ phase = "summary" /\ Summarise
    /\ Leave(IF ice = Empty /\ csibe = Empty THEN "nothing" ELSE "done")
    /\ UNCHANGED <<vars, drivers, equipped, ice, csibe, report>>

(* rm -rf of the cache, as far as it got.                                   *)
Prune(kept) == tarball' = [c \in Commits |-> IF c \in kept THEN tarball[c] ELSE Empty]

(* cleanup() at the end of the script: exit status 0 prunes the cache,      *)
(* unless KEEP_CACHE; the container goes.                                   *)
Cleanup ==
    /\ phase = "cleanup" /\ phase' = "down"
    /\ IF ended = "done" /\ ~ KeepCache THEN Prune({}) ELSE tarball' = tarball
    /\ prefix' = Empty /\ tree' = Empty
    /\ UNCHANGED <<truth, session, pc, cur, exit, sum, drivers, equipped, ice, csibe,
                   report, summary, ended, doubt>>

-----------------------------------------------------------------------------
(* What ends a run before its time *)

(* What becomes of the session whose container goes.                        *)
SessionLost ==
    /\ pc' = "idle" /\ outcome' = (IF pc = "idle" THEN outcome ELSE "exhausted")
    /\ prefix' = Empty /\ tree' = Empty
    /\ UNCHANGED <<truth, ftype, lo, hi, skipped, disturbed, sessions, cur, exit, sum>>

(* SIGKILL, the 24 GB memory limit, a power cut: no trap runs.              *)
Killed ==
    /\ "kill" \in Faults /\ phase # "down"
    /\ phase' = "down" /\ ended' = "killed"
    /\ SessionLost /\ UNCHANGED tarball
    /\ UNCHANGED <<drivers, equipped, ice, csibe, report, summary, doubt>>

(* SIGTERM or SIGHUP: bash runs the EXIT trap, whose $? is the status of    *)
(* the last command that completed, 0 in a script under set -e; the cache   *)
(* is pruned until the grace period ends.                                   *)
Stopped ==
    /\ "stop" \in DriverFaults /\ phase # "down"
    /\ phase' = "down" /\ ended' = "stopped"
    /\ SessionLost
    /\ IF KeepCache THEN tarball' = tarball ELSE \E kept \in SUBSET Commits : Prune(kept)
    /\ UNCHANGED <<drivers, equipped, ice, csibe, report, summary, doubt>>

DriverStep ==
    \/ Preflight \/ RunBisect1 \/ RunBisect2 \/ BisectStep \/ ReadLog1 \/ ReadLog2
    \/ CheckOutCulprit \/ CaptureReport \/ WriteSummary \/ Cleanup

DNext == Launch \/ DriverStep \/ Killed \/ Stopped

DSpec == DInit /\ [][DNext]_allVars

(* A script runs on by itself; starting one is up to the operator.          *)
DFairSpec == DSpec /\ WF_allVars(DriverStep)

-----------------------------------------------------------------------------
(* Properties *)

(* Commit c brought the symptom of type t in.                               *)
Introduces(t, c) ==
    c \in 1..N /\ IsBad(t, c) /\ Testable(t, c - 1) /\ ~ IsBad(t, c - 1)

(* "Review the per-step verdicts [...] an intermittent or config-dependent  *)
(* fault would still converge on something" (the driver's own summary): it  *)
(* takes a disturbed test of that very SHA or of the commit before it.      *)
(* Save for these, each SHA summary.txt names brought its symptom in; and   *)
(* it says SAME or DIFFERENT only when it names both, so that, if each      *)
(* symptom came in once, SAME means one commit did both and DIFFERENT that  *)
(* none did.                                                                *)
ComesOnce(t) == \A c \in Commits : IsBad(t, c) => \A d \in c..N : IsBad(t, d)
SummaryTrue ==
    /\ summary.ice # Empty /\ "summary.ice" \notin doubt =>
         Introduces("script", summary.ice)
    /\ summary.csibe # Empty /\ "summary.csibe" \notin doubt =>
         Introduces("metric", summary.csibe)
    /\ summary.claim \in {"same", "different"} =>
         /\ summary.ice # Empty /\ summary.csibe # Empty
         /\ /\ ComesOnce("script") /\ ComesOnce("metric")
            /\ doubt \cap {"summary.ice", "summary.csibe"} = {}
            => ((summary.claim = "same") <=>
                \E c \in Commits : Introduces("script", c) /\ Introduces("metric", c))

(* ice-report.txt, whichever run wrote it, is the output of a compiler that *)
(* was built, and that shows the ICE unless bisect 1 blamed its commit on   *)
(* a disturbed verdict.                                                     *)
ReportShowsIce ==
    report # Empty => builds[report] /\ (fails["script"][report] \/ "report" \in doubt)

(* A tarball goes from the cache.                                           *)
Shrinks == \E c \in Commits : tarball[c] # Empty /\ tarball'[c] = Empty

(* The build cache is pruned only once this run's summary names a culprit,  *)
(* or by a signal.                                                          *)
CacheKeptForRetry ==
    [][Shrinks => \/ /\ summary.by = drivers
                     /\ summary.ice # Empty \/ summary.csibe # Empty
                  \/ ended' = "stopped"]_allVars

(* A run that starts bisecting leaves a summary of its own, whatever its    *)
(* two bisects come to, unless it is ended from outside or the checkout of  *)
(* the culprit fails.                                                       *)
RunAnswers ==
    (phase = "bisect1") ~>
        /\ phase = "down"
        /\ summary.by = drivers \/ ended \in {"killed", "stopped", "checkout"}

=============================================================================
