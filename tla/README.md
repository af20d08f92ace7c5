# A TLA+ model of gcc-sh-monitor

gcc-sh-monitor watches upstream GCC for the SuperH target. Every half hour it
polls upstream, builds the new head for four architectures, measures code size,
runs two test suites, publishes a dashboard, and, when the sh4 lane regresses,
bisects the regression and files an issue. The program consists of GitHub
workflows, shell scripts and Python scripts. Nothing in it is large. What makes
it hard to get right is that its parts run hours apart, on runners that start
empty, and talk through files, artifacts, exit codes, a published web site and
an issue tracker, each of which may be missing, old or changed in between.

The modules below model that part: control flow, shared state and failures. The
text of messages and the numbers themselves are abstracted.

## 1. The system

| Component | State it keeps | Operations | Module |
|---|---|---|---|
| Sync (`sync.yml`, `sync-check.sh`) | `state/last-tested.json` on main | poll, commit, push, rejected push | `SyncCI`, `Monitor` |
| ci-full queue (`ci-full.yml:3-29`) | one running and one waiting run | trigger by push, dispatch, image rebuild; start; finish | `SyncCI` |
| build-and-test (`ci-full.yml:32-214`) | installs, sums, metric files, artifacts | thirteen kinds of step, merge, uploads | `CiFull` |
| Simulator lane (`build-sh-elf-gcc.sh`, `run-sh-sim.sh`, `parse-sh-sim.py`, `extract-sh-sim-failures.py`) | one `gcc.sum` in the build tree, a copied sum per suite and ISA | build, run a board, count, upload, extract, delta | `ShSim` |
| Other architectures (`ci-full.yml:459-698`) | installs as artifacts, metric files | three builds, bench-multi's lanes, merge | `CiFull` |
| publish (`ci-full.yml:225-457`) | html directory, the deployed site | download, extract, seed, migrate, merge, store, badges, deploy | `CiFull` |
| Measurement lanes (`run-*.sh`, `measure-sh-density.sh`) | a metrics file each | skip with zeros, fail, measure | `CiFull` |
| Metric scripts (`merge-metrics.py`, `migrate-benchmark-data.py`, `parse-sh-sim.py`) | none | merge, rename, count | `CiFull` |
| Watchdog (`sh-regression.yml`, `sh-lastgreen.py`, `sh-dejagnu-delta.py`, `sh-regression-detect.py`, `sh-step-command.py`, `sh-file-issue.py`) | issues with the label `sh-ci-regression`, its concurrency group | detect, close, dedup, bound, bisect, file | `ShRegression`, `Monitor`, `BisectingMonitor` |
| Bisect predicate (`sh-bisect-predicate.sh`) | prefix, build tree, `gcc.sum`, cached tarballs | build or restore, measure, exit 0, 1 or 125 | `ShBisect`, `BisectingMonitor` |
| Aug-04 driver (`bisect-aug04-regression.sh`) | build cache, ICE report and summary on the host; clone and compiler in its container | preflight, two bisects, capture, summary, prune; die, be stopped, start again | `Aug04Driver` |
| CSiBE object comparison, base image, dashboard pages, DejaGnu boards, vendored sources | | | not modelled |

How the parts interact:

```
 upstream --poll--> sync.yml --push--> last-tested.json --paths filter--+
 docker-rebuild, manual dispatch -------------------------------------->+--> ci-full (group: 1 running, 1 waiting)
                                                                              |
            build-and-test --artifacts (sums, metrics)--+------------------> publish --> site --(read back)--> next publish
            build-arm/x86/riscv32 --> bench-multi ------+
                 |
                 +--> sh-regression (group: 1 running, 1 waiting) --> last green run's artifacts
                          |                                      --> git bisect run sh-bisect-predicate.sh
                          +--> issue list (read twice, written once)
```

What is hard here: a check and the act it guards are up to five hours apart
(dedup and filing); the run history is read twice and may differ; queues drop
waiting entries; a step failing in one lane decides which artifacts of the others
exist; "file is missing" stands for several different events; files of one bisect
step are still there at the next; a killed driver is started again on the same
cache; the published site is both output and next input. Each of these is a
hazard of `PROJECT.json`, at the line where it bites.

What makes each component correct:

* sync and queue: the newest recorded commit is never dropped, commits are tested in order, a head that stays is tested;
* watchdog: one open issue; a range that points forward and starts at a run that passes; no closing on older evidence; silence only when nothing is newly broken; no run waits for ever;
* simulator lane: a failure reported as new is new and none is missed, whichever boards ran; the badge and the watchdog agree;
* the loop as a whole: runs come in upstream order, a bisect starts between a good and a bad commit, the commit an issue blames brought the failure in, a broken head that stays is reported;
* Aug-04 driver: the summary claims only what was determined, the ICE report is of an ICE, the cache survives until it is not needed, a run that starts bisecting answers;
* bisect: a verdict is a fact about the commit, unless the test of that commit was disturbed; cached compilers are whole and their own commit's; a culprit is bad and its predecessor good; every session ends;
* ci-full and publish: no published point is lost; one name per series; badges (but for the sh-sim badge, which says "build failing" of a stored zero too, `ci-full.yml:437-439`) agree with the history; a zero of a lane that fails hard never stands for a broken compile (csibe and density do publish such zeros, see section 3); one architecture's failure costs the others nothing; every run is deployed.

## 2. The modules

| Module | What it is |
|---|---|
| `SyncCI` | Upstream, the state file, the push race and the ci-full queue. |
| `ShRegression` | The watchdog job over the history of ci-full runs, the issue list and its group. |
| `FirstBad` | Abstract: a search for a first bad commit. |
| `ShBisect` | `git bisect run` with the predicate, its files and the build cache; implements `FirstBad`. |
| `Aug04Driver` | Extends `ShBisect`: the runs of the driver around its two sessions. |
| `ShSim` | The simulator lane board by board, and the detection that reads its sums. |
| `CiFull` | A run's jobs, the measurement lanes, publish and the site. |
| `Monitor` | Extends `ShRegression` by upstream and sync: the whole loop; implements `SyncCI` and `ShRegression`. |
| `BisectingMonitor` | Extends `Monitor`: a bisect is a search under way while the loop goes on; implements `Monitor`. |
| `SyncCIProofs`, `ShRegressionProofs`, `ShBisectProofs`, `Aug04Proofs`, `MonitorProofs`, `BisectingMonitorProofs`, `ShSimProofs`, `CiFullProofs` | Theorems. |
| `MC*` with `.cfg` | Instances for TLC. |

Definitions preceded by a comment `\* Variant:` are altered forms of the
definition that follows, with a mistake one could plausibly make in that code. For
every property of a passing run one of them is named in `PROJECT.json`
("mutants"); with it in place TLC finds the property violated.

### SyncCI

A commit is its position on upstream master. `SyncCheck` is `sync-check.sh` up to
the local commit, `SyncPush` and `PushRejected` are the two ends of `git push`,
`OtherPush` is somebody else's push in between. `Enqueue` is GitHub's concurrency
group with `cancel-in-progress: false`: a new run replaces the waiting one.
`Retrigger` is a dispatch or a rebuilt base image: ci-full of whatever the file on
main says then.

### ShRegression

`runs` is what GitHub's API returns about ci-full, `issues` the issue list, `job`
and `pend` the two places of the group `sh-regression`. `pc` of the job is the
next step of `detect-bisect-file`:

| Action | Code |
|---|---|
| `Enqueue`, `Active`, `Conclude` | group of ci-full; a run is over when its jobs are |
| `BuildDone` | end of build-and-test, which artifacts it left, call of the watchdog |
| `Dispatch` | `workflow_dispatch` of `sh-regression.yml`, which may push a waiting call out |
| `DetectSuccess`, `DetectFailure`, `DetectCancelled` | download sums, last-green baseline, deltas, failed step, `classify` |
| `AutoClose`, `Dedup`, `Bound`, `Bisect`, `File` | the steps of that name |
| `Expire`, `Abort`, `HumanClose` | retention, a dying job, a maintainer |

`GatheredRuns` and `PickGoodRun` are `sh-lastgreen.py`, including its page of 50
runs (`PerPage`) and the permissive `is_test_passing` of `main()`. The inner
`Bisect` is abstract here (any commit of the range, or none); `ShBisect` and
`BisectingMonitor` are its detail. `FarEnd` is how far it may reach: a search of a
range of one commit starts at upstream's head (see `BisectingMonitor`).

`blind` is a ghost: it records that some of the evidence of this run's detection
was missing. It is never read by an action.

### ShBisect and FirstBad

Commits are `0..N`; `builds` and `fails` say what each commit really is. Each file
that outlives one test is modelled by the commit its contents come from: `prefix`
(the install), `tree` (the build tree), `sum` (`OUT_DIR/gcc.sum`), `tarball[c]`
(`<sha>.tar.gz`, which may be cut short). `Restore`, `BuildSucceeds`, `BuildFails`,
`Pack`, `Rename` are `build()`; `BuildReturned` is what the arms of the predicate
make of its status; the four `Measure…`/`ShSim` actions are the arms. `CheckOut`,
`Mark`, `NameCulprit`, `OnlySkippedLeft` are `git bisect` (external, modelled from
how it is called). `Kill` is `timeout 300m` or a driver that dies: the container's
files are gone, the mounted directories stay.

Not every verdict is a fact about a commit, and the model does not pretend so. The
script arm answers bad for *any* nonzero status of the reproduce command (line 89): a
full disk under the `cp` or `mktemp` of `run-busybox.sh:100-118` and a killed `make`
are bad commits (`MeasureScript`, fault `measure`). A metric over a part of its corpus
is compared with the threshold like any other (`MeasureMetric`). A symptom may come and
go, or be of CI's container only (fault `flaky`, any arm that measures). A dejagnu run may leave the
summary of the commit before, a sh-sim run none (`nosum`), a build bisect meet a dead
network (`fetch`). Each is an ordinary outcome of the action, and the history variable
`disturbed`, which no action reads, notes the commit it befell. The properties then say
how far the damage goes: wrong verdicts are of disturbed commits only, and a culprit is
wrong only if its own test or that of its predecessor was disturbed.

`FirstBad` says what a session promises: it moves an end only to a commit that
really is on that side, or whose test was disturbed, names a culprit only when the
ends are neighbours, and may give up at any time.

### Aug04Driver

`phase` is the next line of the script. `RunBisect1` and `RunBisect2` start a
session of `ShBisect` of type `script` and `metric`, `BisectStep` is any step of
it. `equipped` says whether the container holds what the preflights look for; in
one that does not, `run-busybox.sh` exits 0 for every commit. `Preflight` covers
both preflights and the clone. `ReadLog1`, `ReadLog2` are `culprit_from_log`,
`CheckOutCulprit` and `CaptureReport` the ICE report, `WriteSummary` the summary
and the exit status, `Cleanup` the EXIT trap. `Launch` starts another run on what
the last one left under `OUT_ROOT`: tarballs, report, summary. `Killed` is a death
without traps; `Stopped` is SIGTERM or SIGHUP, where bash does run the trap. The
script's own caveat, that an intermittent or config-dependent fault "would still
converge on something" (lines 377-379), is in the model: `doubt`, a history variable,
holds which SHAs, summary lines and report rest on a disturbed test, and `SummaryTrue`
and `ReportShowsIce` claim nothing of those.

### ShSim

`run-sh-sim.sh` visits the boards, pairs of suite and ISA, in order (`RunBoard`);
every runtest writes its sum to one place (`tree`), from where it is copied
(`cur.sums`). `BoardsEnd` is the end of the loop or of the step's 30 minutes.
`Count` is `parse-sh-sim.py`, `Extract` `extract-sh-sim-failures.py`, each with a list
of known simulator gaps of its own (`BadgeGaps`, `Known`), `Delta`
`sh-dejagnu-delta.py`; `Detect` is the watchdog's step over them, with the
last-green run as the baseline. `truth` is a ghost: what the tests of each board
fail when they are run.

### Monitor

`ShRegression` takes the order of runs for granted; `Monitor` derives it. It adds
`upstream`, `lastTested` and the sync job of `SyncCI`, queues a run for a push or a
re-trigger (`Queue` of `ShRegression`) and lets build-and-test find what `truth`
says of the run's commit (`Agrees`; a step may still fail whatever the commit).
Everything after that is `ShRegression`'s. Two refinement mappings state the
composition: the identity onto `ShRegression!Spec` (`RefinesWatchdog`), and
`Queued`, which forgets everything of a run but its commit and its place in the
queue, onto `SyncCI!Spec` (`RefinesQueue`).

### BisectingMonitor

What the watchdog does between "Bound" and "Build result JSON" takes up to five
hours. Here it is a search: `StartSearch` is `git bisect start` and `git bisect run`,
`SearchMoves` the marks of `git bisect`, `SearchNames` and `SearchGivesUp` the two ways
it ends, `NoSearch` the early exits; a job that dies takes its search along (`Outside`).
What a search may do is taken from `FirstBad`, which `ShBisect` implements for each
session. What the predicate answers of each commit (`Answers`) follows from `truth`,
the same ghost that decides what ci-full's runs of those commits find: so the module
can say whether the commit in the issue is the right one. `Matched` is what the sh-sim
arm's `grep` finds besides the test it looks for: the other tests of the same file.

If the bad commit is the child of the good one, `git bisect start` prints the culprit
into the log of the step and checks nothing out, and `git bisect run` begins with
whatever the clone has checked out: upstream's head. Bad, it becomes the new bad end
and the search goes on between it and the good end; skipped, the bad end is named;
good, git refuses it and the step ends without a culprit (`StartSearchAtHead`,
`HeadTakesTooLong`, `NoSearch`; observed with git 2.39).

### CiFull

One run at a time (that is `SyncCI`'s theorem `QueueStaysOrdered`); inside a run
build-and-test, the builds, bench-multi and publish interleave. A metrics file is
its headline value: `value`, `partial` (part of the corpus was left out) or
`zero`. Which of these, or which failure, a lane gives for a missing compiler,
missing tool or broken compile is `LaneOutcomes`, read off each script. The image
is what a lane finds besides its compiler. The end of build-and-test is a step at a
time (`MergeAll`, `UploadSum`, `StageResults`, `StashMetrics`), and the job may fail or
be cut off before and between them (`EndFails`, `Sh4TimesOut`): what was uploaded by
then stays. `publish` is one action per step.
`failures` and `built` are ghosts that remember what happened to compare it with
what is published.

## 3. The runs

| Run | Bounds | Checks | States |
|---|---|---|---|
| `watchdog_history` | 3 runs, 3 commits, one test per suite, page of 2; lost downloads, expiry | `GoodBoundPasses`, `RangePointsForward`, `QuietMeansNoNewFailure` | 1,295,101 |
| `watchdog_group` | 2 runs, 2 dispatches, aborts; fairness | `TypeOK`, `OneOpenIssue`, `CloseIsLater`, `EveryRunConcludes` | 238,392 |
| `aug04_driver` | range of 4 commits, script and metric, cache, 2 runs of the driver, 4 sessions; failing restores, symptoms that come and go, kills, unfit containers, network, stops; fairness | `DriverTypeOK`, `VerdictHonest`, `TarballsFaithful`, `SummaryTrue`, `ReportShowsIce`, `CacheKeptForRetry`, `RunAnswers` | 2,074,192 |
| `bisect_sessions` | range of 4 commits, script and metric with cache, dejagnu and sh-sim without; 2 sessions, all eight faults; fairness | `CulpritSound`, `SessionEnds`, `RefinesFirstBad` | 1,979,776 |
| `sync_queue` | 5 commits; fairness; deadlock checked | `NewestNotLost`, `QueueOrdered`, `TestedInOrder`, `HeadEventuallyTested` | 583 |
| `bisecting_monitor` | 3 upstream commits, 3 runs, one sh-sim test, expiry; fairness of sync, runs, jobs and searches | `BTypeOK`, `CulpritBroughtItIn`, `RangeBoundsTheFailure`, `RefinesMonitor`, `RefinesWatchdog`, `RefinesQueue`, `BrokenHeadReported` | 617,513 |
| `sh_sim` | 2 runs, 2 ISAs, 2 suites with one test each, one of them a known gap; boards without a sum, step cut off, failing jobs | `TypeOK`, `ReportedIsNew`, `NoneMissed`, `BadgeAgrees` | 3,100,033 |
| `ci_lanes` | 1 run, twelve kinds of step (the thirteenth, busybox-musl, on riscv32), arm and riscv32, three images; timeouts, failing uploads; fairness | `TypeOK`, `ZeroMeansSkipped`, `WorkingArchAdvances`, `PanelsAgree`, `EveryRunDeployed` | 1,337,720 |
| `ci_history` | 2 runs over a site with names of both earlier formats; lost downloads, failing badges, timeouts, cancellation | `OneNamePerSeries`, `BadgesMatchHistory`, `HistoryKept` | 941,157 |

Why the bounds are enough. Three ci-full runs are what the watchdog's mistakes
need: a good one, a regressing one, and one that reacts; a page of two makes the
oldest fall off it. Two runs and two dispatches fill both places of the group and
push a waiter out. In a range of four commits
either of the two interior ones may be tested first, skipped or found guilty, and
both may be skipped around the culprit; a second session, or a second run of the
driver, meets what the first left. The driver's run leaves the fault `measure` to
`bisect_sessions`: for the script arm `flaky` gives the same wrong "bad", and a wrong
"good" besides. Two runs of the simulator lane are a
baseline and a run compared with it. Three commits give the loop a recorded one,
a head and a head that overtakes it while its run waits; they give its searches a
range with a commit inside, and a range of one commit below a later head. `Monitor` has
no run of its own: it is checked as the specification `bisecting_monitor` refines. Jobs
that die and dispatches are left out of that run, for nothing is promised of a broken
head whose watchdog died; `watchdog_group` has them, and the theorems about the loop
cover them. Two publishes make the
second read what the first deployed.
x86 has the same install check as arm, so one of them stands for both. A metric,
like a test, is judged alone, so one per lane suffices. `CHECK_DEADLOCK FALSE` is
set wherever a bound on runs, sessions or dispatches lets the instance end;
`SyncCI`, which polls for ever, is checked for deadlock.

### Runs that show a disagreement

| Run | Property | What the code or its comments say, and what happens |
|---|---|---|
| `watchdog_false_green` | `GreenMeansFixed` | "SH green again … Closing." (`sh-regression.yml:167`): a run with a test regression is a successful run, becomes the next baseline, and the next run closes the issue while the test still fails. No fault is needed. |
| `sh_sim_partial` | `OldFailuresNotReported` | "a new execution FAIL vs the last green run" (`sh-regression.yml:124-125`): a last green run whose simulator step was cut off lacks boards, and the next run's old failures on them are reported as new. |
| `ci_seed` | `HistoryKept` | "seed from it so this run appends" (`ci-full.yml:285`): a failing download is taken for an empty site, and the deployment erases the history. |

The model shows more of these than there are runs:

* "1 bad — commit exhibits the failure" (`sh-bisect-predicate.sh:5`): the script arm answers 1 for every nonzero status of the reproduce command (line 89), a full disk or a killed `make` in `run-busybox.sh` included. That a commit was blamed by such a test cannot be seen from the log's culprit line; `CulpritSound` and `SummaryTrue` have to except commits whose own test was disturbed.
* `sh-bisect-predicate.sh:94-96` means to skip a commit whose dejagnu run leaves no summary. It does not remove `OUT_DIR/gcc.sum` before the run, and `run-dejagnu.sh` fails at its `cp` under `|| true`: the summary of the commit tested before is read, and its verdict given to this one (`MeasureDejagnu`, fault `nosum`). The sh-sim arm answers good for a run without sums (line 116, `ShSim`).
* `sh-bisect-predicate.sh:37` says `build()` returns "1 = genuine build failure (a fact about the commit)"; every failure of `build-gcc.sh` returns 1, a failing `git fetch` included, and the build arm answers bad for it (`BuildFails`, fault `fetch`).
* "Each failed arch contributes no metrics this run, so its series simply stops" (`ci-full.yml:228-229`): the riscv32 step has no test for its install and `run-busybox-musl.sh` writes zeros without a compiler, so a failed riscv32 build gives a zero in a series where smaller is better (`BenchLane`).
* `bisect-aug04-regression.sh:109-112` says a run ended by a signal keeps the cache: "An aborted/interrupted run (nonzero exit, e.g. a shell error, a signal, …) is exactly when a retry needs the warm cache most". bash runs an EXIT trap on SIGTERM or SIGHUP with the status of the last finished command, usually 0, so `cleanup` prunes it (`Stopped`; `CacheKeptForRetry` has to except it).
* `sh-lastgreen.py:24` says `is_test_passing` "must return True iff the regressed test(s) were passing"; `main()` passes `lambda r: True`, and git bisect never tests the good end. With the fault `hide` (a state file that cannot be read at one of the two readings of the history) `GoodBoundPasses` fails: delta and bound use different runs, and the range starts at a run that already failed. Without `hide` it holds (`watchdog_history`).
* "1 bad — commit exhibits the failure" (`sh-bisect-predicate.sh:5`), of lines "isa:path detail" (`:12`): the sh-sim arm drops the detail (line 111) and looks for any failure of the file (line 116), so a commit that only fails another variant of it is blamed. `CulpritBroughtItIn` can therefore only speak of what the predicate looks for (`Shows`), which with two tests of one file in `Matched` is more than what was reported.
* "on timeout report the narrowed bad bound" (`sh-regression.yml:243`): if the range is one commit, `git bisect run` tests upstream's head first, and a bad head becomes `refs/bisect/bad`. What is then reported, as culprit or as narrowed end, may be later than the bad end the range was given (`StartSearchAtHead`; `RangePointsForward` has to except it).
* "No gcc.sum means the sh4 build failed before dejagnu ran" (`ci-full.yml:264`): the sum is uploaded after all lanes (line 188), so any later lane that fails makes the site say the build failed (`MergeAll`, `Extract`).
* "If the sh4 build failed it is simply absent" (`ci-full.yml:237-239`, of the metrics): they are absent too when a later lane failed, or when the upload of the sums, the copy of the LRA results or the time limit ended the job at lines 188-214. In the last cases `gcc.sum` is there, and the page shows test results beside badges that say "build failing" (`EndFails`, `Sh4TimesOut`; `PanelsAgree` names the case).
* "Publishing a 0 here is what hid the 2026-08-04 back_threader ICE" (`run-busybox.sh:74-76`): the size lanes csibe and density still do. `run-csibe.sh` leaves out what does not compile and writes its totals with status 0, zeros if nothing compiles (lines 147-153, 193-196), and the badge step shows a zero total like any other number; `measure-sh-density.sh` drops failing files under `|| true` (line 148). `RunCsibe` and `MeasureDensity` have the outcome (`Swallowed`), and `ZeroMeansSkipped` speaks of the other size lanes only (`HardLanes`).
* Zeros are to keep a multilib build failure "from breaking the all-or-nothing metrics merge" (`measure-sh-density.sh:68-70`): the step that builds that compiler (`ci-full.yml:91`) fails the job before the lane is reached (`BuildMultilib`).
* `build-sh-elf-gcc.sh:11-13` says it fails "WITHOUT leaving a half-installed gcc": it installs before its smoke test (line 57) and removes nothing when that fails (line 76), so `run-sh-sim.sh` runs the rejected compiler and its numbers are published (`BuildShElf`, `RunShSim`).
* `bisect-aug04-regression.sh:8-9` says the second bisect runs entirely off the first one's cache; it need not visit the same commits. Its line 18 offers `NO_DOCKER`, which lines 153-161 refuse on every host: only the re-exec into the container sets `IN_CONTAINER`.

### Fairness

* `ShRegression`: weak fairness of a run's and of a job's next step. Every job has `timeout-minutes`. Nothing is assumed of dispatches, people or expiry.
* `ShBisect`: weak fairness of a session's next step. `git bisect run` starts the next test itself, and builds and test runs are finite.
* `SyncCI`: weak fairness of the poll (cron), of the failing push and of a run's end; strong fairness of the accepted push, since the race lasts seconds of every half hour. Without it `HeadEventuallyTested` fails, as it should: nothing in the code retries a push before the next poll.
* `Aug04Driver`: weak fairness of a run's next step; the script runs on by itself. Nothing is assumed of the operator, so a killed run need not be started again.
* `Monitor` and `BisectingMonitor`: the fairness of `SyncCI` for sync, of `ShRegression` for the steps of runs and watchdogs. A search need not make progress: it ends because `timeout 300m` does.
* `CiFull`: weak fairness of build-and-test, of the build and bench jobs and of publish, because GitHub starts a job whose `needs` are over and ends it at its timeout (for publish, which sets none, GitHub's own cap of six hours). `EveryRunDeployed` is checked without failing badges or cancellation, where the code means not to deploy.

## 4. What is proved

The theorems hold for every value of the constants: any length of history, any
set of tests, any range, any set of the modelled faults unless said otherwise.

**Watchdog** (`ShRegressionProofs`), from `RegressionAssumption`:
`RegressionTypeOK`, `AtMostOneOpenIssue`, `ClosesAreLater`, `RangesPointForward`.
The inductive invariant `IInv` has four parts. `RunsInv`: commits never decrease
along the history, a run has a build result only when all older ones are over, and
a watchdog answers only after the build.
`JobsInv`: of the jobs in the two places at most one is a run's, and that run is
under way without a verdict; a waiting job has done nothing yet; and a job past
`Bound` carries a range between a completed run's commit and its own. `Ready`:
a job between dedup and filing means no issue is open. This is the fact that
bridges the hours between the two, and it is inductive because the group admits
one job at a time and every filing passes through it. `IssuesInv`: issues come
from runs whose watchdog has answered, and the three properties themselves. `EnqueueStep` and `BuildDoneStep` are the delicate cases: they show
that the run which calls the watchdog is later than any run that filed before.

`QuietMeansNothingNew` and `BoundPassedTheTests` are about what the watchdog knows
and not only about order. Their invariant `EvInv`, proved on top of `IInv`, follows
the evidence through a job: it carries its run's own result; a job about to close saw
nothing new, or is marked blind; the tests a job is about to report fail in its run
and passed in the last green run; the bound it found is that run. The last two hold
although detection and `Bound` read the history hours apart, because no run concludes
while a called job lives (`JobsInv`), and although they read one page, because a page
holds the newest runs: the newest green run on it is the newest there is, and a page
without one gives neither a delta nor a bound. `BoundPassedTheTests` excludes
the fault `hide`, with which the two readings may answer different runs (section 3).

**Bisect** (`ShBisectProofs`), from `BisectAssumption` and with every set of faults:
`BisectTypeOK`, `CacheIsFaithful`, `VerdictsAreHonest`, `CulpritIsSound`,
`BisectRefinesFirstBad`. No fault is assumed away; a disturbed measurement is an outcome
like the others, and the theorems say that a verdict can be wrong only of the commit
whose own measurement was disturbed, and that nothing else (the compiler and build tree of an earlier
test, the cache, a build or restore that fails outside the build arm, the session before)
ever makes one wrong. What counts as a disturbance is listed in section 2. The
invariant ties the files to the commit under test: when something is measured, the
compiler is that commit's (`CompilerOfCur`), every tarball is its own commit's
compiler and that commit builds (`CachedBuilds`), the ends are what they are said
to be or were disturbed (`RangeSound`). Neither monotonicity of the failure nor a bound on skips is
assumed; the range has more than one commit (`BisectAssumption`), because git tests
another commit first where it has not. The refinement proof shows that every step of a session is a step of
`FirstBad` or a stutter, `class` being mapped to what each commit really is, and to
"unsure" once its test was disturbed.

**Sync** (`SyncCIProofs`), from `SyncAssumption`: `NewestIsNeverLost`,
`QueueStaysOrdered`, and the action property `CommitsTestedInOrder`. The invariant
adds that what the sync job saw is between the recorded commit and upstream's head
(`SeenOrdered`): that is why a push cannot move the file backwards.
`ShRegression.Enqueue` relies on this order.

**Aug-04 driver** (`Aug04Proofs`), from `BisectAssumption` and `DriverAssumption`:
`DriverSessionsSound`, `DriverRefinesFirstBad`, `SummaryIsTrue`, `ReportIsOfTheIce`,
`CacheIsKeptForRetry`.
Every step of a session inside a run is a step of `ShBisect`, so the lemmas of
`ShBisectProofs` about single steps are cited, not repeated, and here too every set of
faults is allowed. New is what ties the run to its
sessions: a run past the preflights is in an equipped container, a session's type is
the one of its phase, and `ice` and `csibe` are commits that brought in their
symptom or are in doubt. Two commits that did are the same one if each symptom came in
once, which is why SAME and DIFFERENT can be trusted then, and only then. The refinement reuses
`StepRefines` for the steps of a session; the driver's own steps leave the range
alone, and a death while a test runs is the abstract search given up.

**Simulator lane** (`ShSimProofs`), from `ShSimAssumption`: `ShSimTypeOK`,
`ReportedFailuresAreNew`, `NoNewFailureMissed`, `PassingBadgeAgrees`, for any suites,
ISAs and known gaps.
The invariant says that a sum holds exactly what its board fails with its run's
commit, and that `new` is the delta with the baseline the run names. The two
theorems are then about `Extract`: of whole sums it is what truly fails
(`Failing`), of sums with boards missing a part of it. One side of the delta may
be cut short in each theorem, and it is not the same side; with the other one cut
short neither holds, which `sh_sim_partial` shows of the first. `PassingBadgeAgrees`
is about the two readers of the same sums: a badge says pass only if the number of
unknown failures is zero, a finite set of size zero is empty, and the extracted
failures are projections of that set; and numbers other than zero come only from a
run that had a compiler. It assumes that every gap on the badge's list is on the
watchdog's (`BadgeGaps \subseteq Known`), which is what "Keep KNOWN_FP_XFAIL in sync"
(`extract-sh-sim-failures.py:14`) asks for; the reverse difference would make the badge
say fail while the watchdog is silent, which nothing here claims against.

**The loop** (`MonitorProofs`), from `RegressionAssumption` and
`MonitorAssumption`, is one specification with two refinements.

* `MonitorRefinesWatchdog`: the invariant `SyncInv` orders the commits of all runs
  below the recorded one, and that below what sync saw; it is why `Queue` is only ever
  called as `Enqueue` of `ShRegression` allows. Through it the watchdog's theorems hold
  of the loop: `MonitorIssuesSound`.
* `MonitorRefinesQueue`: under the mapping that forgets everything of a run but its
  commit and its place, every step is a step of `SyncCI` or a stutter. The invariant
  `QueueInv` is what the mapping needs: while a run has not concluded some run is
  active, at most one waits, and of the runs that started one is the last. Through it
  `SyncCI`'s theorems hold of the loop; `RecordedCommitHasARun` draws one of
  them back: the commit in `state/last-tested.json` has a run that started or waits,
  however many runs were replaced while waiting.
* `MonitorTypeOK`, and `BisectStartsSound`: the ends of a bisect of the watchdog differ as
  `ShBisect` supposes (`EndsAsSeen`). `TruthInv` says that
  a run that is over tells the truth about its commit (or, when sums were lost, less
  than the truth), that the bound is a run that built, and that a simulator
  regression is only found against sums that were not lost; `EvInv` does the rest. (For
  sh-sim the predicate sees a test's whole file, see `BisectingMonitor`.) The
  fault `hide` is excluded here for the reason given above.

**ci-full and publish** (`CiFullProofs`), from `CiFullAssumption`, which says that the
two lists of steps repeat nothing, that build-and-test has a dejagnu step, and that the
site found at the start holds only series and forms that the workflow ever wrote. The
invariant has three layers. `CiTypeOK`: types. `JobsInv` ties the files of a run to
its lanes: a file is of a lane that was reached and did not break
(`Sh4Inv`, `BenchInv`), and the artifacts are made of the files (`ArtInv`). `PubInv` ties
publish to the artifacts, step by step (`FetchedInv`, `HistInv`, `BadgeInv`), and the
site to what was deployed last (`SiteInv`). It is needed in this depth because the
properties compare both ends: a point or a badge on the site with a compile that broke
in another job. `PageIsOfOnePiece` rests on what the two uploads of the sh4 job tell of
each other: metrics only with `gcc.sum`, and `gcc.sum` without metrics, once the job is
over, only if it failed or ran out of time between them. With every set of faults: `CiFullTypeOK`, `ZeroIsNeverABrokenCompile`,
`BadgesTellTheHistory`, `SeriesAreNotSplit`. When artifact downloads are answered (the
fault `download` is absent): `PageIsOfOnePiece`, `NoArchHoldsAnotherBack`. When the
published history can be fetched (`seed` is absent): `DeploymentKeepsHistory`; with
`seed` it fails, which is the run `ci_seed`.

**The loop with its searches** (`BisectingMonitorProofs`), from `RegressionAssumption`,
`MonitorAssumption` and `BisectingAssumption`.

* `BisectingRefinesMonitor`, `SearchStaysWithJob`, `BisectingTypeOK`, with every set of
  faults. The invariant `SearchInv` says that a search is that of the job in its Bisect
  step and lies between that job's ends. From it every step is one of `Monitor` or a
  stutter, the end of a search being `Bisect`. So all that is proved of `Monitor`,
  `ShRegression` and `SyncCI` holds while searches take their hours.
* `BlamedCommitsBroughtItIn` and `RangesBoundFailures` join what `ShBisectProofs` proves
  inside a session and what `MonitorProofs` proves at its start. `EndsSeen` says what the
  run history tells of the two ends, which no search tests; `SearchFits` that an end which
  moved is what the predicate said of it; `JobTells` carries the result to the filing,
  and the `Tale` lemmas through the issue's later life. The tests of the job were seen to
  fail at the bad end and to pass at the good end in whole sums, and the end only moves
  to commits that fail one of them, so blame is right without the failure being
  monotone and with any number of skips. Excluded are `hide`, with which the bound may be
  of another run than the delta (section 3), and wrong verdicts (`PredicateFaults`: a
  dead network, a missing summary, a failure that comes and goes), which are the
  first disagreements of section 3. Where the commit before the blamed one
  is the good end itself, that it does not show the failure is what the run history says,
  so the property presumes it: with the sh-sim arm a good end that fails another variant
  of the file shows it too (section 3). Nothing is claimed of script
  failures, of which nobody knows what the command does at other commits.

Only model-checked: the liveness properties (`EveryRunConcludes`, `SessionEnds`,
`HeadEventuallyTested`, `EveryRunDeployed`, `RunAnswers`, `BrokenHeadReported`), which
rest on fairness and are out of the prover's reach. Every invariant and every step
property that a passing run checks is also the subject of a theorem. `MonitorTypeOK`,
`BisectStartsSound` and `SearchStaysWithJob` state invariants that no run lists: `BTypeOK`
contains the first, and the other two are what the theorems on blame and refinement rest on.

## 5. What is not modelled

* Wording and layout of issues, summaries and dashboard pages; regular expressions over `.sum` lines (their unit tests are `scripts/test-*.py`).
* What is compiled and measured. The four variants of the busybox-musl lane are one lane, for they differ in flags only. The ISA check only logs.
* In `BisectingMonitor`, one ghost (`truth.builds`) stands for the compilers of both sh4 and sh-elf: a commit at which only one of them builds is a commit the predicate may answer "untestable" of. Expected failures (XFAIL) and dejagnu names with more than one blank between path and detail, which the predicate's `grep` would not find, are left out; `sh.exp`, whose tests the repository tracks, has none.
* Re-running an old ci-full run by hand, which tests that run's old commit out of order.
* The Actions caches, and building the base image.
* `script-tests` of `ci-full.yml`, which has no effect on the other jobs.
* The driver's probe of gzip, which only warns, and `NO_DOCKER`, which its first preflight refuses.
* CSiBE object comparison: a report made by hand. Projects that do not compile leave the CSiBE totals without a trace (`run-csibe.sh:193`, values `partial` and, when none compiles, `zero`); the script says a failing project is omitted, so no property forbids it.
* `sh_density_metrics.py`, `suffix-metrics.py` and the LRA lane's classification: arithmetic and renaming within one file, without state, covered by their unit tests.
* The vendored corpora (`busybox/`, `csibe/`, `coremark/`, musl and the LRA cases). They are nearly all of the C in the repository and none of the program: gcc-sh-monitor compiles them and looks at the size of the result. Its own code is some 4,800 lines of shell, Python and workflow YAML, and that is what the modules are about.
* A build bisect under TLC: its ends contradict those of the other types (`EndsAsSeen`), so it needs an instance of its own; `ShBisectProofs` covers it.

## 6. What could follow

1. `CiFull`'s build-and-test as the source of `Monitor`'s `TestRun` outcomes, with
   `ShSim` in place of its simulator lane, and the two refinements proved of that
   larger composition.
2. `ShBisect` itself, with its files and its clock, in the place of the search in
   `BisectingMonitor`; today the two meet in `FirstBad`.
