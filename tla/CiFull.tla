------------------------------- MODULE CiFull -------------------------------
(***************************************************************************)
(* One ci-full run after another, from the compiler builds to the          *)
(* dashboard: the steps of build-and-test (sh4), the builds of the other   *)
(* architectures, bench-multi, and the publish job that seeds the history  *)
(* from the published site, appends this run's metrics and deploys.        *)
(* The concurrency group ci-full keeps runs apart (module SyncCI), so at   *)
(* most one run is in progress here; the jobs of a run interleave.         *)
(*                                                                         *)
(* A metric file is abstracted to its headline value: measured ("value"),  *)
(* measured on a part of its corpus ("partial") or zero.  A metric name is *)
(* its family and the sequence of its architecture suffixes.               *)
(***************************************************************************)
EXTENDS Naturals, Sequences, FiniteSets

CONSTANTS
  MaxRuns,     \* bound on the number of ci-full runs
  Sh4Steps,    \* the steps of build-and-test, in order
  BenchSteps,  \* the lanes of bench-multi, in order: <<architecture, lane>>
  Images,      \* base images: "full", "nosize" (no cross size), "noqemu"
  Legacy,      \* points published before this code: [run: {0}, name, val]
  Faults       \* what the environment may do: see FaultNames

FaultNames == {"download", "upload", "seed", "shields", "timeout", "cancel"}

(* The families whose names carry an architecture (SUFFIX_PREFIXES).       *)
SuffixLanes == {"csibe", "coremark", "busybox", "busybox-musl", "musl"}

(* The families named after sh4 alone.                                     *)
Sh4Lanes == {"dejagnu", "density", "sh-sim", "lra"}

StepLanes == SuffixLanes \cup Sh4Lanes

(* Steps of build-and-test that write no metric file.  "sh-sim" itself is  *)
(* the parse step: it writes the lane's file.                              *)
ToolSteps == {"build", "multilib", "sh-elf", "run-sh-sim"}

Archs == {BenchSteps[i][1] : i \in DOMAIN BenchSteps}

Vals == {"value", "partial", "zero"}

Name(lane, arch) ==
  [lane |-> lane, sfx |-> IF lane \in SuffixLanes THEN <<arch>> ELSE <<>>]

(* Every name this code gives, and the two forms of a suffixed name it      *)
(* finds on a site deployed before: no suffix, and sh4 after riscv32.       *)
Names == {Name(l, a) : l \in StepLanes, a \in {"sh4", "arm", "x86", "riscv32"}}

OldNames == [lane: SuffixLanes, sfx: {<<>>, <<"riscv32", "sh4">>}]

NoRepeats(steps) ==
  \A i, j \in DOMAIN steps : steps[i] = steps[j] => i = j

(* The workflow lists each step once, dejagnu, whose sum publish reads,     *)
(* among them.                                                              *)
ASSUME CiFullAssumption ==
  /\ MaxRuns \in Nat
  /\ Sh4Steps \in Seq(StepLanes \cup ToolSteps)
  /\ NoRepeats(Sh4Steps) /\ \E i \in DOMAIN Sh4Steps : Sh4Steps[i] = "dejagnu"
  /\ BenchSteps \in Seq({"arm", "x86", "riscv32"} \X SuffixLanes)
  /\ NoRepeats(BenchSteps)
  /\ Images \subseteq {"full", "nosize", "noqemu"}
  /\ Legacy \subseteq [run: {0}, name: Names \cup OldNames, val: Vals]
  /\ Faults \subseteq FaultNames

(* The lanes a status badge is made for, of those this instance runs.      *)
BadgeLanes == {"dejagnu", "csibe", "coremark", "lra", "busybox", "musl", "sh-sim"}
                \cap {Sh4Steps[i] : i \in DOMAIN Sh4Steps}

VARIABLES
  run,      \* number of the current run, 0 before the first
  image,    \* the base image this run's containers use
  sh4,      \* build-and-test: next step, first failed step, metrics, tools,
            \*   and which of its last steps comes next once the lanes are done
  builds,   \* build-arm, build-x86, build-riscv32: "todo", "ok", "failed"
  bench,    \* bench-multi: next lane, installs seen, lane failed, metrics
  art,      \* artifacts of the run: sh4 metrics, multi metrics, gcc.sum
  pub,      \* publish: its step and the html directory it prepares
  site,     \* the published dashboard
  built,    \* runs and architectures whose compiler was built
  failures  \* lanes that failed: run, architecture, lane, reason

vars == <<run, image, sh4, builds, bench, art, pub, site, built, failures>>

(* A metrics artifact is the set of its entries: a file that was not        *)
(* written has none, and a merge that succeeds is never empty.             *)
Absent == {}

(* A fresh runner: what a job starts from.                                 *)
NewSh4 == [pc |-> 1, failed |-> "none", files |-> {}, elf |-> "none",
           sums |-> FALSE, end |-> "merge", over |-> FALSE]

NewBench == [pc |-> 0, have |-> {}, lost |-> {}, files |-> {}, over |-> FALSE]

NewArt == [sh4 |-> Absent, multi |-> Absent, sum |-> FALSE]

NoBadges == [l \in BadgeLanes |-> "none"]

NewPub == [pc |-> "wait", sh4 |-> Absent, multi |-> Absent, sum |-> FALSE,
           flag |-> FALSE, lra |-> FALSE, hist |-> {}, new |-> {},
           badge |-> NoBadges]

Init ==
  /\ run = 0
  /\ image \in Images
  /\ sh4 = [NewSh4 EXCEPT !.over = TRUE]
  /\ builds = [a \in Archs |-> "todo"]
  /\ bench = [NewBench EXCEPT !.over = TRUE]
  /\ art = NewArt
  /\ pub = [NewPub EXCEPT !.pc = "done"]
  /\ site = [run |-> 0, hist |-> Legacy, flag |-> FALSE, lra |-> FALSE,
             badge |-> NoBadges]
  /\ built = {}
  /\ failures = {}

(* The group admits the next run; every job starts on a fresh runner.      *)
NewRun ==
  /\ run < MaxRuns /\ pub.pc = "done"
  /\ run' = run + 1
  /\ image' \in Images
  /\ sh4' = NewSh4 /\ bench' = NewBench /\ art' = NewArt /\ pub' = NewPub
  /\ builds' = [a \in Archs |-> "todo"]
  /\ UNCHANGED <<site, built, failures>>

-----------------------------------------------------------------------------
(* What the measurement scripts do: exit status, file written, reason.     *)

Emit(v)     == [ok |-> TRUE, val |-> v, why |-> "none"]
Fails(why)  == [ok |-> FALSE, val |-> "none", why |-> why]

(* The compile broke everywhere, and the script wrote zeros and passed.    *)
Swallowed == [ok |-> TRUE, val |-> "zero", why |-> "broken"]

(* A project that does not compile is left out of the totals, which are    *)
(* written all the same: zeros when none compiles.                         *)
RunCsibe(cc) ==
  IF cc /\ image # "nosize"
  THEN {Emit("value"), Emit("partial"), Swallowed}
  ELSE {Fails("missing")}

(* CoreMark does not look for the size tool: without it the sections that  *)
(* are summed are those of an empty listing.                               *)
RunCoremark(cc) ==
  IF ~cc THEN {Fails("missing")}
  ELSE {Fails("broken"), Emit(IF image = "nosize" THEN "zero" ELSE "value")}

\* Variant: a compile that breaks is skipped with zeros, as before 2026-08-04.
SkipAlways(present) ==
  IF present
  THEN {Swallowed, Emit("value")}
  ELSE {Emit("zero")}

(* skip_zero when something the lane needs is absent; fail_hard, writing   *)
(* nothing, when the compile breaks with everything present.               *)
SkipOrFail(present) ==
  IF present THEN {Fails("broken"), Emit("value")} ELSE {Emit("zero")}

RunBusybox(cc)     == SkipOrFail(cc /\ image = "full")
RunBusyboxMusl(cc) == SkipOrFail(cc /\ image = "full")
RunMusl(cc)        == SkipOrFail(cc /\ image = "full")

(* The density lane compiles with the multilib compiler.  Files that do    *)
(* not compile drop out, down to none; a copy that fails ends the script.  *)
MeasureDensity(mcc) ==
  IF mcc /\ image # "nosize"
  THEN {Fails("copy"), Emit("value"), Emit("partial"), Swallowed}
  ELSE {Emit("zero")}

(* A case that does not compile is a result of the LRA lane.               *)
RunLra(cc) ==
  IF cc /\ image # "noqemu" THEN {Emit("value")} ELSE {Fails("missing")}

\* Variant: a missing gcc.sum is tolerated too, and the counts are left unset.
RunDejagnuUnset(cc) ==
  IF cc THEN {Emit("null"), Emit("value")} ELSE {Fails("missing")}

(* dejagnu tolerates failing tests, not a missing gcc.sum; it needs qemu   *)
(* only for tests that execute.                                            *)
RunDejagnu(cc) ==
  IF cc THEN {Fails("nosum"), Emit("value")} ELSE {Fails("missing")}

(* Counting an absent directory of sums gives zeros; sums of a compiler    *)
(* that compiles nothing hold no passed execution.                         *)
ParseShSim(sums) ==
  IF sums THEN {Emit("value"), Emit("zero")} ELSE {Emit("zero")}

LaneOutcomes(lane, cc) ==
  CASE lane = "csibe"        -> RunCsibe(cc)
    [] lane = "coremark"     -> RunCoremark(cc)
    [] lane = "busybox"      -> RunBusybox(cc)
    [] lane = "busybox-musl" -> RunBusyboxMusl(cc)
    [] lane = "musl"         -> RunMusl(cc)
    [] lane = "density"      -> MeasureDensity(cc)
    [] lane = "lra"          -> RunLra(cc)
    [] lane = "dejagnu"      -> RunDejagnu(cc)

-----------------------------------------------------------------------------
(* build-and-test.  A failed step skips the later ones, except those that  *)
(* run always().                                                           *)

Sh4Step(s) ==
  /\ ~sh4.over /\ sh4.pc <= Len(Sh4Steps)
  /\ Sh4Steps[sh4.pc] = s

Skipped == sh4.failed # "none"

Fail4(s, why) ==
  /\ sh4' = [sh4 EXCEPT !.pc = @ + 1, !.failed = s]
  /\ failures' = failures \cup {<<run, "sh4", s, why>>}

SkipStep ==
  /\ \E s \in (StepLanes \cup ToolSteps) \ {"sh-sim"} : Sh4Step(s)
  /\ Skipped
  /\ sh4' = [sh4 EXCEPT !.pc = @ + 1]
  /\ UNCHANGED <<run, image, builds, bench, art, pub, site, built, failures>>

BuildSh4 ==
  /\ Sh4Step("build") /\ ~Skipped
  /\ \/ /\ sh4' = [sh4 EXCEPT !.pc = @ + 1]
        /\ built' = built \cup {<<run, "sh4">>}
        /\ UNCHANGED failures
     \/ Fail4("build", "broken") /\ UNCHANGED built
  /\ UNCHANGED <<run, image, builds, bench, art, pub, site>>

(* The multilib compiler of the density lane: an ordinary step, whose      *)
(* failure ends the job.                                                   *)
BuildMultilib ==
  /\ Sh4Step("multilib") /\ ~Skipped
  /\ \/ sh4' = [sh4 EXCEPT !.pc = @ + 1] /\ UNCHANGED failures
     \/ Fail4("multilib", "broken")
  /\ UNCHANGED <<run, image, builds, bench, art, pub, site, built>>

(* A lane of sh4 measures with the compilers the earlier steps installed:  *)
(* it is reached only if they succeeded.                                   *)
MeasureSh4 ==
  /\ \E l \in StepLanes \ {"sh-sim"} :
       /\ Sh4Step(l) /\ ~Skipped
       /\ \E o \in LaneOutcomes(l, TRUE) :
            IF o.ok
            THEN /\ sh4' = [sh4 EXCEPT !.pc = @ + 1,
                                       !.files = @ \cup {<<l, o.val>>}]
                 /\ failures' = IF o.why = "none" THEN failures
                                ELSE failures \cup {<<run, "sh4", l, o.why>>}
            ELSE Fail4(l, o.why)
  /\ UNCHANGED <<run, image, builds, bench, art, pub, site, built>>

(* The sh-elf compiler is installed before its smoke test, and the step    *)
(* may fail without failing the job: nothing installed, installed and      *)
(* rejected, or good.                                                      *)
BuildShElf ==
  /\ Sh4Step("sh-elf") /\ ~Skipped
  /\ \E e \in {"none", "rejected", "good"} :
       sh4' = [sh4 EXCEPT !.pc = @ + 1, !.elf = e]
  /\ UNCHANGED <<run, image, builds, bench, art, pub, site, built, failures>>

(* The simulator lane runs whatever sh-elf-gcc is installed; runtest may   *)
(* leave no sums.                                                          *)
RunShSim ==
  /\ Sh4Step("run-sh-sim") /\ ~Skipped
  /\ \E s \in IF sh4.elf = "none" THEN {FALSE} ELSE BOOLEAN :
       sh4' = [sh4 EXCEPT !.pc = @ + 1, !.sums = s]
  /\ UNCHANGED <<run, image, builds, bench, art, pub, site, built, failures>>

ParseStep ==
  /\ Sh4Step("sh-sim")
  /\ \E o \in ParseShSim(sh4.sums) :
       sh4' = [sh4 EXCEPT !.pc = @ + 1, !.files = @ \cup {<<"sh-sim", o.val>>}]
  /\ UNCHANGED <<run, image, builds, bench, art, pub, site, built, failures>>

LanesOf(steps) == {steps[i] : i \in DOMAIN steps} \cap StepLanes

(* merge-metrics.py: the concatenation of the files named, absent ones     *)
(* skipped or refused.                                                     *)
MergeMetrics(files, lanes, skipMissing) ==
  IF skipMissing \/ \A l \in lanes : \E f \in files : f[1] = l
  THEN files ELSE Absent

(* The last steps of the job, each reached when every step before it        *)
(* passed: merge, upload gcc.sum, stage the LRA results, stash the metrics. *)
Ending(step) == ~sh4.over /\ sh4.pc > Len(Sh4Steps) /\ sh4.end = step

AllMetrics == MergeMetrics(sh4.files, LanesOf(Sh4Steps), FALSE)

\* Variant: a failed step does not keep gcc.sum from being uploaded.
MergeAllAlways ==
  /\ Ending("merge")
  /\ sh4' = [sh4 EXCEPT !.end = "upload", !.over = Skipped \/ AllMetrics = Absent]
  /\ art' = [art EXCEPT !.sum = \E f \in sh4.files : f[1] = "dejagnu"]
  /\ UNCHANGED <<run, image, builds, bench, pub, site, built, failures>>

MergeAll ==
  /\ Ending("merge")
  /\ sh4' = IF Skipped \/ AllMetrics = Absent
            THEN [sh4 EXCEPT !.over = TRUE]
            ELSE [sh4 EXCEPT !.end = "upload"]
  /\ UNCHANGED <<run, image, builds, bench, art, pub, site, built, failures>>

UploadSum ==
  /\ Ending("upload")
  /\ sh4' = [sh4 EXCEPT !.end = "stage"]
  /\ art' = [art EXCEPT !.sum = TRUE]
  /\ UNCHANGED <<run, image, builds, bench, pub, site, built, failures>>

(* The raw sh-sim sums, which publish does not read, are uploaded first.    *)
StageResults ==
  /\ Ending("stage")
  /\ sh4' = [sh4 EXCEPT !.end = "stash"]
  /\ UNCHANGED <<run, image, builds, bench, art, pub, site, built, failures>>

StashMetrics ==
  /\ Ending("stash")
  /\ sh4' = [sh4 EXCEPT !.over = TRUE]
  /\ art' = [art EXCEPT !.sh4 =
               {[name |-> Name(f[1], "sh4"), val |-> f[2]] : f \in AllMetrics}]
  /\ UNCHANGED <<run, image, builds, bench, pub, site, built, failures>>

(* An upload that fails, or a copy, fails the job; what was uploaded stays. *)
EndFails ==
  /\ "upload" \in Faults
  /\ \E step \in {"upload", "stage", "stash"} : Ending(step)
  /\ sh4' = [sh4 EXCEPT !.over = TRUE, !.failed = "upload"]
  /\ failures' = failures \cup {<<run, "sh4", "job", "upload">>}
  /\ UNCHANGED <<run, image, builds, bench, art, pub, site, built>>

(* timeout-minutes ends the job wherever it is: before its uploads or       *)
(* between them.                                                            *)
Sh4TimesOut ==
  /\ "timeout" \in Faults
  /\ ~sh4.over
  /\ sh4' = [sh4 EXCEPT !.over = TRUE, !.failed = IF Skipped THEN @ ELSE "timeout"]
  /\ failures' = failures \cup {<<run, "sh4", "job", "timeout">>}
  /\ UNCHANGED <<run, image, builds, bench, art, pub, site, built>>

-----------------------------------------------------------------------------
(* The other architectures.                                                *)

BuildArch(a) ==
  /\ ~bench.over /\ builds[a] = "todo"
  /\ \/ /\ builds' = [builds EXCEPT ![a] = "ok"]
        /\ built' = built \cup {<<run, a>>}
     \/ builds' = [builds EXCEPT ![a] = "failed"] /\ UNCHANGED built
  /\ UNCHANGED <<run, image, sh4, bench, art, pub, site, failures>>

(* bench-multi runs whatever became of the builds, on the installs it can  *)
(* download.                                                               *)
BenchStart ==
  /\ ~bench.over /\ bench.pc = 0
  /\ \A a \in Archs : builds[a] # "todo"
  /\ LET ok == {a \in Archs : builds[a] = "ok"}
     IN \E h \in IF "download" \in Faults THEN SUBSET ok ELSE {ok} :
          bench' = [bench EXCEPT !.pc = 1, !.have = h]
  /\ UNCHANGED <<run, image, sh4, builds, art, pub, site, built, failures>>

\* Variant: without continue-on-error a failing lane ends the job.
LaneLostJob(b, a) == [b EXCEPT !.over = TRUE]

(* A lane that fails ends the step of its architecture, not the job.       *)
LaneLost(b, a) == [b EXCEPT !.lost = @ \cup {a}]

(* arm and x86 skip their lanes without an install; riscv32 has no such    *)
(* test and leaves it to the lane.                                         *)
BenchLane ==
  /\ ~bench.over /\ bench.pc \in DOMAIN BenchSteps
  /\ LET a == BenchSteps[bench.pc][1]
         l == BenchSteps[bench.pc][2]
         next == [bench EXCEPT !.pc = @ + 1]
     IN IF a \in bench.lost \/ (a # "riscv32" /\ a \notin bench.have)
        THEN bench' = next /\ UNCHANGED failures
        ELSE \E o \in LaneOutcomes(l, a \in bench.have) :
               /\ bench' = IF o.ok
                           THEN [next EXCEPT !.files = @ \cup {<<l, o.val, a>>}]
                           ELSE LaneLost(next, a)
               /\ failures' = IF o.why = "none" THEN failures
                              ELSE failures \cup {<<run, a, l, o.why>>}
  /\ UNCHANGED <<run, image, sh4, builds, art, pub, site, built>>

BenchFinish ==
  /\ ~bench.over /\ bench.pc > Len(BenchSteps)
  /\ bench' = [bench EXCEPT !.over = TRUE]
  /\ art' = [art EXCEPT !.multi =
               {[name |-> Name(f[1], f[3]), val |-> f[2]] :
                  f \in MergeMetrics(bench.files, {}, TRUE)}]
  /\ UNCHANGED <<run, image, sh4, builds, pub, site, built, failures>>

BenchTimesOut ==
  /\ "timeout" \in Faults
  /\ ~bench.over /\ bench.pc > 0
  /\ bench' = [bench EXCEPT !.over = TRUE]
  /\ failures' = failures \cup {<<run, a, "job", "timeout">> : a \in Archs}
  /\ UNCHANGED <<run, image, sh4, builds, art, pub, site, built>>

-----------------------------------------------------------------------------
(* publish: one action per step of the job.                                *)

At(pc) == pub.pc = pc

PubUnchanged == UNCHANGED <<run, image, sh4, builds, bench, art, built, failures>>

\* Variant: publish needs build-and-test to succeed (no !cancelled()).
StartPublishOnSuccess ==
  /\ At("wait") /\ sh4.over /\ bench.over
  /\ pub' = [pub EXCEPT !.pc = IF sh4.failed = "none" THEN "fetch" ELSE "done"]
  /\ PubUnchanged /\ UNCHANGED site

(* needs: [build-and-test, bench-multi], whatever their results.           *)
StartPublish ==
  /\ At("wait") /\ sh4.over /\ bench.over
  /\ pub' = [pub EXCEPT !.pc = "fetch"]
  /\ PubUnchanged /\ UNCHANGED site

(* Three downloads, each of which may fail without failing the job.        *)
Fetch ==
  LET lose(x, none) == IF "download" \in Faults THEN {x, none} ELSE {x}
  IN /\ At("fetch")
     /\ \E m \in lose(art.sh4, Absent), mm \in lose(art.multi, Absent),
           d \in lose(art.sum, FALSE) :
          pub' = [pub EXCEPT !.pc = "extract", !.sh4 = m, !.multi = mm, !.sum = d]
     /\ PubUnchanged /\ UNCHANGED site

(* Extract failed tests: without gcc.sum, an empty list flagged            *)
(* build_failed.                                                           *)
Extract ==
  /\ At("extract")
  /\ pub' = [pub EXCEPT !.pc = "seed", !.flag = ~pub.sum]
  /\ PubUnchanged /\ UNCHANGED site

\* Variant: the downloaded history is left where the action does not look.
SeedMisplaced ==
  /\ At("seed")
  /\ pub' = [pub EXCEPT !.pc = "lra", !.hist = IF site.run = 0 THEN site.hist ELSE {}]
  /\ PubUnchanged /\ UNCHANGED site

(* Seed from the published history; a download that fails or holds no      *)
(* entries is taken for there being none.                                  *)
Seed ==
  /\ At("seed")
  /\ \E h \in IF "seed" \in Faults THEN {site.hist, {}} ELSE {site.hist} :
       pub' = [pub EXCEPT !.pc = "lra", !.hist = h]
  /\ PubUnchanged /\ UNCHANGED site

StageLra ==
  /\ At("lra")
  /\ pub' = [pub EXCEPT !.pc = "migrate", !.lra = pub.sh4 # Absent]
  /\ PubUnchanged /\ UNCHANGED site

\* Variant: riscv32 missing from KNOWN_ARCH_SUFFIXES.
MaybeRenameNoRiscv(n) ==
  IF n.sfx = <<"riscv32", "sh4">> THEN [n EXCEPT !.sfx = <<"riscv32">>]
  ELSE IF n.lane \in SuffixLanes /\ n.sfx \in {<<>>, <<"riscv32">>}
  THEN [n EXCEPT !.sfx = Append(@, "sh4")]
  ELSE n

(* maybe_rename of migrate-benchmark-data.py, on the suffixes of a name.   *)
MaybeRename(n) ==
  IF n.sfx = <<"riscv32", "sh4">> THEN [n EXCEPT !.sfx = <<"riscv32">>]
  ELSE IF n.lane \in SuffixLanes /\ n.sfx = <<>> THEN [n EXCEPT !.sfx = <<"sh4">>]
  ELSE n

Migrate ==
  /\ At("migrate")
  /\ pub' = [pub EXCEPT !.pc = "merge",
                        !.hist = {[p EXCEPT !.name = MaybeRename(@)] : p \in pub.hist}]
  /\ PubUnchanged /\ UNCHANGED site

Merge ==
  /\ At("merge")
  /\ pub' = [pub EXCEPT !.pc = "store",
                        !.new = MergeMetrics(pub.sh4 \cup pub.multi, {}, TRUE)]
  /\ PubUnchanged /\ UNCHANGED site

\* Variant: a run whose multi-arch metrics are absent is not stored.
StoreOnlyWhole ==
  /\ At("store")
  /\ pub' = [pub EXCEPT !.pc = "badges",
                        !.hist = IF pub.multi = Absent THEN @
                                 ELSE @ \cup {[run |-> run, name |-> m.name, val |-> m.val] :
                                                m \in pub.new}]
  /\ PubUnchanged /\ UNCHANGED site

(* benchmark-action appends one point per metric; the step is skipped when *)
(* there is none.  data.js repeats the history.                            *)
Store ==
  /\ At("store")
  /\ pub' = [pub EXCEPT !.pc = "badges",
                        !.hist = @ \cup {[run |-> run, name |-> m.name, val |-> m.val] :
                                           m \in pub.new}]
  /\ PubUnchanged /\ UNCHANGED site

(* A zero makes the badge red, or "build failing" for sh-sim.              *)
Badge(l, v) ==
  CASE v = "zero" /\ l = "sh-sim"            -> "failing"
    [] v = "zero" /\ l \in {"busybox", "musl"} -> "red"
    [] OTHER                                 -> "shown"

(* Every badge's metric must be a number; shields.io must answer.          *)
Badges ==
  LET entry(l) == {m \in pub.sh4 : m.name = Name(l, "sh4")}
      value(l) == (CHOOSE m \in entry(l) : TRUE).val
  IN /\ At("badges")
     /\ \/ /\ pub.sh4 = Absent
           /\ pub' = [pub EXCEPT !.pc = "deploy",
                                 !.badge = [l \in BadgeLanes |-> "failing"]]
        \/ /\ pub.sh4 # Absent
           /\ pub' = IF \A l \in BadgeLanes : entry(l) # {}
                     THEN [pub EXCEPT !.pc = "deploy",
                                      !.badge = [l \in BadgeLanes |-> Badge(l, value(l))]]
                     ELSE [pub EXCEPT !.pc = "done"]
        \/ "shields" \in Faults /\ pub' = [pub EXCEPT !.pc = "done"]
     /\ PubUnchanged /\ UNCHANGED site

(* Upload and deploy replace the whole site.                               *)
Deploy ==
  /\ At("deploy")
  /\ site' = [run |-> run, hist |-> pub.hist, flag |-> pub.flag,
              lra |-> pub.lra, badge |-> pub.badge]
  /\ pub' = [pub EXCEPT !.pc = "done"]
  /\ PubUnchanged

(* A cancelled run does not publish (if: !cancelled()), and its jobs stop. *)
Cancel ==
  /\ "cancel" \in Faults
  /\ run > 0 /\ ~At("done")
  /\ pub' = [pub EXCEPT !.pc = "done"]
  /\ sh4' = [sh4 EXCEPT !.over = TRUE]
  /\ bench' = [bench EXCEPT !.over = TRUE]
  /\ UNCHANGED <<run, image, builds, art, site, built, failures>>

Sh4Job == \/ SkipStep \/ BuildSh4 \/ BuildMultilib \/ MeasureSh4
          \/ BuildShElf \/ RunShSim \/ ParseStep
          \/ MergeAll \/ UploadSum \/ StageResults \/ StashMetrics \/ EndFails

BenchJobs == (\E a \in Archs : BuildArch(a)) \/ BenchStart \/ BenchLane \/ BenchFinish

PublishJob == \/ StartPublish \/ Fetch \/ Extract \/ Seed \/ StageLra
              \/ Migrate \/ Merge \/ Store \/ Badges \/ Deploy

Next == \/ NewRun \/ Sh4Job \/ BenchJobs \/ PublishJob
        \/ Sh4TimesOut \/ BenchTimesOut \/ Cancel

Spec == Init /\ [][Next]_vars

(* A job that can take a step takes one: runners do not idle for ever      *)
(* (each job has a timeout), and GitHub starts a job whose needs are over. *)
FairSpec == /\ Spec
            /\ WF_vars(Sh4Job) /\ WF_vars(BenchJobs) /\ WF_vars(PublishJob)

-----------------------------------------------------------------------------
(* A metric file of any lane holds a value merge-metrics.py accepts, and    *)
(* no point of the published history is of a run that did not start.        *)
TypeOK ==
  /\ run \in 0..MaxRuns /\ image \in Images
  /\ sh4.pc \in 1..(Len(Sh4Steps) + 1)
  /\ sh4.files \subseteq StepLanes \X Vals
  /\ builds \in [Archs -> {"todo", "ok", "failed"}]
  /\ bench.pc \in 0..(Len(BenchSteps) + 1) /\ bench.have \subseteq Archs
  /\ bench.files \subseteq StepLanes \X Vals \X Archs
  /\ pub.badge \in [BadgeLanes -> {"none", "failing", "red", "shown"}]
  /\ \A p \in site.hist : p.run \in 0..run /\ p.val \in Vals

(* The series a point belongs to: its family and the architecture it       *)
(* measures, whatever its name was when it was stored.                     *)
ArchOf(n) == IF n.sfx = <<>> THEN "sh4" ELSE Head(n.sfx)

Series(p) == <<p.name.lane, ArchOf(p.name)>>

Content(h) == {<<p.run, Series(p), p.val>> : p \in h}

(* "seed from it so this run appends" (ci-full.yml:285): a deployment, of  *)
(* whatever partial run, keeps every point published before it.            *)
HistoryKept == [][Content(site.hist) \subseteq Content(site'.hist)]_vars

(* Migration leaves one name per series: of a site this code deployed, no  *)
(* series is split in two by the suffix of its name.                       *)
OneNamePerSeries ==
  site.run > 0 =>
    \A p, q \in site.hist : Series(p) = Series(q) => p.name = q.name

PointsOf(r, lane, arch) ==
  {p \in site.hist : p.run = r /\ Series(p) = <<lane, arch>>}

(* The badges speak of the run whose points end the history: a badge says   *)
(* "build failing" exactly when this run stored no point of its metric.     *)
(* The sh-sim badge is not of them: it says so of a stored zero as well     *)
(* (ci-full.yml:437-439).                                                   *)
BadgesMatchHistory ==
  site.run > 0 =>
    \A l \in BadgeLanes \ {"sh-sim"} :
      (site.badge[l] = "failing") <=> (PointsOf(site.run, l, "sh4") = {})

(* The lanes whose script ends in failure when a compile breaks: fail_hard, *)
(* or make under set -e.                                                    *)
HardLanes == {"busybox", "busybox-musl", "musl", "coremark"}

(* The published history holds no zero that stands for a broken compile of  *)
(* one of these lanes ("Publishing a 0 here is what hid the 2026-08-04      *)
(* back_threader ICE", run-busybox.sh:74-76): zero means that something the *)
(* lane needs was absent.  csibe and density do publish such zeros.         *)
ZeroMeansSkipped ==
  \A p \in site.hist :
    p.val = "zero" /\ p.name.lane \in HardLanes =>
      <<p.run, ArchOf(p.name), p.name.lane, "broken">> \notin failures

LanesOn(a) == {BenchSteps[i][2] : i \in {j \in DOMAIN BenchSteps : BenchSteps[j][1] = a}}

Healthy(a) ==
  /\ <<run, a>> \in built
  /\ \A f \in failures : ~(f[1] = run /\ f[2] = a)

(* "measure whichever installs exist so one arch's build break doesn't     *)
(* freeze the others" (ci-full.yml:583-584): once the run is deployed, an  *)
(* architecture none of whose lanes failed has a point of this run in      *)
(* every series, whatever the others did.                                  *)
WorkingArchAdvances ==
  (run > 0 /\ site.run = run) =>
    /\ \A a \in Archs : Healthy(a) =>
         \A l \in LanesOn(a) : PointsOf(run, l, a) # {}
    /\ Healthy("sh4") =>
         \A l \in LanesOf(Sh4Steps) : PointsOf(run, l, "sh4") # {}

(* The parts of a deployed page tell the same of sh4, although the dejagnu  *)
(* flag comes from gcc.sum and the badges and LRA results from the metrics, *)
(* two artifacts uploaded one after the other.  With every download         *)
(* answered, the badges all say "build failing" exactly when the LRA        *)
(* results are absent, a page flagged as of a failed build shows neither,   *)
(* and one that shows test results beside failing badges is of a run whose  *)
(* sh4 job died between the two uploads.                                    *)
PanelsAgree ==
  site.run > 0 =>
    /\ ~site.lra <=> \A l \in BadgeLanes : site.badge[l] = "failing"
    /\ site.flag => ~site.lra
    /\ ~site.flag /\ ~site.lra =>
         \E why \in {"timeout", "upload"} :
           <<site.run, "sh4", "job", why>> \in failures

(* "if any build/bench lane failed, still deploy" (ci-full.yml:227): with  *)
(* the services it calls answering, every run ends in a deployment; no     *)
(* combination of failed lanes trips the badge step's number checks.       *)
EveryRunDeployed == \A r \in 1..MaxRuns : (run = r) ~> (site.run >= r)

=============================================================================
