---------------------------- MODULE CiFullProofs ----------------------------
(***************************************************************************)
(* Proofs about CiFull, for every list of steps and lanes, every site      *)
(* found at the start, every number of runs and, unless said otherwise,    *)
(* every set of faults.                                                    *)
(*                                                                         *)
(* The invariant has three layers, each proved with the help of those      *)
(* below it: the types; JobsInv, which ties the metric files and artifacts *)
(* of a run to what its lanes did; and PubInv, which ties the html         *)
(* directory and the site to the artifacts and to the site before.         *)
(***************************************************************************)
EXTENDS CiFull, SequenceTheorems, TLAPS

-----------------------------------------------------------------------------
(* The invariant: types *)

Metric == [name: Names, val: Vals]

Point == [run: 0..MaxRuns, name: Names \cup OldNames, val: Vals]

BadgeBoard == [BadgeLanes -> {"none", "failing", "red", "shown"}]

PubSteps == {"wait", "fetch", "extract", "seed", "lra", "migrate", "merge",
             "store", "badges", "deploy", "done"}

Whys == {"missing", "broken", "copy", "nosum", "timeout", "upload"}

Steps == StepLanes \cup ToolSteps

Sh4Type ==
    [pc: 1..(Len(Sh4Steps) + 1), failed: Steps \cup {"none", "timeout", "upload"},
     files: SUBSET (StepLanes \X Vals), elf: {"none", "rejected", "good"},
     sums: BOOLEAN, end: {"merge", "upload", "stage", "stash"}, over: BOOLEAN]

BenchType ==
    [pc: 0..(Len(BenchSteps) + 1), have: SUBSET Archs, lost: SUBSET Archs,
     files: SUBSET (StepLanes \X Vals \X Archs), over: BOOLEAN]

ArtType == [sh4: SUBSET Metric, multi: SUBSET Metric, sum: BOOLEAN]

PubType ==
    [pc: PubSteps, sh4: SUBSET Metric, multi: SUBSET Metric, sum: BOOLEAN,
     flag: BOOLEAN, lra: BOOLEAN, hist: SUBSET Point, new: SUBSET Metric,
     badge: BadgeBoard]

SiteType ==
    [run: 0..MaxRuns, hist: SUBSET Point, flag: BOOLEAN, lra: BOOLEAN,
     badge: BadgeBoard]

CiTypeOK ==
    /\ run \in 0..MaxRuns /\ image \in Images
    /\ sh4 \in Sh4Type /\ bench \in BenchType
    /\ builds \in [Archs -> {"todo", "ok", "failed"}]
    /\ art \in ArtType /\ pub \in PubType /\ site \in SiteType
    /\ built \subseteq (1..run) \X (Archs \cup {"sh4"})
    /\ failures \subseteq (1..run) \X (Archs \cup {"sh4"})
                  \X (Steps \cup {"job"}) \X Whys
    /\ run = 0 => pub.pc = "done"
    /\ pub.pc # "wait" => sh4.over /\ bench.over

-----------------------------------------------------------------------------
(* The invariant: the jobs of a run *)

FailedOn(a) == \E x \in failures : x[1] = run /\ x[2] = a

Broken(a, l) == <<run, a, l, "broken">> \in failures

(* A file comes from a lane that was reached and, of a lane that fails      *)
(* hard, whose compile did not break; while no step failed, every lane that *)
(* was reached wrote one.                                                   *)
Sh4Inv ==
    /\ \A f \in sh4.files : \E i \in 1..(sh4.pc - 1) : Sh4Steps[i] = f[1]
    /\ \A l \in HardLanes : Broken("sh4", l) =>
         /\ \E i \in 1..(sh4.pc - 1) : Sh4Steps[i] = l
         /\ \A f \in sh4.files : f[1] # l
    /\ Skipped => FailedOn("sh4")
    /\ ~Skipped => \A i \in 1..(sh4.pc - 1) : Sh4Steps[i] \in StepLanes =>
                     \E f \in sh4.files : f[1] = Sh4Steps[i]

(* The same of bench-multi, which also has to have found the install.       *)
BenchFiles ==
    \A f \in bench.files : \E i \in 1..(bench.pc - 1) : BenchSteps[i] = <<f[3], f[1]>>

BenchBroken ==
    \A a \in Archs, l \in HardLanes : Broken(a, l) =>
      /\ \E i \in 1..(bench.pc - 1) : BenchSteps[i] = <<a, l>>
      /\ \A f \in bench.files : ~(f[1] = l /\ f[3] = a)

Installs ==
    /\ \A a \in Archs : <<run, a>> \in built => builds[a] = "ok"
    /\ bench.pc > 0 => \A a \in Archs : builds[a] # "todo"
    /\ bench.pc > 0 /\ "download" \notin Faults =>
         \A a \in Archs : builds[a] = "ok" => a \in bench.have

LostFailed == \A a \in bench.lost : FailedOn(a)

BenchWhole ==
    "download" \notin Faults =>
      \A i \in 1..(bench.pc - 1) : Healthy(BenchSteps[i][1]) =>
        \E f \in bench.files : BenchSteps[i] = <<f[3], f[1]>>

BenchInv == BenchFiles /\ BenchBroken /\ Installs /\ LostFailed /\ BenchWhole

(* The last steps come after every lane wrote its file, and gcc.sum goes up *)
(* before the metrics.                                                      *)
EndInv ==
    /\ sh4.end = "merge" => ~art.sum
    /\ sh4.end # "merge" =>
         /\ sh4.pc = Len(Sh4Steps) + 1
         /\ \A l \in LanesOf(Sh4Steps) : \E f \in sh4.files : f[1] = l
    /\ sh4.end \in {"stage", "stash"} => art.sum

(* The sh4 job died in or between its uploads.                              *)
DiedUploading ==
    \E why \in {"timeout", "upload"} : <<run, "sh4", "job", why>> \in failures

(* The artifacts are made of the files, and of a healthy architecture they  *)
(* hold every series.                                                       *)
ArtInv ==
    /\ art.sh4 # Absent => sh4.over
    /\ art.multi # Absent => bench.over
    /\ art.sh4 # Absent => art.sum
    /\ art.sum /\ art.sh4 = Absent /\ sh4.over /\ pub.pc # "done" => DiedUploading
    /\ \A m \in art.sh4 : \E f \in sh4.files :
         m = [name |-> Name(f[1], "sh4"), val |-> f[2]]
    /\ art.sh4 # Absent =>
         \A l \in LanesOf(Sh4Steps) : \E m \in art.sh4 : m.name = Name(l, "sh4")
    /\ \A m \in art.multi : \E f \in bench.files :
         m = [name |-> Name(f[1], f[3]), val |-> f[2]]
    /\ pub.pc # "done" /\ sh4.over /\ Healthy("sh4") => art.sh4 # Absent
    /\ pub.pc # "done" /\ bench.over /\ "download" \notin Faults =>
         \A a \in Archs : Healthy(a) =>
           \A l \in LanesOn(a) : \E m \in art.multi : m.name = Name(l, a)

JobsInv == Sh4Inv /\ BenchInv /\ EndInv /\ ArtInv

-----------------------------------------------------------------------------
(* The invariant: publish and the site *)

(* The steps of publish after the one that stored, merged, and so on. *)
Stored    == {"badges", "deploy"}
Merged    == Stored \cup {"store"}
Migrated  == Merged \cup {"merge"}
Staged    == Migrated \cup {"migrate"}
Seeded    == Staged \cup {"lra"}
Extracted == Seeded \cup {"seed"}
Fetched   == Extracted \cup {"extract"}

(* The point a metric of this run becomes. *)
PointOf(m) == [run |-> run, name |-> m.name, val |-> m.val]

ZeroOK(p) ==
    p.val = "zero" /\ p.name.lane \in HardLanes =>
      <<p.run, ArchOf(p.name), p.name.lane, "broken">> \notin failures

(* What was downloaded. *)
FetchedInv ==
    /\ pub.sh4 \in {Absent, art.sh4} /\ pub.multi \in {Absent, art.multi}
    /\ pub.pc \in {"wait", "fetch"} => pub.sh4 = Absent /\ pub.multi = Absent
    /\ pub.pc \in Fetched /\ "download" \notin Faults =>
         pub.sh4 = art.sh4 /\ pub.multi = art.multi /\ pub.sum = art.sum
    /\ pub.pc \in Extracted => pub.flag = ~pub.sum
    /\ pub.pc \in Staged => pub.lra = (pub.sh4 # Absent)

(* The history in preparation. *)
HistInv ==
    /\ pub.pc \in Seeded => \A p \in pub.hist : p.run <= run /\ ZeroOK(p)
    /\ pub.pc \in Seeded /\ pub.pc \notin Stored => \A p \in pub.hist : p.run < run
    /\ pub.pc \in Seeded /\ "seed" \notin Faults => Content(site.hist) \subseteq Content(pub.hist)
    /\ pub.pc \in Migrated => \A p \in pub.hist : p.name \in Names
    /\ pub.pc \in Merged => pub.new = pub.sh4 \cup pub.multi
    /\ pub.pc \in Stored => /\ \A m \in pub.new : PointOf(m) \in pub.hist
                        /\ \A p \in pub.hist : p.run = run =>
                             \E m \in pub.new : p = PointOf(m)

(* The badges about to be deployed. *)
BadgeInv ==
    pub.pc = "deploy" =>
      IF pub.sh4 = Absent
      THEN \A l \in BadgeLanes : pub.badge[l] = "failing"
      ELSE \A l \in BadgeLanes \ {"sh-sim"} :
             /\ pub.badge[l] \in {"red", "shown"}
             /\ \E m \in pub.sh4 : m.name = Name(l, "sh4")

(* The site is of an earlier run until this one is deployed. *)
SiteInv ==
    /\ site.run <= run /\ (pub.pc # "done" => site.run < run)
    /\ \A p \in site.hist : p.run <= site.run
    /\ site.run > 0 => \A p \in site.hist : p.name \in Names
    /\ ZeroMeansSkipped /\ BadgesMatchHistory
    /\ "download" \notin Faults => PanelsAgree /\ WorkingArchAdvances

PubInv == FetchedInv /\ HistInv /\ BadgeInv /\ SiteInv

-----------------------------------------------------------------------------
(* Lemmas about the constants and the operators *)

(* The steps of build-and-test. *)
LEMMA Sh4StepsType ==
    /\ Len(Sh4Steps) \in Nat /\ DOMAIN Sh4Steps = 1..Len(Sh4Steps)
    /\ \A i \in 1..Len(Sh4Steps) : Sh4Steps[i] \in StepLanes \cup ToolSteps
    /\ StepLanes \cap ToolSteps = {}
  BY CiFullAssumption, LenProperties
     DEF StepLanes, ToolSteps, SuffixLanes, Sh4Lanes

(* The lanes of bench-multi. *)
LEMMA BenchStepsType ==
    /\ Len(BenchSteps) \in Nat /\ DOMAIN BenchSteps = 1..Len(BenchSteps)
    /\ \A i \in 1..Len(BenchSteps) :
         /\ BenchSteps[i][1] \in Archs /\ BenchSteps[i][2] \in SuffixLanes
         /\ BenchSteps[i] = <<BenchSteps[i][1], BenchSteps[i][2]>>
    /\ Archs \subseteq {"arm", "x86", "riscv32"} /\ "sh4" \notin Archs
    /\ SuffixLanes \subseteq StepLanes \ {"sh-sim"}
  BY CiFullAssumption, LenProperties
     DEF Archs, StepLanes, SuffixLanes, Sh4Lanes

(* A lane writes a value, or fails for a reason and writes nothing; one     *)
(* that does not fail hard may write a zero for a broken compile.           *)
LEMMA OutcomeType ==
    ASSUME NEW l \in StepLanes \ {"sh-sim"}, NEW cc,
           NEW o \in LaneOutcomes(l, cc)
    PROVE  /\ o.ok => o.val \in Vals
           /\ o.ok /\ o.why # "none" => o.why = "broken" /\ l \notin HardLanes
           /\ ~o.ok => o.why \in Whys
  <1>1. l \in {"csibe", "coremark", "busybox", "busybox-musl", "musl", "density",
               "lra", "dejagnu"}
    BY DEF StepLanes, SuffixLanes, Sh4Lanes
  <1> DEFINE Good(x) == \/ \E v \in Vals : x = Emit(v)
                        \/ \E w \in {"missing", "broken", "copy", "nosum"} : x = Fails(w)
             Soft(x) == Good(x) \/ x = Swallowed
  <1>2. \A x \in LaneOutcomes(l, cc) :
          Good(x) \/ (x = Swallowed /\ l \in {"csibe", "density"})
    <2>1. \A x \in RunCoremark(cc) : Good(x)
      BY DEF RunCoremark, Vals
    <2>6. \A x \in RunCsibe(cc) \cup MeasureDensity(cc) : Soft(x)
      BY DEF RunCsibe, MeasureDensity, Vals
    <2>2. ASSUME NEW p PROVE \A x \in SkipOrFail(p) : Good(x)
      BY DEF SkipOrFail, Vals
    <2>3. \A x \in RunBusybox(cc) \cup RunBusyboxMusl(cc) \cup RunMusl(cc) : Good(x)
      BY <2>2 DEF RunBusybox, RunBusyboxMusl, RunMusl
    <2>4. \A x \in RunLra(cc) \cup RunDejagnu(cc) : Good(x)
      BY DEF RunLra, RunDejagnu, Vals
    <2>5. /\ l = "csibe" => LaneOutcomes(l, cc) = RunCsibe(cc)
          /\ l = "coremark" => LaneOutcomes(l, cc) = RunCoremark(cc)
          /\ l = "busybox" => LaneOutcomes(l, cc) = RunBusybox(cc)
          /\ l = "busybox-musl" => LaneOutcomes(l, cc) = RunBusyboxMusl(cc)
          /\ l = "musl" => LaneOutcomes(l, cc) = RunMusl(cc)
          /\ l = "density" => LaneOutcomes(l, cc) = MeasureDensity(cc)
          /\ l = "lra" => LaneOutcomes(l, cc) = RunLra(cc)
          /\ l = "dejagnu" => LaneOutcomes(l, cc) = RunDejagnu(cc)
      BY DEF LaneOutcomes
    <2> HIDE DEF Good
    <2> QED BY <1>1, <2>1, <2>3, <2>4, <2>5, <2>6
  <1>3. Good(o) \/ (o = Swallowed /\ l \in {"csibe", "density"})
    BY <1>2
  <1>4. CASE \E v \in Vals : o = Emit(v)
    <2>1. PICK v \in Vals : o = [ok |-> TRUE, val |-> v, why |-> "none"]
      BY <1>4 DEF Emit
    <2>2. o.ok = TRUE /\ o.val = v /\ o.why = "none"
      BY <2>1
    <2> QED BY <2>2, Zenon
  <1>5. CASE \E w \in {"missing", "broken", "copy", "nosum"} : o = Fails(w)
    <2>1. PICK w \in {"missing", "broken", "copy", "nosum"} :
            o = [ok |-> FALSE, val |-> "none", why |-> w]
      BY <1>5 DEF Fails
    <2>2. o.ok = FALSE /\ o.why = w /\ w \in Whys
      BY <2>1 DEF Whys
    <2> QED BY <2>2, Zenon
  <1>6. CASE o = Swallowed /\ l \in {"csibe", "density"}
    <2>1. o.ok = TRUE /\ o.val = "zero" /\ o.why = "broken" /\ "zero" \in Vals
      BY <1>6 DEF Swallowed, Vals
    <2>2. l \notin HardLanes
      BY <1>6 DEF HardLanes
    <2> QED BY <2>1, <2>2, Zenon
  <1> QED BY <1>3, <1>4, <1>5, <1>6

(* What this code calls a metric. *)
LEMMA NameType ==
    ASSUME NEW l \in StepLanes, NEW a \in Archs \cup {"sh4"}
    PROVE  /\ Name(l, a) \in Names /\ Name(l, a).lane = l
           /\ a = "sh4" \/ l \in SuffixLanes => ArchOf(Name(l, a)) = a
  BY BenchStepsType DEF Names, Name, ArchOf

(* A name of this code is known by its series. *)
LEMMA NameOfSeries ==
    ASSUME NEW n \in Names, NEW m \in Names,
           n.lane = m.lane, ArchOf(n) = ArchOf(m)
    PROVE  n = m
  BY DEF Names, Name, ArchOf

(* Migration gives every name its form of today and keeps its series. *)
LEMMA RenameKeepsSeries ==
    ASSUME NEW n \in Names \cup OldNames
    PROVE  /\ MaybeRename(n) \in Names
           /\ MaybeRename(n).lane = n.lane
           /\ ArchOf(MaybeRename(n)) = ArchOf(n)
  <1>1. CASE n \in Names
    BY <1>1 DEF Names, Name, MaybeRename, ArchOf
  <1>2. CASE n \in OldNames /\ n.sfx = <<>>
    <2>1. n.lane \in SuffixLanes /\ n = [lane |-> n.lane, sfx |-> <<>>]
      BY <1>2 DEF OldNames
    <2>2. MaybeRename(n) = Name(n.lane, "sh4")
      BY <2>1 DEF MaybeRename, Name
    <2> QED BY <2>1, <2>2, NameType, <1>2 DEF StepLanes, ArchOf
  <1>3. CASE n \in OldNames /\ n.sfx = <<"riscv32", "sh4">>
    <2>1. n.lane \in SuffixLanes /\ n = [lane |-> n.lane, sfx |-> <<"riscv32", "sh4">>]
      BY <1>3 DEF OldNames
    <2>2. MaybeRename(n) = Name(n.lane, "riscv32")
      BY <2>1 DEF MaybeRename, Name
    <2> QED BY <2>1, <2>2, <1>3 DEF StepLanes, ArchOf, Names, Name
  <1> QED BY <1>1, <1>2, <1>3 DEF OldNames

(* A merge that skips what is missing takes everything there is. *)
LEMMA MergeTakesAll ==
    ASSUME NEW files, NEW lanes
    PROVE  MergeMetrics(files, lanes, TRUE) = files
  BY DEF MergeMetrics

-----------------------------------------------------------------------------
(* Types: every step keeps them *)

(* While a job runs, publish waits and there is a run. *)
LEMMA WhileRunning ==
    ASSUME CiTypeOK, ~sh4.over \/ ~bench.over
    PROVE  pub.pc = "wait" /\ run \in 1..MaxRuns /\ MaxRuns \in Nat
  BY CiFullAssumption DEF CiTypeOK

(* Every name today's lanes give makes a metric. *)
LEMMA MetricType ==
    ASSUME NEW l \in StepLanes, NEW a \in Archs \cup {"sh4"}, NEW v \in Vals
    PROVE  [name |-> Name(l, a), val |-> v] \in Metric
  BY NameType DEF Metric

(* What jobs start with. *)
LEMMA FreshTypes ==
    /\ NewSh4 \in Sh4Type /\ [NewSh4 EXCEPT !.over = TRUE] \in Sh4Type
    /\ NewBench \in BenchType /\ [NewBench EXCEPT !.over = TRUE] \in BenchType
    /\ NewArt \in ArtType /\ NoBadges \in BadgeBoard
    /\ NewPub \in PubType /\ [NewPub EXCEPT !.pc = "done"] \in PubType
  <1>1. NoBadges \in BadgeBoard
    BY DEF NoBadges, BadgeBoard
  <1>2. 1 \in 1..(Len(Sh4Steps) + 1) /\ 0 \in 0..(Len(BenchSteps) + 1)
    BY Sh4StepsType, BenchStepsType
  <1>3. NewSh4 \in Sh4Type /\ [NewSh4 EXCEPT !.over = TRUE] \in Sh4Type
    BY <1>2 DEF NewSh4, Sh4Type
  <1>4. NewBench \in BenchType /\ [NewBench EXCEPT !.over = TRUE] \in BenchType
    BY <1>2 DEF NewBench, BenchType
  <1>5. NewArt \in ArtType
    BY DEF NewArt, ArtType, Absent
  <1>6. NewPub \in PubType /\ [NewPub EXCEPT !.pc = "done"] \in PubType
    BY <1>1 DEF NewPub, PubType, PubSteps, Absent
  <1> QED BY <1>1, <1>3, <1>4, <1>5, <1>6

(* Before the first run. *)
LEMMA CiInit == Init => CiTypeOK
  <1> SUFFICES ASSUME Init PROVE CiTypeOK
    OBVIOUS
  <1>1. Legacy \subseteq Point
    BY CiFullAssumption DEF Point
  <1>2. site \in SiteType
    BY <1>1, FreshTypes, CiFullAssumption DEF Init, SiteType
  <1> QED
    BY <1>2, FreshTypes, CiFullAssumption DEF Init, CiTypeOK, NewSh4, NewBench, NewPub

(* The group admits a run. *)
LEMMA NewRunTypes == ASSUME CiTypeOK, NewRun PROVE CiTypeOK'
  <1>1. run' \in 1..MaxRuns /\ run \in Nat /\ run' = run + 1
    BY CiFullAssumption DEF CiTypeOK, NewRun
  <1>2. 1..run \subseteq 1..run'
    BY <1>1
  <1>3. /\ built' \subseteq (1..run') \X (Archs \cup {"sh4"})
        /\ failures' \subseteq (1..run') \X (Archs \cup {"sh4"}) \X (Steps \cup {"job"}) \X Whys
    BY <1>2 DEF CiTypeOK, NewRun
  <1> QED BY <1>1, <1>3, FreshTypes DEF CiTypeOK, NewRun, NewPub

(* A failure is of the run in progress. *)
LEMMA FailureType ==
    ASSUME CiTypeOK, run \in 1..MaxRuns, NEW a \in Archs \cup {"sh4"},
           NEW l \in Steps \cup {"job"}, NEW w \in Whys
    PROVE  failures \cup {<<run, a, l, w>>}
             \subseteq (1..run) \X (Archs \cup {"sh4"}) \X (Steps \cup {"job"}) \X Whys
  BY CiFullAssumption DEF CiTypeOK

(* A step of build-and-test that moves on, whatever it leaves.             *)
LEMMA Sh4StepTypes ==
    ASSUME CiTypeOK, ~sh4.over, sh4' \in Sh4Type, sh4'.over = FALSE,
           failures' \subseteq (1..run) \X (Archs \cup {"sh4"}) \X (Steps \cup {"job"}) \X Whys,
           built' \in {built, built \cup {<<run, "sh4">>}},
           UNCHANGED <<run, image, builds, bench, art, pub, site>>
    PROVE  CiTypeOK'
  <1>1. built' \subseteq (1..run) \X (Archs \cup {"sh4"})
    BY WhileRunning DEF CiTypeOK
  <1> QED BY <1>1, WhileRunning DEF CiTypeOK

(* The files with one more. *)
LEMMA FileAdded ==
    ASSUME CiTypeOK, NEW l \in StepLanes, NEW v \in Vals
    PROVE  sh4.files \cup {<<l, v>>} \in SUBSET (StepLanes \X Vals)
  <1>1. sh4.files \in SUBSET (StepLanes \X Vals)
    BY DEF CiTypeOK, Sh4Type
  <1>2. <<l, v>> \in StepLanes \X Vals
    OBVIOUS
  <1> QED BY <1>1, <1>2

(* What a lane of build-and-test leaves behind. *)
MeasuredAs(l, o) ==
    IF o.ok
    THEN /\ sh4' = [sh4 EXCEPT !.pc = @ + 1, !.files = @ \cup {<<l, o.val>>}]
         /\ failures' = IF o.why = "none" THEN failures
                        ELSE failures \cup {<<run, "sh4", l, o.why>>}
    ELSE Fail4(l, o.why)

(* build-and-test. *)
LEMMA Sh4Types == ASSUME CiTypeOK, Sh4Job PROVE CiTypeOK'
  <1> DEFINE Fs == (1..run) \X (Archs \cup {"sh4"}) \X (Steps \cup {"job"}) \X Whys
             next == [sh4 EXCEPT !.pc = @ + 1]
  <1>1. ASSUME NEW s \in Steps, Sh4Step(s)
        PROVE  /\ next \in Sh4Type /\ next.over = FALSE /\ ~sh4.over
               /\ sh4 \in Sh4Type /\ sh4.pc + 1 \in 1..(Len(Sh4Steps) + 1)
    BY <1>1, Sh4StepsType DEF CiTypeOK, Sh4Type, Sh4Step
  <1>2. ASSUME NEW s \in Steps, NEW w \in Whys, Sh4Step(s), Fail4(s, w)
        PROVE  sh4' \in Sh4Type /\ sh4'.over = FALSE /\ failures' \subseteq Fs
    <2>1. failures' \subseteq Fs
      BY <1>2, <1>1, WhileRunning, BenchStepsType, FailureType DEF Fail4
    <2> QED BY <2>1, <1>1, <1>2 DEF Fail4, Sh4Type
  <1>0. failures \subseteq Fs
    BY DEF CiTypeOK
  <1> HIDE DEF Fs
  <1>3. CASE SkipStep
    <2>1. PICK s \in Steps : Sh4Step(s)
      BY <1>3 DEF SkipStep, Steps
    <2> QED BY <2>1, <1>0, <1>1, <1>3, Sh4StepTypes DEF SkipStep, Fs
  <1>4. CASE BuildSh4
    <2>1. "build" \in Steps /\ "broken" \in Whys /\ Sh4Step("build")
      BY <1>4 DEF Steps, ToolSteps, Whys, BuildSh4
    <2>2. sh4' \in Sh4Type /\ sh4'.over = FALSE /\ failures' \subseteq Fs
      BY <2>1, <1>0, <1>1, <1>2, <1>4 DEF BuildSh4
    <2> QED BY <2>1, <2>2, <1>1, <1>4, Sh4StepTypes DEF BuildSh4, Fs
  <1>5. CASE BuildMultilib
    <2>1. "multilib" \in Steps /\ "broken" \in Whys /\ Sh4Step("multilib")
      BY <1>5 DEF Steps, ToolSteps, Whys, BuildMultilib
    <2>2. sh4' \in Sh4Type /\ sh4'.over = FALSE /\ failures' \subseteq Fs
      BY <2>1, <1>0, <1>1, <1>2, <1>5 DEF BuildMultilib
    <2> QED BY <2>1, <2>2, <1>1, <1>5, Sh4StepTypes DEF BuildMultilib, Fs
  <1>6. CASE MeasureSh4
    <2>0. PICK l \in StepLanes \ {"sh-sim"} :
            Sh4Step(l) /\ \E o \in LaneOutcomes(l, TRUE) : MeasuredAs(l, o)
      BY <1>6 DEF MeasureSh4, MeasuredAs
    <2>1. PICK o \in LaneOutcomes(l, TRUE) : Sh4Step(l) /\ MeasuredAs(l, o)
      BY <2>0
    <2>2. l \in Steps
      BY DEF Steps
    <2>3. CASE o.ok
      <3>1. o.val \in Vals /\ o.why \in {"none", "broken"}
        BY <2>3, OutcomeType
      <3>2. sh4' = [sh4 EXCEPT !.pc = @ + 1, !.files = @ \cup {<<l, o.val>>}]
        BY <2>1, <2>3 DEF MeasuredAs
      <3>5. sh4.files \cup {<<l, o.val>>} \in SUBSET (StepLanes \X Vals)
        BY <3>1, FileAdded
      <3>3. sh4' \in Sh4Type /\ sh4'.over = FALSE
        BY <3>2, <3>5, <2>1, <2>2, <1>1 DEF Sh4Type
      <3>4. failures' \subseteq Fs
        <4>1. failures' = failures \/ failures' = failures \cup {<<run, "sh4", l, "broken">>}
          BY <2>1, <2>3, <3>1 DEF MeasuredAs
        <4>2. "broken" \in Whys /\ "sh4" \in Archs \cup {"sh4"} /\ l \in Steps \cup {"job"}
          BY <2>2 DEF Whys
        <4>3. failures \cup {<<run, "sh4", l, "broken">>} \subseteq Fs
          BY <4>2, <1>1, <2>1, <2>2, WhileRunning, FailureType DEF Fs
        <4> QED BY <4>1, <4>3, <1>0
      <3> QED BY <3>3, <3>4, <1>0, <2>1, <2>2, <1>1, <1>6, Sh4StepTypes DEF MeasureSh4, Fs
    <2>4. CASE ~o.ok
      <3>1. o.why \in Whys
        BY <2>4, OutcomeType
      <3>2. Fail4(l, o.why)
        BY <2>1, <2>4 DEF MeasuredAs
      <3> QED BY <3>1, <3>2, <2>1, <2>2, <1>1, <1>2, <1>6, Sh4StepTypes DEF MeasureSh4, Fs
    <2> QED BY <2>3, <2>4
  <1>7. CASE BuildShElf
    <2>1. "sh-elf" \in Steps /\ Sh4Step("sh-elf")
      BY <1>7 DEF Steps, ToolSteps, BuildShElf
    <2>2. sh4' \in Sh4Type /\ sh4'.over = FALSE
      BY <2>1, <1>1, <1>7 DEF BuildShElf, Sh4Type
    <2> QED BY <2>1, <2>2, <1>0, <1>1, <1>7, Sh4StepTypes DEF BuildShElf, Fs
  <1>8. CASE RunShSim
    <2>1. "run-sh-sim" \in Steps /\ Sh4Step("run-sh-sim")
      BY <1>8 DEF Steps, ToolSteps, RunShSim
    <2>2. PICK s \in BOOLEAN : sh4' = [sh4 EXCEPT !.pc = @ + 1, !.sums = s]
      BY <1>8 DEF RunShSim
    <2>3. sh4' \in Sh4Type /\ sh4'.over = FALSE
      BY <2>1, <2>2, <1>1 DEF Sh4Type
    <2> QED BY <2>1, <2>3, <1>0, <1>1, <1>8, Sh4StepTypes DEF RunShSim, Fs
  <1>9. CASE ParseStep
    <2>1. "sh-sim" \in StepLanes /\ "sh-sim" \in Steps /\ Sh4Step("sh-sim")
      BY <1>9 DEF StepLanes, Sh4Lanes, Steps, ParseStep
    <2>2. PICK v \in Vals : sh4' = [sh4 EXCEPT !.pc = @ + 1, !.files = @ \cup {<<"sh-sim", v>>}]
      <3>1. PICK o \in ParseShSim(sh4.sums) :
              sh4' = [sh4 EXCEPT !.pc = @ + 1, !.files = @ \cup {<<"sh-sim", o.val>>}]
        BY <1>9 DEF ParseStep
      <3>2. o.val \in Vals
        BY DEF ParseShSim, Emit, Vals
      <3> QED BY <3>1, <3>2
    <2>4. sh4.files \cup {<<"sh-sim", v>>} \in SUBSET (StepLanes \X Vals)
      BY <2>1, FileAdded
    <2>3. sh4' \in Sh4Type /\ sh4'.over = FALSE
      BY <2>1, <2>2, <2>4, <1>1 DEF Sh4Type
    <2> QED BY <2>1, <2>3, <1>0, <1>1, <1>9, Sh4StepTypes DEF ParseStep, Fs
  <1>10. CASE MergeAll
    <2>1. sh4' \in Sh4Type /\ pub.pc = "wait"
      BY <1>10, WhileRunning DEF MergeAll, Ending, CiTypeOK, Sh4Type
    <2> QED BY <2>1, <1>10 DEF MergeAll, CiTypeOK
  <1>11. CASE UploadSum
    <2>1. sh4' \in Sh4Type /\ art' \in ArtType /\ pub.pc = "wait"
      BY <1>11, WhileRunning DEF UploadSum, Ending, CiTypeOK, Sh4Type, ArtType
    <2> QED BY <2>1, <1>11 DEF UploadSum, CiTypeOK
  <1>12. CASE StageResults
    <2>1. sh4' \in Sh4Type /\ pub.pc = "wait"
      BY <1>12, WhileRunning DEF StageResults, Ending, CiTypeOK, Sh4Type
    <2> QED BY <2>1, <1>12 DEF StageResults, CiTypeOK
  <1>13. CASE StashMetrics
    <2>1. AllMetrics \subseteq StepLanes \X Vals
      BY DEF CiTypeOK, Sh4Type, AllMetrics, MergeMetrics, Absent
    <2>2. {[name |-> Name(f[1], "sh4"), val |-> f[2]] : f \in AllMetrics} \subseteq Metric
      BY <2>1, MetricType
    <2>3. art' \in ArtType
      BY <2>2, <1>13 DEF StashMetrics, CiTypeOK, ArtType
    <2>4. sh4' \in Sh4Type /\ sh4'.over = TRUE /\ ~sh4.over
      BY <1>13 DEF StashMetrics, Ending, CiTypeOK, Sh4Type
    <2> QED BY <2>3, <2>4, <1>13 DEF StashMetrics, CiTypeOK
  <1>14. CASE EndFails
    <2>1. ~sh4.over /\ sh4' \in Sh4Type
      BY <1>14 DEF EndFails, Ending, CiTypeOK, Sh4Type
    <2>2. pub.pc = "wait" /\ run \in 1..MaxRuns /\ "upload" \in Whys
      BY <2>1, WhileRunning DEF Whys
    <2>3. failures' \subseteq Fs
      BY <1>14, <2>2, FailureType DEF EndFails, Fs
    <2> QED BY <1>14, <2>1, <2>2, <2>3 DEF EndFails, CiTypeOK, Fs
  <1> QED
    BY <1>3, <1>4, <1>5, <1>6, <1>7, <1>8, <1>9, <1>10, <1>11, <1>12, <1>13, <1>14
       DEF Sh4Job

(* The builds and bench-multi. *)
LEMMA BenchTypes == ASSUME CiTypeOK, BenchJobs PROVE CiTypeOK'
  <1>1. ASSUME NEW a \in Archs, BuildArch(a) PROVE CiTypeOK'
    <2>1. pub.pc = "wait" /\ run \in 1..MaxRuns
      BY <1>1, WhileRunning DEF BuildArch
    <2>2. builds' \in [Archs -> {"todo", "ok", "failed"}]
      BY <1>1 DEF BuildArch, CiTypeOK
    <2>3. <<run, a>> \in (1..run) \X (Archs \cup {"sh4"})
      BY <2>1
    <2>4. built' \subseteq (1..run) \X (Archs \cup {"sh4"})
      BY <1>1, <2>3 DEF BuildArch, CiTypeOK
    <2> QED BY <1>1, <2>1, <2>2, <2>4 DEF BuildArch, CiTypeOK
  <1>2. CASE BenchStart
    <2>1. PICK h \in SUBSET Archs : bench' = [bench EXCEPT !.pc = 1, !.have = h]
      <3> DEFINE ok == {a \in Archs : builds[a] = "ok"}
      <3>1. PICK h \in IF "download" \in Faults THEN SUBSET ok ELSE {ok} :
              bench' = [bench EXCEPT !.pc = 1, !.have = h]
        BY <1>2 DEF BenchStart
      <3>2. h \in SUBSET Archs
        BY <3>1
      <3> QED BY <3>1, <3>2
    <2>2. 1 \in 0..(Len(BenchSteps) + 1)
      BY BenchStepsType
    <2>3. bench' \in BenchType /\ bench'.over = bench.over
      BY <2>1, <2>2 DEF CiTypeOK, BenchType
    <2> QED BY <1>2, <2>3 DEF BenchStart, CiTypeOK
  <1>3. CASE BenchLane
    <2> DEFINE a == BenchSteps[bench.pc][1]
               l == BenchSteps[bench.pc][2]
               next == [bench EXCEPT !.pc = @ + 1]
    <2>0. bench.pc \in 1..Len(BenchSteps) /\ ~bench.over
      BY <1>3, BenchStepsType DEF BenchLane
    <2>1. /\ a \in Archs /\ l \in StepLanes \ {"sh-sim"} /\ bench \in BenchType
          /\ bench.pc + 1 \in 0..(Len(BenchSteps) + 1)
          /\ pub.pc = "wait" /\ run \in 1..MaxRuns
      BY <2>0, BenchStepsType, WhileRunning DEF CiTypeOK
    <2>2. next \in BenchType /\ next.over = bench.over
      BY <2>1 DEF BenchType
    <2>3. CASE bench' = next /\ failures' = failures
      BY <1>3, <2>2, <2>3 DEF BenchLane, CiTypeOK
    <2>4. ASSUME NEW o \in LaneOutcomes(l, a \in bench.have), o.ok,
                 bench' = [next EXCEPT !.files = @ \cup {<<l, o.val, a>>}],
                 failures' = IF o.why = "none" THEN failures
                             ELSE failures \cup {<<run, a, l, o.why>>}
          PROVE  CiTypeOK'
      <3>1. o.val \in Vals /\ o.why \in {"none", "broken"}
        BY <2>1, <2>4, OutcomeType
      <3>2. bench.files \subseteq StepLanes \X Vals \X Archs
        BY <2>1 DEF BenchType
      <3>3. <<l, o.val, a>> \in StepLanes \X Vals \X Archs
        BY <2>1, <3>1
      <3>4. bench' \in BenchType /\ bench'.over = bench.over
        BY <2>1, <2>4, <3>2, <3>3 DEF BenchType
      <3>5. failures' \subseteq (1..run) \X (Archs \cup {"sh4"}) \X (Steps \cup {"job"}) \X Whys
        <4>1. failures' = failures \/ failures' = failures \cup {<<run, a, l, "broken">>}
          BY <2>4, <3>1
        <4>2. "broken" \in Whys /\ l \in Steps \cup {"job"} /\ a \in Archs \cup {"sh4"}
          BY <2>1 DEF Whys, Steps
        <4>3. failures \cup {<<run, a, l, "broken">>}
                \subseteq (1..run) \X (Archs \cup {"sh4"}) \X (Steps \cup {"job"}) \X Whys
          BY <2>1, <4>2, FailureType
        <4> QED BY <4>1, <4>3 DEF CiTypeOK
      <3> QED BY <1>3, <3>4, <3>5 DEF BenchLane, CiTypeOK
    <2>5. ASSUME NEW o \in LaneOutcomes(l, a \in bench.have), ~o.ok,
                 bench' = LaneLost(next, a),
                 failures' = IF o.why = "none" THEN failures
                             ELSE failures \cup {<<run, a, l, o.why>>}
          PROVE  CiTypeOK'
      <3>1. o.why \in Whys
        BY <2>1, <2>5, OutcomeType
      <3>2. bench.lost \cup {a} \subseteq Archs
        BY <2>1 DEF BenchType
      <3>3. bench' \in BenchType /\ bench'.over = bench.over
        BY <2>1, <2>5, <3>2 DEF BenchType, LaneLost
      <3>4. failures' \subseteq (1..run) \X (Archs \cup {"sh4"}) \X (Steps \cup {"job"}) \X Whys
        BY <2>1, <2>5, <3>1, FailureType DEF Steps, CiTypeOK
      <3> QED BY <1>3, <3>3, <3>4 DEF BenchLane, CiTypeOK
    <2> QED BY <1>3, <2>3, <2>4, <2>5 DEF BenchLane
  <1>4. CASE BenchFinish
    <2>1. bench.files \subseteq StepLanes \X Vals \X Archs
      BY DEF CiTypeOK, BenchType
    <2>2. {[name |-> Name(f[1], f[3]), val |-> f[2]] :
             f \in MergeMetrics(bench.files, {}, TRUE)} \subseteq Metric
      <3>1. \A f \in bench.files : f[1] \in StepLanes /\ f[2] \in Vals /\ f[3] \in Archs
        BY <2>1
      <3>2. MergeMetrics(bench.files, {}, TRUE) = bench.files
        BY MergeTakesAll
      <3> QED BY <3>1, <3>2, MetricType
    <2>3. art' \in ArtType
      BY <2>2, <1>4 DEF BenchFinish, CiTypeOK, ArtType
    <2>4. bench' \in BenchType /\ bench'.over = TRUE /\ ~bench.over
      BY <1>4 DEF BenchFinish, CiTypeOK, BenchType
    <2> QED BY <2>3, <2>4, <1>4 DEF BenchFinish, CiTypeOK
  <1> QED BY <1>1, <1>2, <1>3, <1>4 DEF BenchJobs

(* The point a metric of this run becomes is one of the site. *)
LEMMA PointType ==
    ASSUME CiTypeOK, NEW m \in Metric
    PROVE  PointOf(m) \in Point
  BY DEF PointOf, Point, Metric, CiTypeOK

(* publish. *)
LEMMA PublishTypes == ASSUME CiTypeOK, PublishJob PROVE CiTypeOK'
  <1>1. ASSUME pub.pc # "done", pub' \in PubType, pub'.pc # "wait",
               PubUnchanged, site' \in SiteType, pub.pc # "wait" \/ (sh4.over /\ bench.over)
        PROVE  CiTypeOK'
    BY <1>1 DEF CiTypeOK, PubUnchanged
  <1>2. pub \in PubType /\ site \in SiteType /\ art \in ArtType
    BY DEF CiTypeOK
  <1>3. CASE StartPublish
    <2>1. pub' \in PubType /\ pub'.pc = "fetch"
      BY <1>2, <1>3 DEF StartPublish, PubType, PubSteps
    <2> QED BY <2>1, <1>1, <1>2, <1>3 DEF StartPublish, At
  <1>4. CASE Fetch
    <2>1. PICK m \in {art.sh4, Absent}, mm \in {art.multi, Absent}, d \in BOOLEAN :
            pub' = [pub EXCEPT !.pc = "extract", !.sh4 = m, !.multi = mm, !.sum = d]
      BY <1>2, <1>4 DEF Fetch, ArtType
    <2>2. m \in SUBSET Metric /\ mm \in SUBSET Metric
      BY <1>2 DEF ArtType, Absent
    <2>3. pub' \in PubType /\ pub'.pc = "extract"
      BY <1>2, <2>1, <2>2 DEF PubType, PubSteps
    <2> QED BY <2>3, <1>1, <1>2, <1>4 DEF Fetch, At
  <1>5. CASE Extract
    <2>1. pub' \in PubType /\ pub'.pc = "seed"
      BY <1>2, <1>5 DEF Extract, PubType, PubSteps
    <2> QED BY <2>1, <1>1, <1>2, <1>5 DEF Extract, At
  <1>6. CASE Seed
    <2>1. PICK h \in {site.hist, {}} : pub' = [pub EXCEPT !.pc = "lra", !.hist = h]
      BY <1>6 DEF Seed
    <2>2. h \in SUBSET Point
      BY <1>2 DEF SiteType
    <2>3. pub' \in PubType /\ pub'.pc = "lra"
      BY <1>2, <2>1, <2>2 DEF PubType, PubSteps
    <2> QED BY <2>3, <1>1, <1>2, <1>6 DEF Seed, At
  <1>7. CASE StageLra
    <2>1. pub' \in PubType /\ pub'.pc = "migrate"
      BY <1>2, <1>7 DEF StageLra, PubType, PubSteps
    <2> QED BY <2>1, <1>1, <1>2, <1>7 DEF StageLra, At
  <1>8. CASE Migrate
    <2> DEFINE h == {[p EXCEPT !.name = MaybeRename(@)] : p \in pub.hist}
    <2>1. \A p \in Point : [p EXCEPT !.name = MaybeRename(@)] \in Point
      BY RenameKeepsSeries DEF Point
    <2>2. h \in SUBSET Point
      BY <1>2, <2>1 DEF PubType
    <2>3. pub' = [pub EXCEPT !.pc = "merge", !.hist = h]
      BY <1>8 DEF Migrate
    <2> HIDE DEF h
    <2>4. pub' \in PubType /\ pub'.pc = "merge"
      BY <1>2, <2>2, <2>3 DEF PubType, PubSteps
    <2> QED BY <2>4, <1>1, <1>2, <1>8 DEF Migrate, At
  <1>9. CASE Merge
    <2>1. pub' \in PubType /\ pub'.pc = "store"
      <3>1. pub' = [pub EXCEPT !.pc = "store", !.new = pub.sh4 \cup pub.multi]
        BY <1>9, MergeTakesAll DEF Merge
      <3>2. pub.sh4 \cup pub.multi \in SUBSET Metric
        BY <1>2 DEF PubType
      <3> QED BY <1>2, <3>1, <3>2 DEF PubType, PubSteps
    <2> QED BY <2>1, <1>1, <1>2, <1>9 DEF Merge, At
  <1>10. CASE Store
    <2> DEFINE h == {PointOf(m) : m \in pub.new}
    <2>1. h \in SUBSET Point /\ pub.hist \in SUBSET Point
      BY <1>2, PointType DEF PubType
    <2>2. pub' = [pub EXCEPT !.pc = "badges", !.hist = @ \cup h]
      BY <1>10 DEF Store, PointOf
    <2> HIDE DEF h
    <2>3. pub' \in PubType /\ pub'.pc = "badges"
      BY <1>2, <2>1, <2>2 DEF PubType, PubSteps
    <2> QED BY <2>3, <1>1, <1>2, <1>10 DEF Store, At
  <1>11. CASE Badges
    <2>1. \A l \in BadgeLanes, v \in Vals : Badge(l, v) \in {"failing", "red", "shown"}
      BY DEF Badge
    <2>2. PICK b \in BadgeBoard, pc \in {"deploy", "done"} :
            pub' = [pub EXCEPT !.pc = pc, !.badge = b]
      <3> DEFINE entry(l) == {m \in pub.sh4 : m.name = Name(l, "sh4")}
                 value(l) == (CHOOSE m \in entry(l) : TRUE).val
                 failing == [l \in BadgeLanes |-> "failing"]
                 shown == [l \in BadgeLanes |-> Badge(l, value(l))]
      <3>1. failing \in BadgeBoard /\ pub.badge \in BadgeBoard
        BY <1>2 DEF BadgeBoard, PubType
      <3>2. ASSUME \A l \in BadgeLanes : entry(l) # {} PROVE shown \in BadgeBoard
        <4>1. \A l \in BadgeLanes : (CHOOSE m \in entry(l) : TRUE) \in pub.sh4
          BY <3>2
        <4>2. \A l \in BadgeLanes : value(l) \in Vals
          BY <4>1, <1>2 DEF PubType, Metric
        <4> HIDE DEF value
        <4> QED BY <4>2, <2>1 DEF BadgeBoard
      <3>3. \/ pub' = [pub EXCEPT !.pc = "deploy", !.badge = failing]
            \/ pub' = [pub EXCEPT !.pc = "done"]
            \/ /\ \A l \in BadgeLanes : entry(l) # {}
               /\ pub' = [pub EXCEPT !.pc = "deploy", !.badge = shown]
        BY <1>11 DEF Badges
      <3> HIDE DEF entry, failing, shown
      <3>4. CASE pub' = [pub EXCEPT !.pc = "done"]
        <4>1. pub' = [pub EXCEPT !.pc = "done", !.badge = pub.badge]
          BY <3>4, <1>2 DEF PubType
        <4> QED BY <4>1, <3>1
      <3> QED BY <3>1, <3>2, <3>3, <3>4
    <2>3. pub' \in PubType /\ pub'.pc = pc
      BY <1>2, <2>2 DEF PubType, PubSteps
    <2> QED BY <2>3, <1>1, <1>2, <1>11 DEF Badges, At
  <1>12. CASE Deploy
    <2>1. run \in 0..MaxRuns
      BY DEF CiTypeOK
    <2>2. site' \in SiteType
      BY <1>2, <1>12, <2>1 DEF Deploy, PubType, SiteType
    <2>3. pub' \in PubType /\ pub'.pc = "done"
      BY <1>2, <1>12 DEF Deploy, PubType, PubSteps
    <2> QED BY <2>2, <2>3, <1>1, <1>12 DEF Deploy, At
  <1> QED
    BY <1>3, <1>4, <1>5, <1>6, <1>7, <1>8, <1>9, <1>10, <1>11, <1>12 DEF PublishJob

(* Timeouts and cancellation. *)
LEMMA EndTypes ==
    ASSUME CiTypeOK, Sh4TimesOut \/ BenchTimesOut \/ Cancel
    PROVE  CiTypeOK'
  <1> DEFINE Fs == (1..run) \X (Archs \cup {"sh4"}) \X (Steps \cup {"job"}) \X Whys
  <1>1. CASE Sh4TimesOut
    <2>1. run \in 1..MaxRuns /\ pub.pc = "wait"
      BY <1>1, WhileRunning DEF Sh4TimesOut
    <2>2. failures' \subseteq Fs
      BY <1>1, <2>1, FailureType DEF Sh4TimesOut, Whys
    <2>3. sh4' \in Sh4Type
      BY <1>1 DEF Sh4TimesOut, CiTypeOK, Sh4Type
    <2> QED BY <1>1, <2>1, <2>2, <2>3 DEF Sh4TimesOut, CiTypeOK
  <1>2. CASE BenchTimesOut
    <2>1. run \in 1..MaxRuns /\ pub.pc = "wait"
      BY <1>2, WhileRunning DEF BenchTimesOut
    <2>2. {<<run, a, "job", "timeout">> : a \in Archs} \subseteq Fs
      BY <2>1 DEF Whys
    <2>3. failures' \subseteq Fs
      BY <1>2, <2>2 DEF BenchTimesOut, CiTypeOK
    <2>4. bench' \in BenchType
      BY <1>2 DEF BenchTimesOut, CiTypeOK, BenchType
    <2> QED BY <1>2, <2>1, <2>3, <2>4 DEF BenchTimesOut, CiTypeOK
  <1>3. CASE Cancel
    <2>1. sh4' \in Sh4Type /\ sh4'.over = TRUE
      BY <1>3 DEF Cancel, CiTypeOK, Sh4Type
    <2>2. bench' \in BenchType /\ bench'.over = TRUE
      BY <1>3 DEF Cancel, CiTypeOK, BenchType
    <2>3. pub' \in PubType /\ pub'.pc = "done"
      BY <1>3 DEF Cancel, CiTypeOK, PubType, PubSteps
    <2> QED BY <1>3, <2>1, <2>2, <2>3 DEF Cancel, CiTypeOK
  <1> QED BY <1>1, <1>2, <1>3

LEMMA CiStep == CiTypeOK /\ [Next]_vars => CiTypeOK'
  <1>1. ASSUME CiTypeOK, UNCHANGED vars PROVE CiTypeOK'
    BY <1>1 DEF CiTypeOK, vars, Sh4Type, BenchType
  <1> QED
    BY <1>1, NewRunTypes, Sh4Types, BenchTypes, PublishTypes, EndTypes DEF Next

LEMMA CiTyped == Spec => []CiTypeOK
  BY CiInit, CiStep, PTL DEF Spec

-----------------------------------------------------------------------------
(* The jobs of a run: what leaves an invariant alone *)

(* Failures and builds are added, and only of the architectures of as.      *)
Grows(as) ==
    /\ failures \subseteq failures'
    /\ \A x \in failures' \ failures : x[2] \in as
    /\ built \subseteq built'
    /\ \A x \in built' \ built : x[2] \in as

(* Nothing changes for an architecture nothing was added of.               *)
LEMMA OthersSame ==
    ASSUME NEW as, Grows(as), run' = run, NEW a, a \notin as
    PROVE  /\ Healthy(a)' = Healthy(a)
           /\ FailedOn(a)' = FailedOn(a)
           /\ \A l : Broken(a, l)' = Broken(a, l)
           /\ <<run, a>> \in built' <=> <<run, a>> \in built
  <1>1. <<run, a>> \notin built' \ built
    BY DEF Grows
  <1>2. \A l : <<run, a, l, "broken">> \notin failures' \ failures
    BY DEF Grows
  <1>3. <<run, a>> \in built' <=> <<run, a>> \in built
    BY <1>1 DEF Grows
  <1>4. \A x \in failures' : x[2] = a => x \in failures
    BY DEF Grows
  <1>5. \A l : <<run, a, l, "broken">> \in failures' <=> <<run, a, l, "broken">> \in failures
    BY <1>2 DEF Grows
  <1>6. (\E x \in failures' : x[1] = run /\ x[2] = a)
          <=> (\E x \in failures : x[1] = run /\ x[2] = a)
    BY <1>4 DEF Grows
  <1> QED BY <1>3, <1>5, <1>6 DEF Healthy, FailedOn, Broken

LEMMA FailedStays ==
    ASSUME NEW as, Grows(as), run' = run, NEW a, FailedOn(a)
    PROVE  FailedOn(a)'
  BY DEF Grows, FailedOn

LEMMA BenchKept ==
    ASSUME CiTypeOK, BenchInv, Grows({"sh4"}), UNCHANGED <<run, builds, bench>>
    PROVE  BenchInv'
  <1>1. \A a \in Archs : a \notin {"sh4"}
    BY BenchStepsType
  <1>2. \A a \in Archs : /\ Healthy(a)' = Healthy(a) /\ FailedOn(a)' = FailedOn(a)
                         /\ \A l : Broken(a, l)' = Broken(a, l)
                         /\ <<run, a>> \in built' <=> <<run, a>> \in built
    BY <1>1, OthersSame
  <1>3. bench.lost \subseteq Archs /\ bench.pc \in 0..(Len(BenchSteps) + 1)
    BY DEF CiTypeOK, BenchType
  <1>4. \A i \in 1..(bench.pc - 1) : BenchSteps[i][1] \in Archs
    BY <1>3, BenchStepsType
  <1> USE DEF BenchInv
  <1>5. BenchFiles'
    BY DEF BenchFiles
  <1>6. BenchBroken'
    BY <1>2 DEF BenchBroken
  <1>7. Installs'
    BY <1>2 DEF Installs
  <1>8. LostFailed'
    BY <1>2, <1>3 DEF LostFailed
  <1>9. BenchWhole'
    BY <1>2, <1>4 DEF BenchWhole
  <1> QED BY <1>5, <1>6, <1>7, <1>8, <1>9

LEMMA BenchSame ==
    ASSUME BenchInv, UNCHANGED <<run, builds, built, failures>>,
           bench'.pc = bench.pc, bench'.files = bench.files,
           bench'.have = bench.have, bench'.lost = bench.lost
    PROVE  BenchInv'
  <1> USE DEF BenchInv
  <1>1. BenchFiles'
    BY DEF BenchFiles
  <1>2. \A b, m : Broken(b, m)' = Broken(b, m)
    BY DEF Broken
  <1>3. BenchBroken'
    BY <1>2 DEF BenchBroken
  <1>4. Installs'
    BY DEF Installs
  <1>5. LostFailed'
    BY DEF LostFailed, FailedOn
  <1>6. \A b : Healthy(b)' = Healthy(b)
    BY DEF Healthy
  <1>7. BenchWhole'
    BY <1>6 DEF BenchWhole
  <1> QED BY <1>1, <1>3, <1>4, <1>5, <1>7

LEMMA Sh4Kept ==
    ASSUME CiTypeOK, Sh4Inv, Grows(Archs), UNCHANGED <<run, sh4>>
    PROVE  Sh4Inv'
  <1>1. /\ FailedOn("sh4")' = FailedOn("sh4")
        /\ \A l : Broken("sh4", l)' = Broken("sh4", l)
    BY BenchStepsType, OthersSame
  <1> QED BY <1>1 DEF Sh4Inv, Skipped

LEMMA DiedStays ==
    ASSUME failures \subseteq failures', run' = run, DiedUploading
    PROVE  DiedUploading'
  BY DEF DiedUploading

(* Artifacts while their job runs. *)
LEMMA ArtKeptBySh4 ==
    ASSUME CiTypeOK, ArtInv, Grows({"sh4"}), UNCHANGED <<run, bench, art, pub>>,
           ~sh4.over, ~sh4'.over
    PROVE  ArtInv'
  <1>1. \A a \in Archs : Healthy(a)' = Healthy(a)
    BY BenchStepsType, OthersSame
  <1>2. art.sh4 = Absent
    BY DEF ArtInv
  <1> QED BY <1>1, <1>2 DEF ArtInv, Absent

LEMMA ArtKeptByBench ==
    ASSUME CiTypeOK, ArtInv, Grows(Archs), UNCHANGED <<run, sh4, art, pub>>,
           ~bench.over, ~bench'.over
    PROVE  ArtInv'
  <1>1. Healthy("sh4")' = Healthy("sh4")
    BY BenchStepsType, OthersSame
  <1>2. art.multi = Absent
    BY DEF ArtInv
  <1>3. DiedUploading => DiedUploading'
    BY DiedStays DEF Grows
  <1> QED BY <1>1, <1>2, <1>3 DEF ArtInv, Absent

(* What is not a step of build-and-test leaves its last steps alone. *)
LEMMA EndKept ==
    ASSUME EndInv, sh4'.end = sh4.end, sh4'.pc = sh4.pc, sh4'.files = sh4.files,
           art'.sum = art.sum
    PROVE  EndInv'
  BY DEF EndInv

-----------------------------------------------------------------------------
(* The jobs of a run: every step keeps JobsInv *)

LEMMA JobsInit == Init => JobsInv
  <1> SUFFICES ASSUME Init PROVE JobsInv
    OBVIOUS
  <1>1. sh4.pc = 1 /\ sh4.files = {} /\ sh4.failed = "none" /\ sh4.end = "merge"
    BY DEF Init, NewSh4
  <1>2. bench.pc = 0 /\ bench.files = {} /\ bench.lost = {}
    BY DEF Init, NewBench
  <1>3. art.sh4 = {} /\ art.multi = {} /\ art.sum = FALSE /\ pub.pc = "done"
    BY DEF Init, NewArt, NewPub, Absent
  <1>4. failures = {} /\ built = {}
    BY DEF Init
  <1>5. 1..(1 - 1) = {} /\ 1..(0 - 1) = {}
    OBVIOUS
  <1>6. Sh4Inv
    BY <1>1, <1>4, <1>5 DEF Sh4Inv, Broken, Skipped
  <1>7. BenchInv
    BY <1>2, <1>4, <1>5 DEF BenchInv, Broken,
       BenchFiles, BenchBroken, Installs, LostFailed, BenchWhole
  <1>8. ArtInv
    BY <1>3 DEF ArtInv, Absent
  <1>9. EndInv
    BY <1>1, <1>3 DEF EndInv
  <1> QED BY <1>6, <1>7, <1>8, <1>9 DEF JobsInv

LEMMA NewRunJobs == ASSUME CiTypeOK, NewRun PROVE JobsInv'
  <1>1. /\ sh4'.pc = 1 /\ sh4'.files = {} /\ sh4'.failed = "none" /\ ~sh4'.over
        /\ sh4'.end = "merge"
    BY DEF NewRun, NewSh4
  <1>2. bench'.pc = 0 /\ bench'.files = {} /\ bench'.lost = {} /\ ~bench'.over
    BY DEF NewRun, NewBench
  <1>3. art'.sh4 = {} /\ art'.multi = {} /\ art'.sum = FALSE
    BY DEF NewRun, NewArt, Absent
  <1>4. run' \notin 1..run /\ failures' = failures /\ built' = built
    BY CiFullAssumption DEF NewRun, CiTypeOK
  <1>5. 1..(1 - 1) = {} /\ 1..(0 - 1) = {}
    OBVIOUS
  <1>6. /\ \A a, l : <<run', a, l, "broken">> \notin failures'
        /\ \A a : <<run', a>> \notin built'
    BY <1>4 DEF CiTypeOK
  <1>7. Sh4Inv'
    BY <1>1, <1>5, <1>6 DEF Sh4Inv, Broken, Skipped
  <1>8. BenchInv'
    BY <1>2, <1>5, <1>6 DEF BenchInv, Broken,
       BenchFiles, BenchBroken, Installs, LostFailed, BenchWhole
  <1>9. ArtInv'
    BY <1>1, <1>2, <1>3 DEF ArtInv, Absent
  <1>10. EndInv'
    BY <1>1, <1>3 DEF EndInv
  <1> QED BY <1>7, <1>8, <1>9, <1>10 DEF JobsInv

(* The step taken is not among those already taken. *)
LEMMA Sh4StepOnce ==
    ASSUME CiTypeOK, NEW s, Sh4Step(s)
    PROVE  /\ sh4.pc \in 1..Len(Sh4Steps) /\ Sh4Steps[sh4.pc] = s
           /\ \A i \in 1..(sh4.pc - 1) : Sh4Steps[i] # s
           /\ 1..((sh4.pc + 1) - 1) = 1..(sh4.pc - 1) \cup {sh4.pc}
  <1>1. sh4.pc \in 1..Len(Sh4Steps) /\ Sh4Steps[sh4.pc] = s
    BY Sh4StepsType DEF CiTypeOK, Sh4Type, Sh4Step
  <1>2. \A i \in 1..(sh4.pc - 1) : i \in 1..Len(Sh4Steps) /\ i # sh4.pc
    BY <1>1, Sh4StepsType
  <1>3. \A i \in 1..(sh4.pc - 1) : Sh4Steps[i] # s
    BY <1>1, <1>2, Sh4StepsType, CiFullAssumption DEF NoRepeats
  <1>4. 1..((sh4.pc + 1) - 1) = 1..(sh4.pc - 1) \cup {sh4.pc}
    BY <1>1, Sh4StepsType
  <1> QED BY <1>1, <1>3, <1>4

(* A step that writes no metric file and does not fail. *)
LEMMA Sh4PassStep ==
    ASSUME CiTypeOK, Sh4Inv, NEW s, Sh4Step(s), s \notin StepLanes \/ Skipped,
           sh4'.pc = sh4.pc + 1, sh4'.files = sh4.files, sh4'.failed = sh4.failed,
           failures' = failures, run' = run
    PROVE  Sh4Inv'
  <1> DEFINE before == 1..(sh4.pc - 1)
  <1>1. Sh4Steps[sh4.pc] = s /\ 1..(sh4'.pc - 1) = before \cup {sh4.pc}
    BY Sh4StepOnce
  <1> HIDE DEF before
  <1> QED BY <1>1 DEF Sh4Inv, Broken, FailedOn, Skipped, before

(* A lane that writes its file, though its compile broke where that is not  *)
(* a failure of the lane.                                                   *)
LEMMA Sh4FileStep ==
    ASSUME CiTypeOK, Sh4Inv, NEW s \in StepLanes, Sh4Step(s), NEW v,
           sh4'.pc = sh4.pc + 1, sh4'.files = sh4.files \cup {<<s, v>>},
           sh4'.failed = sh4.failed, run' = run, built' = built,
           \/ failures' = failures
           \/ s \notin HardLanes /\ failures' = failures \cup {<<run, "sh4", s, "broken">>}
    PROVE  Sh4Inv' /\ Grows({"sh4"})
  <1> DEFINE before == 1..(sh4.pc - 1)
  <1>1. Sh4Steps[sh4.pc] = s /\ 1..(sh4'.pc - 1) = before \cup {sh4.pc}
    BY Sh4StepOnce
  <1>2. s \in HardLanes => ~Broken("sh4", s)
    BY Sh4StepOnce DEF Sh4Inv
  <1> DEFINE x == <<run, "sh4", s, "broken">>
  <1>7. /\ failures \subseteq failures' /\ x[2] = "sh4"
        /\ \A y \in failures' \ failures : y = x /\ s \notin HardLanes
        /\ \A l : <<run, "sh4", l, "broken">> = x => l = s
    OBVIOUS
  <1> HIDE DEF x
  <1>8. \A l \in HardLanes : Broken("sh4", l)' => Broken("sh4", l)
    <2> SUFFICES ASSUME NEW l \in HardLanes, <<run, "sh4", l, "broken">> \in failures'
                 PROVE  <<run, "sh4", l, "broken">> \in failures
      BY DEF Broken
    <2> QED BY <1>7
  <1>9. Grows({"sh4"})
    BY <1>7 DEF Grows
  <1> HIDE DEF before
  <1>3. \A f \in sh4'.files : \E i \in 1..(sh4'.pc - 1) : Sh4Steps[i] = f[1]
    BY <1>1 DEF Sh4Inv, before
  <1>4. \A l \in HardLanes : Broken("sh4", l)' =>
          /\ \E i \in 1..(sh4'.pc - 1) : Sh4Steps[i] = l
          /\ \A f \in sh4'.files : f[1] # l
    BY <1>1, <1>2, <1>8 DEF Sh4Inv, before
  <1>5. Skipped' => FailedOn("sh4")'
    BY <1>7 DEF Sh4Inv, Skipped, FailedOn
  <1>6. ~Skipped' => \A i \in 1..(sh4'.pc - 1) : Sh4Steps[i] \in StepLanes =>
                       \E f \in sh4'.files : f[1] = Sh4Steps[i]
    <2> SUFFICES ASSUME ~Skipped, NEW i \in before \cup {sh4.pc}, Sh4Steps[i] \in StepLanes
                 PROVE  \E f \in sh4'.files : f[1] = Sh4Steps[i]
      BY <1>1 DEF Skipped
    <2>1. CASE i \in before
      BY <2>1 DEF Sh4Inv, before
    <2>2. CASE i = sh4.pc
      <3>1. <<s, v>> \in sh4'.files /\ <<s, v>>[1] = Sh4Steps[i]
        BY <1>1, <2>2
      <3> QED BY <3>1
    <2> QED BY <2>1, <2>2
  <1> QED BY <1>3, <1>4, <1>5, <1>6, <1>9 DEF Sh4Inv

(* A step that fails. *)
LEMMA Sh4FailStep ==
    ASSUME CiTypeOK, Sh4Inv, NEW s \in Steps, Sh4Step(s), NEW w, Fail4(s, w),
           UNCHANGED <<run, built>>
    PROVE  Sh4Inv' /\ Grows({"sh4"})
  <1> DEFINE before == 1..(sh4.pc - 1)
  <1>0. sh4 \in Sh4Type
    BY DEF CiTypeOK
  <1>1. Sh4Steps[sh4.pc] = s /\ 1..((sh4.pc + 1) - 1) = before \cup {sh4.pc}
    BY Sh4StepOnce
  <1>2. \A f \in sh4.files : f[1] # s
    BY Sh4StepOnce DEF Sh4Inv
  <1>3. /\ sh4'.pc = sh4.pc + 1 /\ sh4'.files = sh4.files /\ sh4'.failed = s
        /\ failures' = failures \cup {<<run, "sh4", s, w>>}
    BY <1>0 DEF Fail4, Sh4Type
  <1> HIDE DEF before
  <1>4. \A f \in sh4'.files : \E i \in 1..(sh4'.pc - 1) : Sh4Steps[i] = f[1]
    BY <1>1, <1>3 DEF Sh4Inv, before
  <1>5. \A l \in HardLanes : Broken("sh4", l)' =>
          /\ \E i \in 1..(sh4'.pc - 1) : Sh4Steps[i] = l
          /\ \A f \in sh4'.files : f[1] # l
    BY <1>1, <1>2, <1>3 DEF Sh4Inv, Broken, before
  <1> DEFINE x == <<run, "sh4", s, w>>
  <1>8. x[1] = run /\ x[2] = "sh4" /\ x \in failures' /\ failures' = failures \cup {x}
    BY <1>3
  <1> HIDE DEF x
  <1>9. FailedOn("sh4")'
    BY <1>8 DEF FailedOn
  <1>6. Skipped'
    BY <1>3 DEF Skipped, Steps, StepLanes, ToolSteps, SuffixLanes, Sh4Lanes
  <1>7. Grows({"sh4"})
    <2>2. \A y \in failures' \ failures : y[2] \in {"sh4"}
      BY <1>8
    <2> QED BY <1>8, <2>2 DEF Grows
  <1> QED BY <1>4, <1>5, <1>6, <1>7, <1>9 DEF Sh4Inv

(* Nothing is added. *)
LEMMA GrowsNot ==
    ASSUME NEW as, UNCHANGED <<failures, built>> PROVE Grows(as)
  BY DEF Grows

(* The steps before the last ones do not touch these. *)
LaneStep == \/ SkipStep \/ BuildSh4 \/ BuildMultilib \/ MeasureSh4
            \/ BuildShElf \/ RunShSim \/ ParseStep

LEMMA LaneKeepsEnd == ASSUME CiTypeOK, EndInv, LaneStep PROVE EndInv'
  <1>0. sh4 \in Sh4Type
    BY DEF CiTypeOK
  <1>1. (\E s : Sh4Step(s)) /\ art' = art
    BY DEF LaneStep, SkipStep, BuildSh4, BuildMultilib, MeasureSh4, BuildShElf, RunShSim,
           ParseStep
  <1>2. sh4.pc \in Nat /\ sh4.pc # Len(Sh4Steps) + 1
    BY <1>0, <1>1, Sh4StepsType DEF Sh4Step, Sh4Type
  <1>3. sh4.end = "merge" /\ ~art.sum
    BY <1>2 DEF EndInv
  <1>4. sh4'.end = sh4.end
    <2>1. ASSUME NEW s, NEW w, Fail4(s, w) PROVE sh4'.end = sh4.end
      BY <1>0, <2>1 DEF Fail4, Sh4Type
    <2>2. CASE SkipStep
      BY <1>0, <2>2 DEF SkipStep, Sh4Type
    <2>3. CASE BuildSh4 \/ BuildMultilib
      BY <1>0, <2>1, <2>3 DEF BuildSh4, BuildMultilib, Sh4Type
    <2>4. CASE MeasureSh4
      <3>1. \/ \E l, o : sh4' = [sh4 EXCEPT !.pc = @ + 1, !.files = @ \cup {<<l, o.val>>}]
            \/ \E l, o : Fail4(l, o.why)
        BY <2>4 DEF MeasureSh4
      <3> QED BY <1>0, <2>1, <3>1 DEF Sh4Type
    <2>5. CASE BuildShElf \/ RunShSim \/ ParseStep
      <3>1. \/ \E e : sh4' = [sh4 EXCEPT !.pc = @ + 1, !.elf = e]
            \/ \E e : sh4' = [sh4 EXCEPT !.pc = @ + 1, !.sums = e]
            \/ \E e : sh4' = [sh4 EXCEPT !.pc = @ + 1, !.files = @ \cup {<<"sh-sim", e.val>>}]
        BY <2>5 DEF BuildShElf, RunShSim, ParseStep
      <3> QED BY <1>0, <3>1 DEF Sh4Type
    <2> QED BY <2>2, <2>3, <2>4, <2>5 DEF LaneStep
  <1> QED BY <1>1, <1>3, <1>4 DEF EndInv

(* The metrics artifact, made of the files of every lane. *)
LEMMA ArtOfFiles ==
    ASSUME NEW files, NEW ms, ms = {[name |-> Name(f[1], "sh4"), val |-> f[2]] : f \in files},
           \A l \in LanesOf(Sh4Steps) : \E f \in files : f[1] = l
    PROVE  /\ \A m \in ms : \E f \in files : m = [name |-> Name(f[1], "sh4"), val |-> f[2]]
           /\ \A l \in LanesOf(Sh4Steps) : \E m \in ms : m.name = Name(l, "sh4")
           /\ ms # Absent
  <1>1. \A m \in ms : \E f \in files : m = [name |-> Name(f[1], "sh4"), val |-> f[2]]
    OBVIOUS
  <1>2. ASSUME NEW l \in LanesOf(Sh4Steps)
        PROVE  \E m \in ms : m.name = Name(l, "sh4")
    <2>1. PICK f \in files : f[1] = l
      OBVIOUS
    <2>2. [name |-> Name(f[1], "sh4"), val |-> f[2]] \in ms
      OBVIOUS
    <2> QED BY <2>1, <2>2
  <1>3. "dejagnu" \in LanesOf(Sh4Steps)
    BY CiFullAssumption DEF LanesOf, StepLanes, Sh4Lanes
  <1> QED BY <1>1, <1>2, <1>3 DEF Absent

(* The last steps of build-and-test. *)
LEMMA EndingJobs ==
    ASSUME CiTypeOK, JobsInv,
           MergeAll \/ UploadSum \/ StageResults \/ StashMetrics \/ EndFails
    PROVE  JobsInv'
  <1> USE DEF JobsInv
  <1>0. sh4 \in Sh4Type /\ art \in ArtType
    BY DEF CiTypeOK
  <1>1. /\ ~sh4.over /\ sh4.pc = Len(Sh4Steps) + 1
        /\ sh4'.pc = sh4.pc /\ sh4'.files = sh4.files
        /\ UNCHANGED <<run, builds, bench, pub, built>>
    <2>1. /\ ~sh4.over /\ sh4.pc > Len(Sh4Steps)
          /\ UNCHANGED <<run, builds, bench, pub, built>>
      BY DEF MergeAll, UploadSum, StageResults, StashMetrics, EndFails, Ending
    <2>2. sh4.pc = Len(Sh4Steps) + 1
      BY <1>0, <2>1, Sh4StepsType DEF Sh4Type
    <2>3. \/ \E e : sh4' = [sh4 EXCEPT !.end = e]
          \/ sh4' = [sh4 EXCEPT !.over = TRUE]
          \/ sh4' = [sh4 EXCEPT !.over = TRUE, !.failed = "upload"]
      BY DEF MergeAll, UploadSum, StageResults, StashMetrics, EndFails
    <2>4. sh4'.pc = sh4.pc /\ sh4'.files = sh4.files
      BY <1>0, <2>3 DEF Sh4Type
    <2> QED BY <2>1, <2>2, <2>4
  <1>2. art.sh4 = Absent
    BY <1>1 DEF ArtInv
  <1>3. ASSUME UNCHANGED failures
        PROVE  /\ sh4'.failed = sh4.failed => Sh4Inv'
               /\ BenchInv' /\ \A a : Healthy(a)' = Healthy(a)
    <2>1. sh4'.failed = sh4.failed => Sh4Inv'
      BY <1>1, <1>3 DEF Sh4Inv, Broken, FailedOn, Skipped
    <2>2. BenchInv'
      BY <1>1, <1>3, BenchKept, GrowsNot
    <2>3. \A a : Healthy(a)' = Healthy(a)
      BY <1>1, <1>3 DEF Healthy
    <2> QED BY <2>1, <2>2, <2>3
  <1>4. CASE MergeAll
    <2>1. sh4.end = "merge" /\ ~art.sum /\ art' = art /\ failures' = failures
      BY <1>4 DEF MergeAll, Ending, EndInv
    <2>2. sh4'.failed = sh4.failed
      BY <1>0, <1>4 DEF MergeAll, Sh4Type
    <2>3. CASE Skipped \/ AllMetrics = Absent
      <3>1. sh4'.over = TRUE /\ sh4'.end = sh4.end
        BY <1>0, <1>4, <2>3 DEF MergeAll, Sh4Type
      <3>2. EndInv'
        BY <1>1, <2>1, <3>1, EndKept
      <3>3. Skipped
        <4> SUFFICES ASSUME ~Skipped, AllMetrics = Absent PROVE FALSE
          BY <2>3
        <4>1. \A i \in 1..Len(Sh4Steps) : i \in 1..(sh4.pc - 1)
          BY <1>1, Sh4StepsType
        <4>2. \A l \in LanesOf(Sh4Steps) : \E f \in sh4.files : f[1] = l
          BY <4>1, Sh4StepsType DEF LanesOf, Sh4Inv
        <4>3. AllMetrics = sh4.files
          BY <4>2 DEF AllMetrics, MergeMetrics
        <4>4. "dejagnu" \in LanesOf(Sh4Steps)
          BY CiFullAssumption DEF LanesOf, StepLanes, Sh4Lanes
        <4> QED BY <4>2, <4>3, <4>4 DEF Absent
      <3>4. ~Healthy("sh4")
        BY <3>3 DEF Sh4Inv, Healthy, FailedOn
      <3>5. ArtInv'
        BY <1>1, <1>2, <1>3, <2>1, <3>1, <3>4 DEF ArtInv
      <3> QED BY <1>3, <2>1, <2>2, <3>2, <3>5
    <2>4. CASE ~(Skipped \/ AllMetrics = Absent)
      <3>1. sh4'.end = "upload" /\ ~sh4'.over
        BY <1>0, <1>1, <1>4, <2>4 DEF MergeAll, Sh4Type
      <3>2. \A l \in LanesOf(Sh4Steps) : \E f \in sh4.files : f[1] = l
        BY <2>4 DEF AllMetrics, MergeMetrics
      <3>3. EndInv'
        BY <1>1, <3>1, <3>2 DEF EndInv
      <3>4. ArtInv'
        BY <1>1, <1>2, <2>1, <3>1, ArtKeptBySh4, GrowsNot
      <3> QED BY <1>3, <2>1, <2>2, <3>3, <3>4
    <2> QED BY <2>3, <2>4
  <1>5. CASE UploadSum
    <2>1. /\ sh4.end = "upload" /\ failures' = failures
          /\ sh4'.end = "stage" /\ ~sh4'.over /\ sh4'.failed = sh4.failed
          /\ art'.sum = TRUE /\ art'.sh4 = art.sh4 /\ art'.multi = art.multi
      BY <1>0, <1>1, <1>5 DEF UploadSum, Ending, Sh4Type, ArtType
    <2>2. EndInv'
      BY <1>1, <2>1 DEF EndInv
    <2>3. ArtInv'
      BY <1>1, <1>2, <1>3, <2>1 DEF ArtInv
    <2> QED BY <1>3, <2>1, <2>2, <2>3
  <1>6. CASE StageResults
    <2>1. /\ sh4.end = "stage" /\ failures' = failures /\ art' = art
          /\ sh4'.end = "stash" /\ ~sh4'.over /\ sh4'.failed = sh4.failed
      BY <1>0, <1>1, <1>6 DEF StageResults, Ending, Sh4Type
    <2>2. EndInv'
      BY <1>1, <2>1 DEF EndInv
    <2>3. ArtInv'
      BY <1>1, <2>1, ArtKeptBySh4, GrowsNot
    <2> QED BY <1>3, <2>1, <2>2, <2>3
  <1>7. CASE StashMetrics
    <2> DEFINE ms == {[name |-> Name(f[1], "sh4"), val |-> f[2]] : f \in AllMetrics}
    <2>1. /\ sh4.end = "stash" /\ failures' = failures
          /\ sh4'.end = "stash" /\ sh4'.over = TRUE /\ sh4'.failed = sh4.failed
      BY <1>0, <1>7 DEF StashMetrics, Ending, Sh4Type
    <2>2. art' = [art EXCEPT !.sh4 = ms]
      BY <1>7 DEF StashMetrics
    <2>3. \A l \in LanesOf(Sh4Steps) : \E f \in sh4.files : f[1] = l
      BY <2>1 DEF EndInv
    <2>4. AllMetrics = sh4.files
      BY <2>3 DEF AllMetrics, MergeMetrics
    <2>5. ms = {[name |-> Name(f[1], "sh4"), val |-> f[2]] : f \in sh4.files}
      BY <2>4
    <2> HIDE DEF ms
    <2>6. /\ art'.sh4 = ms /\ art'.sum = art.sum /\ art'.multi = art.multi /\ art.sum
      BY <1>0, <2>1, <2>2 DEF ArtType, EndInv
    <2>7. EndInv'
      BY <1>1, <2>1, <2>6, EndKept
    <2>8. /\ \A m \in ms : \E f \in sh4.files : m = [name |-> Name(f[1], "sh4"), val |-> f[2]]
          /\ \A l \in LanesOf(Sh4Steps) : \E m \in ms : m.name = Name(l, "sh4")
          /\ ms # Absent
      BY <2>3, <2>5, ArtOfFiles
    <2>9. ArtInv'
      BY <1>1, <1>3, <2>1, <2>6, <2>8 DEF ArtInv
    <2> QED BY <1>3, <2>1, <2>7, <2>9
  <1>8. CASE EndFails
    <2> DEFINE x == <<run, "sh4", "job", "upload">>
    <2>1. /\ sh4'.over = TRUE /\ sh4'.failed = "upload" /\ sh4'.end = sh4.end
          /\ art' = art
      BY <1>0, <1>8 DEF EndFails, Sh4Type
    <2>2. failures' = failures \cup {x} /\ x[1] = run /\ x[2] = "sh4"
          /\ \A b, m : x # <<run, b, m, "broken">>
      BY <1>8 DEF EndFails
    <2>3. DiedUploading'
      BY <1>1, <1>8 DEF EndFails, DiedUploading
    <2> HIDE DEF x
    <2>4. Grows({"sh4"})
      BY <1>1, <2>2 DEF Grows
    <2>5. BenchInv'
      BY <1>1, <2>4, BenchKept
    <2>6. FailedOn("sh4")' /\ ~Healthy("sh4")'
      BY <1>1, <2>2 DEF FailedOn, Healthy
    <2>7. Sh4Inv'
      <3>1. \A b, m : Broken(b, m)' = Broken(b, m)
        BY <1>1, <2>2 DEF Broken
      <3> QED BY <1>1, <2>1, <2>6, <3>1 DEF Sh4Inv, Skipped
    <2>8. EndInv'
      BY <1>1, <2>1, EndKept
    <2>9. \A a \in Archs : Healthy(a)' = Healthy(a)
      BY <1>1, <2>4, BenchStepsType, OthersSame
    <2>10. ArtInv'
      BY <1>1, <1>2, <2>1, <2>3, <2>6, <2>9 DEF ArtInv
    <2> QED BY <2>5, <2>7, <2>8, <2>10
  <1> QED BY <1>4, <1>5, <1>6, <1>7, <1>8

LEMMA Sh4Jobs == ASSUME CiTypeOK, JobsInv, Sh4Job PROVE JobsInv'
  <1> USE DEF JobsInv
  <1>0. sh4 \in Sh4Type /\ "sh-sim" \in StepLanes
        /\ ToolSteps \cap StepLanes = {} /\ ToolSteps \subseteq Steps
        /\ {"build", "multilib", "sh-elf", "run-sh-sim"} = ToolSteps
    BY Sh4StepsType DEF CiTypeOK, StepLanes, Sh4Lanes, Steps, ToolSteps
  <1>10. LaneStep => EndInv'
    BY LaneKeepsEnd
  <1>1. ASSUME Sh4Inv', Grows({"sh4"}), ~sh4.over, ~sh4'.over, LaneStep,
               UNCHANGED <<run, builds, bench, art, pub>>
        PROVE  JobsInv'
    BY <1>1, <1>10, BenchKept, ArtKeptBySh4
  <1>2. CASE SkipStep
    <2>1. PICK s : Sh4Step(s)
      BY <1>2 DEF SkipStep
    <2>2. sh4'.pc = sh4.pc + 1 /\ sh4'.files = sh4.files
          /\ sh4'.failed = sh4.failed /\ sh4'.over = sh4.over /\ ~sh4.over
      BY <1>0, <1>2, <2>1 DEF SkipStep, Sh4Type, Sh4Step
    <2>3. Sh4Inv' /\ Grows({"sh4"})
      BY <1>2, <2>1, <2>2, Sh4PassStep, GrowsNot DEF SkipStep
    <2> QED BY <1>1, <1>2, <2>2, <2>3 DEF SkipStep, LaneStep
  <1>3. CASE BuildSh4
    <2>1. "build" \in Steps /\ "build" \notin StepLanes /\ Sh4Step("build") /\ ~sh4.over
      BY <1>0, <1>3 DEF BuildSh4, Sh4Step
    <2>2. CASE Fail4("build", "broken") /\ UNCHANGED built
      <3>1. Sh4Inv' /\ Grows({"sh4"})
        BY <1>3, <2>1, <2>2, Sh4FailStep DEF BuildSh4
      <3>2. ~sh4'.over
        BY <1>0, <2>1, <2>2 DEF Fail4, Sh4Type
      <3> QED BY <1>1, <1>3, <2>1, <3>1, <3>2 DEF BuildSh4, LaneStep
    <2>3. CASE /\ sh4' = [sh4 EXCEPT !.pc = @ + 1]
               /\ built' = built \cup {<<run, "sh4">>} /\ UNCHANGED failures
      <3>1. sh4'.pc = sh4.pc + 1 /\ sh4'.files = sh4.files
            /\ sh4'.failed = sh4.failed /\ sh4'.over = sh4.over
        BY <1>0, <2>3 DEF Sh4Type
      <3>2. Sh4Inv'
        BY <1>3, <2>1, <2>3, <3>1, Sh4PassStep DEF BuildSh4
      <3>3. Grows({"sh4"})
        <4>1. \A x \in built' \ built : x = <<run, "sh4">>
          BY <2>3
        <4> QED BY <2>3, <4>1 DEF Grows
      <3> QED BY <1>1, <1>3, <2>1, <3>1, <3>2, <3>3 DEF BuildSh4, LaneStep
    <2> QED BY <1>3, <2>2, <2>3 DEF BuildSh4
  <1>4. CASE BuildMultilib
    <2>1. "multilib" \in Steps /\ "multilib" \notin StepLanes
          /\ Sh4Step("multilib") /\ ~sh4.over
      BY <1>0, <1>4 DEF BuildMultilib, Sh4Step
    <2>2. CASE Fail4("multilib", "broken")
      <3>1. Sh4Inv' /\ Grows({"sh4"})
        BY <1>4, <2>1, <2>2, Sh4FailStep DEF BuildMultilib
      <3>2. ~sh4'.over
        BY <1>0, <2>1, <2>2 DEF Fail4, Sh4Type
      <3> QED BY <1>1, <1>4, <2>1, <3>1, <3>2 DEF BuildMultilib, LaneStep
    <2>3. CASE sh4' = [sh4 EXCEPT !.pc = @ + 1] /\ UNCHANGED failures
      <3>1. sh4'.pc = sh4.pc + 1 /\ sh4'.files = sh4.files
            /\ sh4'.failed = sh4.failed /\ sh4'.over = sh4.over
        BY <1>0, <2>3 DEF Sh4Type
      <3>2. Sh4Inv' /\ Grows({"sh4"})
        BY <1>4, <2>1, <2>3, <3>1, Sh4PassStep, GrowsNot DEF BuildMultilib
      <3> QED BY <1>1, <1>4, <2>1, <3>1, <3>2 DEF BuildMultilib, LaneStep
    <2> QED BY <1>4, <2>2, <2>3 DEF BuildMultilib
  <1>5. CASE MeasureSh4
    <2>1. PICK l \in StepLanes \ {"sh-sim"} :
            Sh4Step(l) /\ \E o \in LaneOutcomes(l, TRUE) : MeasuredAs(l, o)
      BY <1>5 DEF MeasureSh4, MeasuredAs
    <2>2. PICK o \in LaneOutcomes(l, TRUE) : MeasuredAs(l, o)
      BY <2>1
    <2>3. l \in StepLanes /\ l \in Steps /\ ~sh4.over
      BY <2>1 DEF Steps, Sh4Step
    <2>4. CASE o.ok
      <3>1. o.why = "none" \/ (o.why = "broken" /\ l \notin HardLanes)
        BY <2>4, OutcomeType
      <3>2. /\ sh4' = [sh4 EXCEPT !.pc = @ + 1, !.files = @ \cup {<<l, o.val>>}]
            /\ \/ failures' = failures
               \/ /\ l \notin HardLanes
                  /\ failures' = failures \cup {<<run, "sh4", l, "broken">>}
        BY <2>2, <2>4, <3>1 DEF MeasuredAs
      <3>3. sh4'.pc = sh4.pc + 1 /\ sh4'.files = sh4.files \cup {<<l, o.val>>}
            /\ sh4'.failed = sh4.failed /\ sh4'.over = sh4.over
        BY <1>0, <3>2 DEF Sh4Type
      <3>4. Sh4Inv' /\ Grows({"sh4"})
        BY <1>5, <2>1, <2>3, <3>2, <3>3, Sh4FileStep DEF MeasureSh4
      <3> QED BY <1>1, <1>5, <2>3, <3>3, <3>4 DEF MeasureSh4, LaneStep
    <2>5. CASE ~o.ok
      <3>1. Fail4(l, o.why)
        BY <2>2, <2>5 DEF MeasuredAs
      <3>2. Sh4Inv' /\ Grows({"sh4"})
        BY <1>5, <2>1, <2>3, <3>1, Sh4FailStep DEF MeasureSh4
      <3>3. ~sh4'.over
        BY <1>0, <2>3, <3>1 DEF Fail4, Sh4Type
      <3> QED BY <1>1, <1>5, <2>3, <3>2, <3>3 DEF MeasureSh4, LaneStep
    <2> QED BY <2>4, <2>5
  <1>6. CASE BuildShElf
    <2>1. "sh-elf" \notin StepLanes /\ Sh4Step("sh-elf") /\ ~sh4.over
      BY <1>0, <1>6 DEF BuildShElf, Sh4Step
    <2>2. sh4'.pc = sh4.pc + 1 /\ sh4'.files = sh4.files
          /\ sh4'.failed = sh4.failed /\ sh4'.over = sh4.over
      BY <1>0, <1>6 DEF BuildShElf, Sh4Type
    <2>3. Sh4Inv' /\ Grows({"sh4"})
      BY <1>6, <2>1, <2>2, Sh4PassStep, GrowsNot DEF BuildShElf
    <2> QED BY <1>1, <1>6, <2>1, <2>2, <2>3 DEF BuildShElf, LaneStep
  <1>7. CASE RunShSim
    <2>1. "run-sh-sim" \notin StepLanes /\ Sh4Step("run-sh-sim") /\ ~sh4.over
      BY <1>0, <1>7 DEF RunShSim, Sh4Step
    <2>2. sh4'.pc = sh4.pc + 1 /\ sh4'.files = sh4.files
          /\ sh4'.failed = sh4.failed /\ sh4'.over = sh4.over
      <3>1. PICK b : sh4' = [sh4 EXCEPT !.pc = @ + 1, !.sums = b]
        BY <1>7 DEF RunShSim
      <3> QED BY <1>0, <3>1 DEF Sh4Type
    <2>3. Sh4Inv' /\ Grows({"sh4"})
      BY <1>7, <2>1, <2>2, Sh4PassStep, GrowsNot DEF RunShSim
    <2> QED BY <1>1, <1>7, <2>1, <2>2, <2>3 DEF RunShSim, LaneStep
  <1>8. CASE ParseStep
    <2>1. Sh4Step("sh-sim") /\ ~sh4.over
      BY <1>8 DEF ParseStep, Sh4Step
    <2>2. PICK v : /\ sh4'.pc = sh4.pc + 1 /\ sh4'.files = sh4.files \cup {<<"sh-sim", v>>}
                   /\ sh4'.failed = sh4.failed /\ sh4'.over = sh4.over
      <3>1. PICK o : sh4' = [sh4 EXCEPT !.pc = @ + 1, !.files = @ \cup {<<"sh-sim", o.val>>}]
        BY <1>8 DEF ParseStep
      <3> QED BY <1>0, <3>1 DEF Sh4Type
    <2>3. Sh4Inv' /\ Grows({"sh4"})
      BY <1>0, <1>8, <2>1, <2>2, Sh4FileStep DEF ParseStep
    <2> QED BY <1>1, <1>8, <2>1, <2>2, <2>3 DEF ParseStep, LaneStep
  <1>9. CASE MergeAll \/ UploadSum \/ StageResults \/ StashMetrics \/ EndFails
    BY <1>9, EndingJobs
  <1> QED
    BY <1>2, <1>3, <1>4, <1>5, <1>6, <1>7, <1>8, <1>9 DEF Sh4Job

(* The lane taken is not among those already taken. *)
LEMMA LaneOnce ==
    ASSUME CiTypeOK, bench.pc \in DOMAIN BenchSteps
    PROVE  /\ bench.pc \in 1..Len(BenchSteps)
           /\ \A i \in 1..(bench.pc - 1) : BenchSteps[i] # BenchSteps[bench.pc]
           /\ 1..((bench.pc + 1) - 1) = 1..(bench.pc - 1) \cup {bench.pc}
  <1>1. bench.pc \in 1..Len(BenchSteps)
    BY BenchStepsType
  <1>2. \A i \in 1..(bench.pc - 1) : i \in 1..Len(BenchSteps) /\ i # bench.pc
    BY <1>1, BenchStepsType
  <1>3. \A i \in 1..(bench.pc - 1) : BenchSteps[i] # BenchSteps[bench.pc]
    BY <1>1, <1>2, BenchStepsType, CiFullAssumption DEF NoRepeats
  <1>4. 1..((bench.pc + 1) - 1) = 1..(bench.pc - 1) \cup {bench.pc}
    BY <1>1, BenchStepsType
  <1> QED BY <1>1, <1>3, <1>4

(* A build ends. *)
LEMMA BuildArchJobs ==
    ASSUME CiTypeOK, JobsInv, NEW a \in Archs, BuildArch(a)
    PROVE  JobsInv'
  <1> USE DEF JobsInv
  <1>1. /\ ~bench.over /\ builds[a] = "todo" /\ failures' = failures
        /\ UNCHANGED <<run, sh4, bench, art, pub>>
        /\ built' = built \/ built' = built \cup {<<run, a>>}
    BY DEF BuildArch
  <1>2. Grows(Archs)
    <2>1. \A x \in built' \ built : x = <<run, a>>
      BY <1>1
    <2> QED BY <1>1, <2>1 DEF Grows
  <1>3. Sh4Inv' /\ ArtInv' /\ EndInv'
    BY <1>1, <1>2, Sh4Kept, ArtKeptByBench, EndKept
  <1>4. bench.pc = 0 /\ 1..(0 - 1) = {}
    BY <1>1 DEF BenchInv, Installs, CiTypeOK, BenchType
  <1>5. \A b \in Archs : <<run, b>> \in built' => builds'[b] = "ok"
    <2> SUFFICES ASSUME NEW b \in Archs, <<run, b>> \in built' PROVE builds'[b] = "ok"
      OBVIOUS
    <2>0. builds \in [Archs -> {"todo", "ok", "failed"}] /\ <<run, a>> \notin built
      BY <1>1 DEF CiTypeOK, BenchInv, Installs
    <2>1. CASE b = a
      BY <2>0, <2>1 DEF BuildArch
    <2>2. CASE b # a
      <3>1. <<run, b>> \in built /\ builds'[b] = builds[b]
        BY <1>1, <2>0, <2>2 DEF BuildArch
      <3> QED BY <3>1 DEF BenchInv, Installs
    <2> QED BY <2>1, <2>2
  <1>6. BenchFiles' /\ BenchBroken'
    BY <1>1, <1>4 DEF BenchInv, BenchFiles, BenchBroken, Broken
  <1>7. Installs' /\ LostFailed' /\ BenchWhole'
    BY <1>1, <1>4, <1>5 DEF BenchInv, Installs, LostFailed, FailedOn, BenchWhole
  <1>8. BenchInv'
    BY <1>6, <1>7 DEF BenchInv
  <1> QED BY <1>3, <1>8

(* bench-multi starts on the installs it got. *)
LEMMA BenchStartJobs == ASSUME CiTypeOK, JobsInv, BenchStart PROVE JobsInv'
  <1> USE DEF JobsInv
  <1> DEFINE ok == {a \in Archs : builds[a] = "ok"}
  <1>1. PICK h \in IF "download" \in Faults THEN SUBSET ok ELSE {ok} :
          bench' = [bench EXCEPT !.pc = 1, !.have = h]
    BY DEF BenchStart
  <1>2. /\ bench.pc = 0 /\ ~bench.over /\ \A a \in Archs : builds[a] # "todo"
        /\ UNCHANGED <<run, sh4, builds, art, pub, built, failures>>
    BY DEF BenchStart
  <1>3. /\ bench'.pc = 1 /\ bench'.have = h /\ bench'.files = bench.files
        /\ bench'.lost = bench.lost /\ ~bench'.over
    BY <1>1, <1>2 DEF CiTypeOK, BenchType
  <1>4. Sh4Inv' /\ ArtInv' /\ EndInv'
    BY <1>2, <1>3, Sh4Kept, ArtKeptByBench, EndKept, GrowsNot
  <1>5. 1..(0 - 1) = {} /\ 1..(1 - 1) = {}
    OBVIOUS
  <1>6. "download" \notin Faults => h = ok
    BY <1>1
  <1>8. BenchFiles' /\ BenchBroken'
    BY <1>2, <1>3, <1>5 DEF BenchInv, BenchFiles, BenchBroken, Broken
  <1>9. Installs' /\ LostFailed' /\ BenchWhole'
    BY <1>2, <1>3, <1>5, <1>6 DEF BenchInv, Installs, LostFailed, FailedOn, BenchWhole
  <1>7. BenchInv'
    BY <1>8, <1>9 DEF BenchInv
  <1> QED BY <1>4, <1>7

(* A lane of bench-multi is passed over, measures or fails.                 *)
LEMMA BenchLaneJobs == ASSUME CiTypeOK, JobsInv, BenchLane PROVE JobsInv'
  <1> USE DEF JobsInv
  <1>0. PICK a, l : a = BenchSteps[bench.pc][1] /\ l = BenchSteps[bench.pc][2]
    OBVIOUS
  <1> DEFINE before == 1..(bench.pc - 1)
             next == [bench EXCEPT !.pc = @ + 1]
  <1>1. /\ bench.pc \in 1..Len(BenchSteps) /\ ~bench.over
        /\ bench.pc \in DOMAIN BenchSteps /\ bench \in BenchType
        /\ UNCHANGED <<run, builds, sh4, art, pub, built>>
    BY LaneOnce DEF BenchLane, CiTypeOK
  <1>2. /\ a \in Archs /\ l \in StepLanes \ {"sh-sim"} /\ BenchSteps[bench.pc] = <<a, l>>
        /\ \A i \in before : BenchSteps[i] # <<a, l>>
        /\ 1..((bench.pc + 1) - 1) = before \cup {bench.pc}
        /\ bench.pc > 0 /\ bench.pc + 1 > 0
    <2>1. /\ a \in Archs /\ l \in SuffixLanes /\ BenchSteps[bench.pc] = <<a, l>>
          /\ SuffixLanes \subseteq StepLanes \ {"sh-sim"}
      BY <1>0, <1>1, BenchStepsType
    <2>2. bench.pc > 0 /\ bench.pc + 1 > 0
      BY <1>1, BenchStepsType
    <2> QED BY <1>1, <2>1, <2>2, LaneOnce
  <1>3. /\ next.pc = bench.pc + 1 /\ next.files = bench.files /\ next.have = bench.have
        /\ next.lost = bench.lost /\ next.over = bench.over
    BY <1>1 DEF BenchType
  <1>5. \A i \in before : BenchSteps[i][1] \in Archs
    BY <1>1, BenchStepsType
  <1>6. \/ (a \in bench.lost \/ (a # "riscv32" /\ a \notin bench.have))
           /\ bench' = next /\ failures' = failures
        \/ \E o \in LaneOutcomes(l, a \in bench.have) :
             /\ bench' = IF o.ok
                         THEN [next EXCEPT !.files = @ \cup {<<l, o.val, a>>}]
                         ELSE LaneLost(next, a)
             /\ failures' = IF o.why = "none" THEN failures
                            ELSE failures \cup {<<run, a, l, o.why>>}
    BY <1>0 DEF BenchLane
  <1> HIDE DEF before, next
  <1>4. (l \in HardLanes => ~Broken(a, l)) /\ \A f \in bench.files : ~(f[1] = l /\ f[3] = a)
    <2>1. l \in HardLanes => ~Broken(a, l)
      BY <1>2 DEF BenchInv, BenchBroken, before
    <2>2. \A f \in bench.files : ~(f[1] = l /\ f[3] = a)
      BY <1>2 DEF BenchInv, BenchFiles, before
    <2> QED BY <2>1, <2>2
  <1>7. CASE (a \in bench.lost \/ (a # "riscv32" /\ a \notin bench.have))
              /\ bench' = next /\ failures' = failures
    <2>1. Sh4Inv' /\ ArtInv' /\ EndInv'
      BY <1>1, <1>3, <1>7, Sh4Kept, ArtKeptByBench, EndKept, GrowsNot
    <2>2. "download" \notin Faults => ~Healthy(a)
      <3> SUFFICES ASSUME "download" \notin Faults, Healthy(a) PROVE FALSE
        OBVIOUS
      <3>1. builds[a] = "ok" /\ ~FailedOn(a)
        BY <1>2 DEF BenchInv, Installs, Healthy, FailedOn
      <3> QED BY <3>1, <1>2, <1>7 DEF BenchInv, Installs, LostFailed
    <2>3. BenchInv'
      <3>1. bench'.pc = bench.pc + 1 /\ bench'.files = bench.files
            /\ bench'.have = bench.have /\ bench'.lost = bench.lost
            /\ 1..(bench'.pc - 1) = before \cup {bench.pc}
        BY <1>2, <1>3, <1>7
      <3>2. /\ \A b, m : Broken(b, m)' = Broken(b, m)
            /\ \A b : FailedOn(b)' = FailedOn(b) /\ Healthy(b)' = Healthy(b)
        BY <1>1, <1>7 DEF Broken, FailedOn, Healthy
      <3>3. BenchFiles'
        BY <3>1 DEF BenchInv, BenchFiles, before
      <3>4. BenchBroken'
        BY <3>1, <3>2 DEF BenchInv, BenchBroken, before
      <3>5. Installs' /\ LostFailed'
        BY <1>1, <1>2, <3>1, <3>2 DEF BenchInv, Installs, LostFailed
      <3>6. BenchWhole'
        BY <1>2, <2>2, <3>1, <3>2 DEF BenchInv, BenchWhole, before
      <3> QED BY <3>3, <3>4, <3>5, <3>6 DEF BenchInv
    <2> QED BY <2>1, <2>3
  <1>8. ASSUME NEW o \in LaneOutcomes(l, a \in bench.have), o.ok,
               bench' = [next EXCEPT !.files = @ \cup {<<l, o.val, a>>}],
               failures' = IF o.why = "none" THEN failures
                           ELSE failures \cup {<<run, a, l, o.why>>}
        PROVE  JobsInv'
    <2> DEFINE new == <<l, o.val, a>>
    <2> DEFINE x == <<run, a, l, "broken">>
    <2>0. o.why = "none" \/ (o.why = "broken" /\ l \notin HardLanes)
      BY <1>2, <1>8, OutcomeType
    <2>1. /\ failures' = failures \/ (l \notin HardLanes /\ failures' = failures \cup {x})
          /\ x[1] = run /\ x[2] = a /\ \A b, m : <<run, b, m, "broken">> = x => m = l
      BY <1>8, <2>0
    <2> HIDE DEF x
    <2>10. Grows(Archs)
      BY <1>1, <1>2, <2>1 DEF Grows
    <2>2. /\ bench'.pc = bench.pc + 1 /\ bench'.files = bench.files \cup {new}
          /\ bench'.have = bench.have /\ bench'.lost = bench.lost /\ ~bench'.over
          /\ 1..(bench'.pc - 1) = before \cup {bench.pc}
      BY <1>1, <1>2, <1>3, <1>8 DEF next, BenchType
    <2>3. Sh4Inv' /\ ArtInv' /\ EndInv'
      BY <1>1, <2>10, <2>2, Sh4Kept, ArtKeptByBench, EndKept
    <2>4. /\ \A b : \A m \in HardLanes : Broken(b, m)' => Broken(b, m)
          /\ \A b : (FailedOn(b) => FailedOn(b)') /\ (Healthy(b)' => Healthy(b))
      <3>1. \A b : \A m \in HardLanes : Broken(b, m)' => Broken(b, m)
        BY <1>1, <2>1 DEF Broken
      <3>2. \A b : (FailedOn(b) => FailedOn(b)') /\ (Healthy(b)' => Healthy(b))
        BY <1>1, <2>1 DEF FailedOn, Healthy
      <3> QED BY <3>1, <3>2
    <2>5. new[1] = l /\ new[3] = a
      OBVIOUS
    <2> HIDE DEF new
    <2>6. \A f \in bench'.files : \E i \in before \cup {bench.pc} : BenchSteps[i] = <<f[3], f[1]>>
      BY <1>2, <2>2, <2>5 DEF BenchInv, BenchFiles, before
    <2>7. \A b \in Archs, m \in HardLanes : Broken(b, m)' =>
            /\ \E i \in before \cup {bench.pc} : BenchSteps[i] = <<b, m>>
            /\ \A f \in bench'.files : ~(f[1] = m /\ f[3] = b)
      BY <1>4, <2>2, <2>4, <2>5 DEF BenchInv, BenchBroken, before
    <2>8. "download" \notin Faults =>
            \A i \in before \cup {bench.pc} : Healthy(BenchSteps[i][1]) =>
              \E f \in bench'.files : BenchSteps[i] = <<f[3], f[1]>>
      <3> SUFFICES ASSUME "download" \notin Faults, NEW i \in before \cup {bench.pc},
                          Healthy(BenchSteps[i][1])
                   PROVE  \E f \in bench'.files : BenchSteps[i] = <<f[3], f[1]>>
        OBVIOUS
      <3>1. CASE i \in before
        BY <2>2, <3>1 DEF BenchInv, BenchWhole, before
      <3>2. CASE i = bench.pc
        BY <1>2, <2>2, <2>5, <3>2
      <3> QED BY <3>1, <3>2
    <2>9. BenchInv'
      <3>1. BenchFiles'
        BY <2>2, <2>6 DEF BenchFiles
      <3>2. BenchBroken'
        BY <2>2, <2>7 DEF BenchBroken
      <3>3. Installs' /\ LostFailed'
        BY <1>1, <1>2, <2>2, <2>4 DEF BenchInv, Installs, LostFailed
      <3>4. BenchWhole'
        BY <2>2, <2>4, <2>8 DEF BenchWhole
      <3> QED BY <3>1, <3>2, <3>3, <3>4 DEF BenchInv
    <2> QED BY <2>3, <2>9
  <1>9. ASSUME NEW o \in LaneOutcomes(l, a \in bench.have), ~o.ok,
               bench' = LaneLost(next, a),
               failures' = IF o.why = "none" THEN failures
                           ELSE failures \cup {<<run, a, l, o.why>>}
        PROVE  JobsInv'
    <2> DEFINE x == <<run, a, l, o.why>>
    <2>0. o.why # "none"
      BY <1>2, <1>9, OutcomeType DEF Whys
    <2>1. failures' = failures \cup {x} /\ x[1] = run /\ x[2] = a
          /\ \A b, m : x = <<run, b, m, "broken">> => b = a /\ m = l
      BY <1>9, <2>0
    <2> HIDE DEF x
    <2>2. /\ bench'.pc = bench.pc + 1 /\ bench'.files = bench.files
          /\ bench'.have = bench.have /\ bench'.lost = bench.lost \cup {a} /\ ~bench'.over
          /\ 1..(bench'.pc - 1) = before \cup {bench.pc}
      BY <1>1, <1>2, <1>3, <1>9 DEF next, BenchType, LaneLost
    <2>3. Grows(Archs)
      BY <1>1, <1>2, <2>1 DEF Grows
    <2>4. Sh4Inv' /\ ArtInv' /\ EndInv'
      BY <1>1, <2>2, <2>3, Sh4Kept, ArtKeptByBench, EndKept
    <2>5. \A b, m : Broken(b, m)' => Broken(b, m) \/ (b = a /\ m = l)
      BY <1>1, <2>1 DEF Broken
    <2>6. FailedOn(a)' /\ \A b : FailedOn(b) => FailedOn(b)'
      <3>1. x \in failures' /\ x[1] = run' /\ x[2] = a
        BY <1>1, <2>1
      <3>2. FailedOn(a)'
        BY <3>1 DEF FailedOn
      <3>3. \A b : FailedOn(b) => FailedOn(b)'
        BY <1>1, <2>1 DEF FailedOn
      <3> QED BY <3>2, <3>3
    <2>7. \A b : Healthy(b)' => Healthy(b) /\ b # a
      BY <1>1, <2>1 DEF Healthy
    <2>8. \A b \in Archs, m \in HardLanes : Broken(b, m)' =>
            /\ \E i \in before \cup {bench.pc} : BenchSteps[i] = <<b, m>>
            /\ \A f \in bench'.files : ~(f[1] = m /\ f[3] = b)
      BY <1>2, <1>4, <2>2, <2>5 DEF BenchInv, BenchBroken, before
    <2>9. "download" \notin Faults =>
            \A i \in before \cup {bench.pc} : Healthy(BenchSteps[i][1])' =>
              \E f \in bench'.files : BenchSteps[i] = <<f[3], f[1]>>
      BY <1>2, <2>2, <2>7 DEF BenchInv, BenchWhole, before
    <2>10. \A f \in bench'.files : \E i \in before \cup {bench.pc} : BenchSteps[i] = <<f[3], f[1]>>
      BY <2>2 DEF BenchInv, BenchFiles, before
    <2>11. BenchInv'
      <3>1. BenchFiles'
        BY <2>2, <2>10 DEF BenchFiles
      <3>2. BenchBroken'
        BY <2>2, <2>8 DEF BenchBroken
      <3>3. Installs' /\ LostFailed'
        <4>1. Installs'
          BY <1>1, <1>2, <2>2 DEF BenchInv, Installs
        <4>2. LostFailed'
          BY <2>2, <2>6 DEF BenchInv, LostFailed
        <4> QED BY <4>1, <4>2
      <3>4. BenchWhole'
        BY <2>2, <2>9 DEF BenchWhole
      <3> QED BY <3>1, <3>2, <3>3, <3>4 DEF BenchInv
    <2> QED BY <2>4, <2>11
  <1> QED BY <1>6, <1>7, <1>8, <1>9

(* bench-multi merges and uploads what there is. *)
LEMMA BenchFinishJobs == ASSUME CiTypeOK, JobsInv, BenchFinish PROVE JobsInv'
  <1> USE DEF JobsInv
  <1> DEFINE ms == {[name |-> Name(f[1], f[3]), val |-> f[2]] : f \in bench.files}
  <1>0. MergeMetrics(bench.files, {}, TRUE) = bench.files
    BY MergeTakesAll
  <1>1. /\ ~bench.over /\ bench.pc = Len(BenchSteps) + 1
        /\ bench' = [bench EXCEPT !.over = TRUE] /\ art' = [art EXCEPT !.multi = ms]
        /\ UNCHANGED <<run, sh4, builds, pub, built, failures>>
    <2>1. bench.pc = Len(BenchSteps) + 1
      BY BenchStepsType DEF BenchFinish, CiTypeOK, BenchType
    <2> QED BY <1>0, <2>1 DEF BenchFinish
  <1>2. /\ bench'.over = TRUE /\ bench'.pc = bench.pc /\ bench'.files = bench.files
        /\ bench'.have = bench.have /\ bench'.lost = bench.lost
    BY <1>1 DEF CiTypeOK, BenchType
  <1>3. /\ \A b, m : Broken(b, m)' = Broken(b, m)
        /\ \A b : FailedOn(b)' = FailedOn(b) /\ Healthy(b)' = Healthy(b)
    BY <1>1 DEF Broken, FailedOn, Healthy
  <1>4. Sh4Inv'
    BY <1>1, Sh4Kept, GrowsNot
  <1>5. BenchInv'
    BY <1>1, <1>2, BenchSame
  <1>6. "download" \notin Faults =>
          \A a \in Archs : Healthy(a) =>
            \A l \in LanesOn(a) : \E m \in ms : m.name = Name(l, a)
    <2> SUFFICES ASSUME "download" \notin Faults, NEW a \in Archs, Healthy(a),
                        NEW l \in LanesOn(a)
                 PROVE  \E m \in ms : m.name = Name(l, a)
      OBVIOUS
    <2>1. PICK i \in 1..(bench.pc - 1) : BenchSteps[i] = <<a, l>>
      BY <1>1, BenchStepsType DEF LanesOn
    <2>2. PICK f \in bench.files : <<a, l>> = <<f[3], f[1]>>
      BY <2>1 DEF BenchInv, BenchWhole
    <2>3. [name |-> Name(f[1], f[3]), val |-> f[2]] \in ms
      OBVIOUS
    <2> QED BY <2>2, <2>3
  <1>7. \A m \in ms : \E f \in bench.files : m = [name |-> Name(f[1], f[3]), val |-> f[2]]
    OBVIOUS
  <1> HIDE DEF ms
  <1>8. art'.multi = ms /\ art'.sh4 = art.sh4 /\ art'.sum = art.sum
    BY <1>1 DEF CiTypeOK, ArtType
  <1>9. ArtInv'
    BY <1>1, <1>2, <1>3, <1>6, <1>7, <1>8 DEF ArtInv, DiedUploading
  <1>10. EndInv'
    BY <1>1, <1>8, EndKept
  <1> QED BY <1>4, <1>5, <1>9, <1>10

(* A step of publish only moves publish on. *)
LEMMA PublishJobs == ASSUME CiTypeOK, JobsInv, PublishJob PROVE JobsInv'
  <1>1. /\ UNCHANGED <<run, sh4, builds, bench, art, built, failures>> /\ pub.pc # "done"
    BY DEF PublishJob, StartPublish, Fetch, Extract, Seed, StageLra, Migrate, Merge,
           Store, Badges, Deploy, PubUnchanged, At
  <1> QED
    BY <1>1, BenchSame, EndKept
       DEF JobsInv, Sh4Inv, ArtInv, Skipped, FailedOn, Broken, Healthy, DiedUploading

(* A job that times out, a run that is cancelled. *)
LEMMA EndJobs ==
    ASSUME CiTypeOK, JobsInv, Sh4TimesOut \/ BenchTimesOut \/ Cancel
    PROVE  JobsInv'
  <1> USE DEF JobsInv
  <1>1. CASE Sh4TimesOut
    <2> DEFINE x == <<run, "sh4", "job", "timeout">>
    <2>1. /\ ~sh4.over /\ sh4'.over = TRUE /\ sh4'.pc = sh4.pc /\ sh4'.files = sh4.files
          /\ sh4'.failed = IF Skipped THEN sh4.failed ELSE "timeout"
          /\ sh4'.end = sh4.end
          /\ UNCHANGED <<run, builds, bench, art, pub, built>>
      BY <1>1 DEF Sh4TimesOut, CiTypeOK, Sh4Type
    <2>2. failures' = failures \cup {x} /\ x[1] = run /\ x[2] = "sh4"
          /\ \A b, m : x # <<run, b, m, "broken">>
      BY <1>1 DEF Sh4TimesOut
    <2>10. DiedUploading'
      BY <1>1 DEF Sh4TimesOut, DiedUploading
    <2> HIDE DEF x
    <2>3. Grows({"sh4"})
      BY <2>1, <2>2 DEF Grows
    <2>4. BenchInv'
      BY <2>1, <2>3, BenchKept
    <2>5. \A b, m : Broken(b, m)' = Broken(b, m)
      BY <2>1, <2>2 DEF Broken
    <2>6. FailedOn("sh4")' /\ Skipped' /\ ~Healthy("sh4")'
      BY <2>1, <2>2 DEF FailedOn, Skipped, Healthy
    <2>7. Sh4Inv'
      BY <2>1, <2>5, <2>6 DEF Sh4Inv
    <2>8. \A a \in Archs : Healthy(a)' = Healthy(a)
      BY <2>1, <2>3, BenchStepsType, OthersSame
    <2>9. ArtInv'
      BY <2>1, <2>6, <2>8, <2>10 DEF ArtInv
    <2>11. EndInv'
      BY <2>1, EndKept
    <2> QED BY <2>4, <2>7, <2>9, <2>11
  <1>2. CASE BenchTimesOut
    <2> DEFINE xs == {<<run, a, "job", "timeout">> : a \in Archs}
    <2>1. /\ ~bench.over /\ bench'.over = TRUE /\ bench'.pc = bench.pc
          /\ bench'.files = bench.files /\ bench'.have = bench.have
          /\ bench'.lost = bench.lost
          /\ UNCHANGED <<run, sh4, builds, art, pub, built>>
      BY <1>2 DEF BenchTimesOut, CiTypeOK, BenchType
    <2>2. /\ failures' = failures \cup xs /\ \A x \in xs : x[2] \in Archs
          /\ \A b, m : <<run, b, m, "broken">> \notin xs
      BY <1>2 DEF BenchTimesOut
    <2>3. \A a \in Archs : \E x \in xs : x[1] = run /\ x[2] = a
      <3> SUFFICES ASSUME NEW a \in Archs PROVE \E x \in xs : x[1] = run /\ x[2] = a
        OBVIOUS
      <3>1. <<run, a, "job", "timeout">> \in xs
        OBVIOUS
      <3> QED BY <3>1
    <2> HIDE DEF xs
    <2>4. Grows(Archs)
      BY <2>1, <2>2 DEF Grows
    <2>5. Sh4Inv'
      BY <2>1, <2>4, Sh4Kept
    <2>6. \A b, m : Broken(b, m)' = Broken(b, m)
      BY <2>1, <2>2 DEF Broken
    <2>7. \A a \in Archs : FailedOn(a)' /\ ~Healthy(a)'
      BY <2>1, <2>2, <2>3 DEF FailedOn, Healthy
    <2>8. bench.lost \subseteq Archs
          /\ \A i \in 1..(bench.pc - 1) : BenchSteps[i][1] \in Archs
      BY BenchStepsType DEF CiTypeOK, BenchType
    <2>9. BenchInv'
      <3>1. BenchFiles'
        BY <2>1 DEF BenchInv, BenchFiles
      <3>2. BenchBroken'
        BY <2>1, <2>6 DEF BenchInv, BenchBroken
      <3>3. Installs' /\ LostFailed'
        BY <2>1, <2>7, <2>8 DEF BenchInv, Installs, LostFailed
      <3>4. BenchWhole'
        BY <2>1, <2>7, <2>8 DEF BenchInv, BenchWhole
      <3> QED BY <3>1, <3>2, <3>3, <3>4 DEF BenchInv
    <2>10. Healthy("sh4")' = Healthy("sh4")
      BY <2>1, <2>4, BenchStepsType, OthersSame
    <2>12. DiedUploading => DiedUploading'
      BY <2>1, <2>2, DiedStays
    <2>11. ArtInv'
      BY <2>1, <2>7, <2>10, <2>12 DEF ArtInv
    <2>13. EndInv'
      BY <2>1, EndKept
    <2> QED BY <2>5, <2>9, <2>11, <2>13
  <1>3. CASE Cancel
    <2>1. /\ sh4'.over = TRUE /\ sh4'.pc = sh4.pc /\ sh4'.files = sh4.files
          /\ sh4'.failed = sh4.failed /\ sh4'.end = sh4.end
          /\ bench'.over = TRUE /\ bench'.pc = bench.pc /\ bench'.files = bench.files
          /\ bench'.have = bench.have /\ bench'.lost = bench.lost
          /\ pub'.pc = "done"
          /\ UNCHANGED <<run, builds, art, built, failures>>
      BY <1>3 DEF Cancel, CiTypeOK, Sh4Type, BenchType, PubType
    <2>2. /\ \A b, m : Broken(b, m)' = Broken(b, m)
          /\ \A b : FailedOn(b)' = FailedOn(b) /\ Healthy(b)' = Healthy(b)
      BY <2>1 DEF Broken, FailedOn, Healthy
    <2>3. Sh4Inv'
      BY <2>1, <2>2 DEF Sh4Inv, Skipped
    <2>4. BenchInv'
      BY <2>1, BenchSame
    <2>5. ArtInv'
      BY <2>1, <2>2 DEF ArtInv
    <2>6. EndInv'
      BY <2>1, EndKept
    <2> QED BY <2>3, <2>4, <2>5, <2>6
  <1> QED BY <1>1, <1>2, <1>3

LEMMA JobsStep == CiTypeOK /\ JobsInv /\ [Next]_vars => JobsInv'
  <1>1. ASSUME JobsInv, UNCHANGED vars PROVE JobsInv'
    BY <1>1, BenchSame, EndKept
       DEF vars, JobsInv, Sh4Inv, ArtInv, Skipped, FailedOn, Broken, Healthy, DiedUploading
  <1> QED
    BY <1>1, NewRunJobs, Sh4Jobs, BuildArchJobs, BenchStartJobs, BenchLaneJobs,
       BenchFinishJobs, PublishJobs, EndJobs DEF Next, BenchJobs

LEMMA JobsSound == Spec => []JobsInv
  BY CiTyped, JobsInit, JobsStep, PTL DEF Spec

-----------------------------------------------------------------------------
(* Publish and the site: what leaves an invariant alone *)

(* While a run is in progress the site is of an earlier one: what its jobs  *)
(* do says nothing of the points published.                                 *)
LEMMA SiteKept ==
    ASSUME CiTypeOK, SiteInv, pub.pc = "wait", UNCHANGED <<run, pub, site>>,
           failures \subseteq failures', \A x \in failures' \ failures : x[1] = run
    PROVE  SiteInv'
  <1>1. site.run < run /\ \A p \in site.hist : p.run # run
    BY CiFullAssumption DEF SiteInv, CiTypeOK, SiteType, Point
  <1>2. ZeroMeansSkipped'
    <2> SUFFICES ASSUME NEW p \in site.hist, p.val = "zero", p.name.lane \in HardLanes,
                        <<p.run, ArchOf(p.name), p.name.lane, "broken">> \in failures'
                 PROVE  FALSE
      BY DEF ZeroMeansSkipped
    <2>1. <<p.run, ArchOf(p.name), p.name.lane, "broken">> \notin failures
      BY DEF SiteInv, ZeroMeansSkipped
    <2> QED BY <2>1, <1>1
  <1>3. BadgesMatchHistory' /\ ("download" \notin Faults => PanelsAgree')
    BY DEF SiteInv, BadgesMatchHistory, PanelsAgree, PointsOf
  <1>4. site'.run # run'
    BY <1>1, CiFullAssumption DEF CiTypeOK, SiteType
  <1>5. WorkingArchAdvances'
    BY <1>4 DEF WorkingArchAdvances
  <1> QED BY <1>2, <1>3, <1>5 DEF SiteInv

LEMMA SiteSame ==
    ASSUME SiteInv, UNCHANGED <<run, site, built, failures>>,
           pub.pc = "done" => pub'.pc = "done"
    PROVE  SiteInv'
  <1>1. ZeroMeansSkipped' /\ BadgesMatchHistory'
    BY DEF SiteInv, ZeroMeansSkipped, BadgesMatchHistory, PointsOf
  <1>2. "download" \notin Faults => PanelsAgree'
    BY DEF SiteInv, PanelsAgree
  <1>3. "download" \notin Faults => WorkingArchAdvances'
    BY DEF SiteInv, WorkingArchAdvances, Healthy, PointsOf
  <1> QED BY <1>1, <1>2, <1>3 DEF SiteInv

(* A step of a job, while publish waits. *)
LEMMA JobPub ==
    ASSUME CiTypeOK, PubInv, pub.pc = "wait", UNCHANGED <<run, pub, site>>,
           failures \subseteq failures', \A x \in failures' \ failures : x[1] = run
    PROVE  PubInv'
  <1>1. FetchedInv' /\ HistInv' /\ BadgeInv'
    BY DEF PubInv, FetchedInv, HistInv, BadgeInv,
           Fetched, Extracted, Seeded, Staged, Migrated, Merged, Stored
  <1> QED BY <1>1, SiteKept DEF PubInv

(* publish is over, with what it last held. *)
LEMMA PubOver ==
    ASSUME PubInv, UNCHANGED <<run, site, art, built, failures>>, pub'.pc = "done",
           pub'.sh4 = pub.sh4, pub'.multi = pub.multi
    PROVE  PubInv'
  <1>1. FetchedInv' /\ HistInv' /\ BadgeInv'
    BY DEF PubInv, FetchedInv, HistInv, BadgeInv,
           Fetched, Extracted, Seeded, Staged, Migrated, Merged, Stored
  <1> QED BY <1>1, SiteSame DEF PubInv

LEMMA PubInit == Init => PubInv
  <1> SUFFICES ASSUME Init PROVE PubInv
    OBVIOUS
  <1>1. pub.pc = "done" /\ pub.sh4 = Absent /\ pub.multi = Absent
    BY DEF Init, NewPub
  <1>2. site.run = 0 /\ site.hist = Legacy /\ run = 0 /\ failures = {}
    BY DEF Init
  <1>3. \A p \in site.hist : p.run <= site.run
    BY <1>2, CiFullAssumption
  <1>4. SiteInv
    BY <1>1, <1>2, <1>3 DEF SiteInv, ZeroMeansSkipped, BadgesMatchHistory,
                            PanelsAgree, WorkingArchAdvances
  <1>5. FetchedInv /\ HistInv /\ BadgeInv
    BY <1>1 DEF FetchedInv, HistInv, BadgeInv,
                Fetched, Extracted, Seeded, Staged, Migrated, Merged, Stored
  <1> QED BY <1>4, <1>5 DEF PubInv

LEMMA NewRunPub == ASSUME CiTypeOK, PubInv, NewRun PROVE PubInv'
  <1>1. pub'.pc = "wait" /\ pub'.sh4 = Absent /\ pub'.multi = Absent
    BY DEF NewRun, NewPub
  <1>2. run' = run + 1 /\ UNCHANGED <<site, failures>>
    BY DEF NewRun
  <1>3. site'.run < run' /\ site'.run <= run' /\ site'.run # run'
    BY <1>2, CiFullAssumption DEF PubInv, SiteInv, CiTypeOK, SiteType
  <1>4. SiteInv'
    <2>1. ZeroMeansSkipped' /\ BadgesMatchHistory'
      BY <1>2 DEF PubInv, SiteInv, ZeroMeansSkipped, BadgesMatchHistory, PointsOf
    <2>2. "download" \notin Faults => PanelsAgree'
      BY <1>2 DEF PubInv, SiteInv, PanelsAgree
    <2>3. WorkingArchAdvances'
      BY <1>3 DEF WorkingArchAdvances
    <2> QED BY <1>2, <1>3, <2>1, <2>2, <2>3 DEF PubInv, SiteInv
  <1>5. FetchedInv' /\ HistInv' /\ BadgeInv'
    BY <1>1 DEF FetchedInv, HistInv, BadgeInv,
                Fetched, Extracted, Seeded, Staged, Migrated, Merged, Stored
  <1> QED BY <1>4, <1>5 DEF PubInv

(* build-and-test, the builds and bench-multi do not reach publish. *)
LEMMA JobsPub ==
    ASSUME CiTypeOK, PubInv, Sh4Job \/ BenchJobs \/ Sh4TimesOut \/ BenchTimesOut
    PROVE  PubInv'
  <1>1. (~sh4.over \/ ~bench.over) /\ UNCHANGED <<run, pub, site>>
    BY DEF Sh4Job, SkipStep, BuildSh4, BuildMultilib, MeasureSh4, BuildShElf, RunShSim,
           ParseStep, MergeAll, UploadSum, StageResults, StashMetrics, EndFails, Ending,
           Sh4Step, BenchJobs, BuildArch, BenchStart, BenchLane,
           BenchFinish, Sh4TimesOut, BenchTimesOut
  <1>2. failures \subseteq failures' /\ \A x \in failures' \ failures : x[1] = run
    <2>1. ASSUME NEW s, NEW w, Fail4(s, w)
          PROVE  failures \subseteq failures' /\ \A x \in failures' \ failures : x[1] = run
      BY <2>1 DEF Fail4
    <2>2. CASE Sh4Job
      <3>1. CASE MeasureSh4
        <4>1. PICK l \in StepLanes \ {"sh-sim"} :
                \E o \in LaneOutcomes(l, TRUE) : MeasuredAs(l, o)
          BY <3>1 DEF MeasureSh4, MeasuredAs
        <4>2. PICK o \in LaneOutcomes(l, TRUE) : MeasuredAs(l, o)
          BY <4>1
        <4>3. Fail4(l, o.why) \/ failures' = failures
              \/ failures' = failures \cup {<<run, "sh4", l, o.why>>}
          BY <4>2 DEF MeasuredAs
        <4> QED BY <4>3, <2>1
      <3>2. CASE BuildSh4 \/ BuildMultilib
        BY <3>2, <2>1 DEF BuildSh4, BuildMultilib
      <3>3. CASE SkipStep \/ BuildShElf \/ RunShSim \/ ParseStep
        BY <3>3 DEF SkipStep, BuildShElf, RunShSim, ParseStep
      <3>4. CASE MergeAll \/ UploadSum \/ StageResults \/ StashMetrics \/ EndFails
        BY <3>4 DEF MergeAll, UploadSum, StageResults, StashMetrics, EndFails
      <3> QED BY <2>2, <3>1, <3>2, <3>3, <3>4 DEF Sh4Job
    <2>3. CASE BenchJobs
      <3>1. CASE BenchLane
        <4>1. \/ failures' = failures
              \/ \E a, l, w : failures' = failures \cup {<<run, a, l, w>>}
          BY <3>1 DEF BenchLane
        <4> QED BY <4>1
      <3>2. CASE (\E a \in Archs : BuildArch(a)) \/ BenchStart \/ BenchFinish
        BY <3>2 DEF BuildArch, BenchStart, BenchFinish
      <3> QED BY <2>3, <3>1, <3>2 DEF BenchJobs
    <2>4. CASE Sh4TimesOut \/ BenchTimesOut
      BY <2>4 DEF Sh4TimesOut, BenchTimesOut
    <2> QED BY <2>2, <2>3, <2>4
  <1> QED BY <1>1, <1>2, WhileRunning, JobPub

-----------------------------------------------------------------------------
(* Publish and the site: every step of publish keeps PubInv *)

(* What bench-multi measures is of the file's lane and architecture, and so *)
(* never of sh4.                                                            *)
LEMMA MultiFile ==
    ASSUME CiTypeOK, JobsInv, NEW m \in art.multi
    PROVE  \E f \in bench.files : /\ m.name.lane = f[1] /\ f[1] \in StepLanes
                                 /\ ArchOf(m.name) = f[3] /\ f[3] \in Archs
  <1>1. PICK f \in bench.files : m = [name |-> Name(f[1], f[3]), val |-> f[2]]
    BY DEF JobsInv, ArtInv
  <1>2. f[1] \in StepLanes /\ f[3] \in Archs
    BY DEF CiTypeOK, BenchType
  <1>3. PICK i \in 1..(bench.pc - 1) : BenchSteps[i] = <<f[3], f[1]>>
    BY DEF JobsInv, BenchInv, BenchFiles
  <1>4. i \in 1..Len(BenchSteps)
    BY BenchStepsType DEF CiTypeOK, BenchType
  <1>5. f[1] \in SuffixLanes
    BY <1>3, <1>4, BenchStepsType
  <1> QED BY <1>1, <1>2, <1>5, NameType

(* No point an artifact becomes is of a lane that fails hard and broke. *)
LEMMA FileNotBroken ==
    ASSUME CiTypeOK, JobsInv, NEW m \in art.sh4 \cup art.multi,
           m.name.lane \in HardLanes
    PROVE  <<run, ArchOf(m.name), m.name.lane, "broken">> \notin failures
  <1>1. CASE m \in art.sh4
    <2>1. PICK f \in sh4.files : m = [name |-> Name(f[1], "sh4"), val |-> f[2]]
      BY <1>1 DEF JobsInv, ArtInv
    <2>2. f[1] \in StepLanes
      BY DEF CiTypeOK, Sh4Type
    <2>3. m.name.lane = f[1] /\ ArchOf(m.name) = "sh4"
      BY <2>1, <2>2, NameType
    <2>4. ~Broken("sh4", f[1])
      BY <2>2, <2>3 DEF JobsInv, Sh4Inv
    <2> QED BY <2>3, <2>4 DEF Broken
  <1>2. CASE m \in art.multi
    <2>1. PICK f \in bench.files : /\ m.name.lane = f[1] /\ f[1] \in StepLanes
                                  /\ ArchOf(m.name) = f[3] /\ f[3] \in Archs
      BY <1>2, MultiFile
    <2>2. ~Broken(f[3], f[1])
      BY <2>1 DEF JobsInv, BenchInv, BenchBroken
    <2> QED BY <2>1, <2>2 DEF Broken
  <1> QED BY <1>1, <1>2

(* Migration changes no run, series or value. *)
Renamed(h) == {[p EXCEPT !.name = MaybeRename(@)] : p \in h}

LEMMA MigrateKeeps ==
    ASSUME NEW h \in SUBSET Point, NEW g, g = Renamed(h)
    PROVE  /\ Content(g) = Content(h)
           /\ \A q \in g : /\ q.name \in Names
                           /\ \E p \in h : /\ q.run = p.run /\ q.val = p.val
                                           /\ q.name.lane = p.name.lane
                                           /\ ArchOf(q.name) = ArchOf(p.name)
  <1> DEFINE R(p) == [p EXCEPT !.name = MaybeRename(@)]
  <1>1. ASSUME NEW p \in h
        PROVE  /\ R(p).run = p.run /\ R(p).val = p.val /\ R(p).name \in Names
               /\ R(p).name.lane = p.name.lane /\ ArchOf(R(p).name) = ArchOf(p.name)
    <2>1. p.name \in Names \cup OldNames /\ p \in Point
      BY DEF Point
    <2>2. R(p).run = p.run /\ R(p).val = p.val /\ R(p).name = MaybeRename(p.name)
      BY <2>1 DEF Point
    <2> QED BY <2>1, <2>2, RenameKeepsSeries
  <1>2. g = {R(p) : p \in h}
    BY DEF Renamed
  <1> HIDE DEF R
  <1>3. \A q \in g : \E p \in h : q = R(p)
    BY <1>2
  <1>4. \A p \in h : R(p) \in g
    BY <1>2
  <1>5. \A p \in h : <<R(p).run, Series(R(p)), R(p).val>> = <<p.run, Series(p), p.val>>
    BY <1>1 DEF Series
  <1>6. Content(g) \subseteq Content(h)
    BY <1>3, <1>5 DEF Content
  <1>7. Content(h) \subseteq Content(g)
    <2> SUFFICES ASSUME NEW p \in h PROVE <<p.run, Series(p), p.val>> \in Content(g)
      BY DEF Content
    <2>1. <<R(p).run, Series(R(p)), R(p).val>> \in Content(g)
      BY <1>4 DEF Content
    <2> QED BY <2>1, <1>5
  <1> QED BY <1>1, <1>3, <1>6, <1>7

(* Getting the artifacts and the history together. *)
LEMMA FetchPub ==
    ASSUME CiTypeOK, PubInv, StartPublish \/ Fetch \/ Extract \/ StageLra
    PROVE  PubInv'
  <1> USE DEF Fetched, Extracted, Seeded, Staged, Migrated, Merged, Stored
  <1>1. pub \in PubType /\ UNCHANGED <<run, art, site, built, failures>>
    BY DEF CiTypeOK, StartPublish, Fetch, Extract, StageLra, PubUnchanged
  <1>2. CASE StartPublish
    <2>1. pub.pc = "wait" /\ pub' = [pub EXCEPT !.pc = "fetch"]
      BY <1>2 DEF StartPublish, At
    <2>2. pub'.pc = "fetch" /\ pub'.sh4 = pub.sh4 /\ pub'.multi = pub.multi
      BY <1>1, <2>1 DEF PubType
    <2>3. FetchedInv' /\ HistInv' /\ BadgeInv'
      BY <1>1, <2>1, <2>2 DEF PubInv, FetchedInv, HistInv, BadgeInv
    <2> QED BY <1>1, <2>1, <2>3, SiteSame DEF PubInv
  <1>3. CASE Fetch
    <2>1. PICK m, mm, d :
            /\ m \in {art.sh4, Absent} /\ mm \in {art.multi, Absent}
            /\ "download" \notin Faults => m = art.sh4 /\ mm = art.multi /\ d = art.sum
            /\ pub' = [pub EXCEPT !.pc = "extract", !.sh4 = m, !.multi = mm, !.sum = d]
      BY <1>3 DEF Fetch
    <2>2. pub.pc = "fetch"
      BY <1>3 DEF Fetch, At
    <2>3. pub'.pc = "extract" /\ pub'.sh4 = m /\ pub'.multi = mm /\ pub'.sum = d
      BY <1>1, <2>1 DEF PubType
    <2>4. FetchedInv' /\ HistInv' /\ BadgeInv'
      BY <1>1, <2>1, <2>3 DEF FetchedInv, HistInv, BadgeInv
    <2> QED BY <1>1, <2>2, <2>4, SiteSame DEF PubInv
  <1>4. CASE Extract
    <2>1. pub.pc = "extract" /\ pub' = [pub EXCEPT !.pc = "seed", !.flag = ~pub.sum]
      BY <1>4 DEF Extract, At
    <2>2. /\ pub'.pc = "seed" /\ pub'.flag = ~pub.sum /\ pub'.sum = pub.sum
          /\ pub'.sh4 = pub.sh4 /\ pub'.multi = pub.multi
      BY <1>1, <2>1 DEF PubType
    <2>3. FetchedInv' /\ HistInv' /\ BadgeInv'
      BY <1>1, <2>1, <2>2 DEF PubInv, FetchedInv, HistInv, BadgeInv
    <2> QED BY <1>1, <2>1, <2>3, SiteSame DEF PubInv
  <1>5. CASE StageLra
    <2>1. pub.pc = "lra" /\ pub' = [pub EXCEPT !.pc = "migrate", !.lra = pub.sh4 # Absent]
      BY <1>5 DEF StageLra, At
    <2>2. /\ pub'.pc = "migrate" /\ pub'.lra = (pub.sh4 # Absent)
          /\ pub'.sh4 = pub.sh4 /\ pub'.multi = pub.multi
          /\ pub'.sum = pub.sum /\ pub'.flag = pub.flag /\ pub'.hist = pub.hist
      BY <1>1, <2>1 DEF PubType
    <2>3. FetchedInv'
      BY <1>1, <2>1, <2>2 DEF PubInv, FetchedInv
    <2>4. HistInv' /\ BadgeInv'
      BY <1>1, <2>1, <2>2 DEF PubInv, HistInv, BadgeInv, ZeroOK
    <2> QED BY <1>1, <2>1, <2>3, <2>4, SiteSame DEF PubInv
  <1> QED BY <1>2, <1>3, <1>4, <1>5

(* The history is seeded with points of earlier runs. *)
LEMMA SeedPub == ASSUME CiTypeOK, PubInv, Seed PROVE PubInv'
  <1> USE DEF Fetched, Extracted, Seeded, Staged, Migrated, Merged, Stored
  <1>1. /\ pub \in PubType /\ UNCHANGED <<run, art, site, built, failures>>
        /\ pub.pc = "seed"
    BY DEF CiTypeOK, Seed, PubUnchanged, At
  <1>2. PICK h : /\ h \in {site.hist, {}} /\ ("seed" \notin Faults => h = site.hist)
                 /\ pub' = [pub EXCEPT !.pc = "lra", !.hist = h]
    BY DEF Seed
  <1>3. /\ pub'.pc = "lra" /\ pub'.hist = h /\ pub'.sh4 = pub.sh4 /\ pub'.multi = pub.multi
        /\ pub'.sum = pub.sum /\ pub'.flag = pub.flag
    BY <1>1, <1>2 DEF PubType
  <1>4. \A p \in h : p.run <= run /\ p.run < run /\ ZeroOK(p)
    <2> SUFFICES ASSUME NEW p \in site.hist
                 PROVE  p.run <= run /\ p.run < run /\ ZeroOK(p)
      BY <1>2
    <2>1. p.run \in Nat /\ site.run \in Nat /\ run \in Nat /\ p.run <= site.run /\ site.run < run
      BY <1>1, CiFullAssumption DEF CiTypeOK, SiteType, Point, PubInv, SiteInv
    <2> QED BY <2>1 DEF PubInv, SiteInv, ZeroMeansSkipped, ZeroOK
  <1>5. HistInv'
    BY <1>1, <1>2, <1>3, <1>4 DEF HistInv, ZeroOK
  <1>6. FetchedInv' /\ BadgeInv'
    BY <1>1, <1>3 DEF PubInv, FetchedInv, BadgeInv
  <1> QED BY <1>1, <1>5, <1>6, SiteSame DEF PubInv

(* Names are brought to their form of today. *)
LEMMA MigratePub == ASSUME CiTypeOK, PubInv, Migrate PROVE PubInv'
  <1> USE DEF Fetched, Extracted, Seeded, Staged, Migrated, Merged, Stored
  <1>1. /\ pub \in PubType /\ UNCHANGED <<run, art, site, built, failures>>
        /\ pub.pc = "migrate"
    BY DEF CiTypeOK, Migrate, PubUnchanged, At
  <1>2. PICK g : g = Renamed(pub.hist) /\ pub' = [pub EXCEPT !.pc = "merge", !.hist = g]
    BY DEF Migrate, Renamed
  <1>3. /\ pub'.pc = "merge" /\ pub'.hist = g /\ pub'.sh4 = pub.sh4 /\ pub'.multi = pub.multi
        /\ pub'.sum = pub.sum /\ pub'.flag = pub.flag /\ pub'.lra = pub.lra
    BY <1>1, <1>2 DEF PubType
  <1>4. pub.hist \in SUBSET Point
    BY <1>1 DEF PubType
  <1>5. /\ Content(g) = Content(pub.hist)
        /\ \A q \in g : /\ q.name \in Names
                        /\ \E p \in pub.hist : /\ q.run = p.run /\ q.val = p.val
                                               /\ q.name.lane = p.name.lane
                                               /\ ArchOf(q.name) = ArchOf(p.name)
    BY <1>2, <1>4, MigrateKeeps
  <1>6. \A q \in g : q.run <= run /\ q.run < run /\ ZeroOK(q)
    BY <1>1, <1>5 DEF PubInv, HistInv, ZeroOK
  <1>7. "seed" \notin Faults => Content(site.hist) \subseteq Content(g)
    BY <1>1, <1>5 DEF PubInv, HistInv
  <1>8. HistInv'
    BY <1>1, <1>3, <1>5, <1>6, <1>7 DEF HistInv, ZeroOK
  <1>9. FetchedInv' /\ BadgeInv'
    BY <1>1, <1>3 DEF PubInv, FetchedInv, BadgeInv
  <1> QED BY <1>1, <1>8, <1>9, SiteSame DEF PubInv

(* The two artifacts become the metrics of the run. *)
LEMMA MergePub == ASSUME CiTypeOK, PubInv, Merge PROVE PubInv'
  <1> USE DEF Fetched, Extracted, Seeded, Staged, Migrated, Merged, Stored
  <1>1. /\ pub \in PubType /\ UNCHANGED <<run, art, site, built, failures>>
        /\ pub.pc = "merge"
        /\ pub' = [pub EXCEPT !.pc = "store", !.new = pub.sh4 \cup pub.multi]
    BY MergeTakesAll DEF CiTypeOK, Merge, PubUnchanged, At
  <1>2. /\ pub'.pc = "store" /\ pub'.new = pub.sh4 \cup pub.multi
        /\ pub'.hist = pub.hist /\ pub'.sh4 = pub.sh4 /\ pub'.multi = pub.multi
        /\ pub'.sum = pub.sum /\ pub'.flag = pub.flag /\ pub'.lra = pub.lra
    BY <1>1 DEF PubType
  <1>3. HistInv'
    BY <1>1, <1>2 DEF PubInv, HistInv, ZeroOK
  <1>4. FetchedInv' /\ BadgeInv'
    BY <1>1, <1>2 DEF PubInv, FetchedInv, BadgeInv
  <1> QED BY <1>1, <1>3, <1>4, SiteSame DEF PubInv

(* The metrics become points of the history. *)
LEMMA StorePub == ASSUME CiTypeOK, JobsInv, PubInv, Store PROVE PubInv'
  <1> USE DEF Fetched, Extracted, Seeded, Staged, Migrated, Merged, Stored
  <1> DEFINE pts == {PointOf(m) : m \in pub.new}
  <1>1. /\ pub \in PubType /\ UNCHANGED <<run, art, site, built, failures>>
        /\ pub.pc = "store" /\ pub' = [pub EXCEPT !.pc = "badges", !.hist = @ \cup pts]
    BY DEF CiTypeOK, Store, PubUnchanged, At, PointOf
  <1>2. \A p \in pts : \E m \in pub.new : p = PointOf(m)
    OBVIOUS
  <1>3. \A m \in pub.new : PointOf(m) \in pts
    OBVIOUS
  <1> HIDE DEF pts
  <1>4. /\ pub'.pc = "badges" /\ pub'.new = pub.new /\ pub'.hist = pub.hist \cup pts
        /\ pub'.sh4 = pub.sh4 /\ pub'.multi = pub.multi
        /\ pub'.sum = pub.sum /\ pub'.flag = pub.flag /\ pub'.lra = pub.lra
    BY <1>1 DEF PubType
  <1>5. \A m \in pub.new : m \in art.sh4 \cup art.multi /\ m.name \in Names
    BY <1>1 DEF PubInv, HistInv, FetchedInv, Absent, PubType, Metric
  <1>6. ASSUME NEW p \in pts
        PROVE  p.run = run /\ p.run <= run /\ p.name \in Names /\ ZeroOK(p)
    <2>1. PICK m \in pub.new : p = PointOf(m)
      BY <1>2
    <2>2. p.run = run /\ p.name = m.name /\ run <= run
      BY <2>1, CiFullAssumption DEF PointOf, CiTypeOK
    <2> QED BY <1>5, <2>2, FileNotBroken DEF ZeroOK
  <1>7. \A p \in pub.hist : /\ p.run <= run /\ p.run # run /\ p.name \in Names /\ ZeroOK(p)
    BY <1>1, CiFullAssumption DEF PubInv, HistInv, CiTypeOK, PubType, Point
  <1>8. "seed" \notin Faults => Content(site.hist) \subseteq Content(pub.hist \cup pts)
    <2>1. Content(pub.hist) \subseteq Content(pub.hist \cup pts)
      BY DEF Content
    <2> QED BY <1>1, <2>1 DEF PubInv, HistInv
  <1>9. \A p : ZeroOK(p)' <=> ZeroOK(p)
    BY <1>1 DEF ZeroOK
  <1>10. \A m : PointOf(m)' = PointOf(m)
    BY <1>1 DEF PointOf
  <1>11. HistInv'
    <2>1. \A p \in pub'.hist : p.run <= run /\ ZeroOK(p)' /\ p.name \in Names
      BY <1>4, <1>6, <1>7, <1>9
    <2>2. pub'.new = pub'.sh4 \cup pub'.multi
      BY <1>1, <1>4 DEF PubInv, HistInv
    <2>3. /\ \A m \in pub'.new : PointOf(m)' \in pub'.hist
          /\ \A p \in pub'.hist : p.run = run => \E m \in pub'.new : p = PointOf(m)'
      BY <1>2, <1>3, <1>4, <1>7, <1>10
    <2> QED BY <1>1, <1>4, <1>8, <2>1, <2>2, <2>3 DEF HistInv
  <1>12. FetchedInv' /\ BadgeInv'
    BY <1>1, <1>4 DEF PubInv, FetchedInv, BadgeInv
  <1> QED BY <1>1, <1>11, <1>12, SiteSame DEF PubInv

(* The badges are made of this run's metrics, or fail together. *)
LEMMA BadgesPub == ASSUME CiTypeOK, PubInv, Badges PROVE PubInv'
  <1> USE DEF Fetched, Extracted, Seeded, Staged, Migrated, Merged, Stored
  <1> DEFINE entry(l) == {m \in pub.sh4 : m.name = Name(l, "sh4")}
             value(l) == (CHOOSE m \in entry(l) : TRUE).val
             failing == [l \in BadgeLanes |-> "failing"]
             shown == [l \in BadgeLanes |-> Badge(l, value(l))]
  <1>1. /\ pub \in PubType /\ UNCHANGED <<run, art, site, built, failures>>
        /\ pub.pc = "badges"
    BY DEF CiTypeOK, Badges, PubUnchanged, At
  <1>2. \/ pub.sh4 = Absent /\ pub' = [pub EXCEPT !.pc = "deploy", !.badge = failing]
        \/ /\ pub.sh4 # Absent /\ \A l \in BadgeLanes : entry(l) # {}
           /\ pub' = [pub EXCEPT !.pc = "deploy", !.badge = shown]
        \/ pub' = [pub EXCEPT !.pc = "done"]
    BY DEF Badges
  <1>3. \A l \in BadgeLanes : failing[l] = "failing"
    OBVIOUS
  <1>4. \A l \in BadgeLanes \ {"sh-sim"} : shown[l] \in {"red", "shown"}
    <2>1. \A l, v : l # "sh-sim" => Badge(l, v) \in {"red", "shown"}
      BY DEF Badge
    <2> HIDE DEF value
    <2> QED BY <2>1
  <1>5. \A l : entry(l) # {} => \E m \in pub.sh4 : m.name = Name(l, "sh4")
    OBVIOUS
  <1> HIDE DEF entry, failing, shown
  <1>6. CASE pub' = [pub EXCEPT !.pc = "done"]
    <2>1. pub'.pc = "done" /\ pub'.sh4 = pub.sh4 /\ pub'.multi = pub.multi
      BY <1>1, <1>6 DEF PubType
    <2> QED BY <1>1, <2>1, PubOver
  <1>7. ASSUME NEW b, pub' = [pub EXCEPT !.pc = "deploy", !.badge = b],
               pub.sh4 = Absent => \A l \in BadgeLanes : b[l] = "failing",
               pub.sh4 # Absent =>
                 \A l \in BadgeLanes \ {"sh-sim"} :
                   b[l] \in {"red", "shown"} /\ \E m \in pub.sh4 : m.name = Name(l, "sh4")
        PROVE  PubInv'
    <2>1. /\ pub'.pc = "deploy" /\ pub'.badge = b /\ pub'.new = pub.new
          /\ pub'.hist = pub.hist /\ pub'.sh4 = pub.sh4 /\ pub'.multi = pub.multi
          /\ pub'.sum = pub.sum /\ pub'.flag = pub.flag /\ pub'.lra = pub.lra
      BY <1>1, <1>7 DEF PubType
    <2>2. BadgeInv'
      BY <1>7, <2>1 DEF BadgeInv
    <2>3. HistInv'
      BY <1>1, <2>1 DEF PubInv, HistInv, ZeroOK, PointOf
    <2>4. FetchedInv'
      BY <1>1, <2>1 DEF PubInv, FetchedInv
    <2> QED BY <1>1, <2>2, <2>3, <2>4, SiteSame DEF PubInv
  <1>8. CASE pub.sh4 = Absent /\ pub' = [pub EXCEPT !.pc = "deploy", !.badge = failing]
    BY <1>3, <1>7, <1>8
  <1>9. CASE /\ pub.sh4 # Absent /\ \A l \in BadgeLanes : entry(l) # {}
             /\ pub' = [pub EXCEPT !.pc = "deploy", !.badge = shown]
    BY <1>4, <1>5, <1>7, <1>9
  <1> QED BY <1>2, <1>6, <1>8, <1>9

(* The site is replaced as a whole: its parts come from one run. *)
LEMMA DeployPub == ASSUME CiTypeOK, JobsInv, PubInv, Deploy PROVE PubInv'
  <1> USE DEF Fetched, Extracted, Seeded, Staged, Migrated, Merged, Stored
  <1>1. /\ pub \in PubType /\ UNCHANGED <<run, art, built, failures>>
        /\ pub.pc = "deploy" /\ pub' = [pub EXCEPT !.pc = "done"]
        /\ site' = [run |-> run, hist |-> pub.hist, flag |-> pub.flag,
                    lra |-> pub.lra, badge |-> pub.badge]
    BY DEF CiTypeOK, Deploy, PubUnchanged, At
  <1>2. /\ site'.run = run /\ site'.hist = pub.hist /\ site'.flag = pub.flag
        /\ site'.lra = pub.lra /\ site'.badge = pub.badge
    BY <1>1
  <1>3. pub'.pc = "done" /\ pub'.sh4 = pub.sh4 /\ pub'.multi = pub.multi
    BY <1>1 DEF PubType
  <1>4. run \in Nat /\ run > 0 /\ bench.over /\ sh4.over
    BY <1>1, CiFullAssumption DEF CiTypeOK
  <1>5. \A m \in pub.new : /\ PointOf(m) \in pub.hist /\ PointOf(m).run = run
                           /\ PointOf(m).name = m.name
    BY <1>1 DEF PubInv, HistInv, PointOf
  <1>6. pub.new = pub.sh4 \cup pub.multi
    BY <1>1 DEF PubInv, HistInv
  <1>7. ZeroMeansSkipped'
    BY <1>1, <1>2 DEF PubInv, HistInv, ZeroOK, ZeroMeansSkipped
  <1>8. \A l \in BadgeLanes : l \in StepLanes
    BY DEF BadgeLanes, StepLanes, SuffixLanes, Sh4Lanes
  (* A metric of this run is a point of its series. *)
  <1>9. ASSUME NEW l \in StepLanes, NEW a \in Archs \cup {"sh4"},
               a = "sh4" \/ l \in SuffixLanes,
               NEW m \in pub.new, m.name = Name(l, a)
        PROVE  PointsOf(run, l, a)' # {}
    <2>1. Series(PointOf(m)) = <<l, a>>
      BY <1>5, <1>9, NameType DEF Series
    <2> QED BY <1>1, <1>2, <1>5, <2>1 DEF PointsOf
  <1>10. BadgesMatchHistory'
    <2> SUFFICES ASSUME NEW l \in BadgeLanes \ {"sh-sim"}
                 PROVE  (pub.badge[l] = "failing") <=> (PointsOf(run, l, "sh4")' = {})
      BY <1>1, <1>2 DEF BadgesMatchHistory
    <2>1. CASE pub.sh4 = Absent
      <3>1. pub.badge[l] = "failing"
        BY <1>1, <2>1 DEF PubInv, BadgeInv
      <3>2. ASSUME NEW p \in pub.hist, p.run = run PROVE Series(p) # <<l, "sh4">>
        <4>1. PICK m \in pub.new : p = PointOf(m)
          BY <1>1, <3>2 DEF PubInv, HistInv
        <4>2. m \in art.multi
          BY <1>6, <2>1 DEF PubInv, FetchedInv, Absent
        <4>3. ArchOf(m.name) \in Archs
          BY <4>2, MultiFile
        <4> QED BY <4>1, <4>3, <1>5, BenchStepsType DEF Series
      <3> QED BY <1>1, <1>2, <3>1, <3>2 DEF PointsOf
    <2>2. CASE pub.sh4 # Absent
      <3>1. pub.badge[l] # "failing"
        BY <1>1, <2>2 DEF PubInv, BadgeInv
      <3>2. PICK m \in pub.sh4 : m.name = Name(l, "sh4")
        BY <1>1, <2>2 DEF PubInv, BadgeInv
      <3> QED BY <1>6, <1>8, <1>9, <3>1, <3>2
    <2> QED BY <2>1, <2>2
  <1>11. ASSUME "download" \notin Faults PROVE PanelsAgree'
    <2>1. /\ pub.sum = art.sum /\ pub.sh4 = art.sh4 /\ (art.sh4 # Absent => art.sum)
          /\ art.sum /\ art.sh4 = Absent => DiedUploading
      BY <1>1, <1>4, <1>11 DEF PubInv, FetchedInv, JobsInv, ArtInv
    <2>2. pub.flag = ~pub.sum /\ pub.lra = (pub.sh4 # Absent)
      BY <1>1 DEF PubInv, FetchedInv
    <2>3. pub.sh4 = Absent => \A l \in BadgeLanes : pub.badge[l] = "failing"
      BY <1>1 DEF PubInv, BadgeInv
    <2>4. pub.sh4 # Absent => \E l \in BadgeLanes : pub.badge[l] # "failing"
      <3>1. "dejagnu" \in BadgeLanes \ {"sh-sim"}
        BY CiFullAssumption DEF BadgeLanes
      <3> QED BY <1>1, <3>1 DEF PubInv, BadgeInv
    <2>5. pub.flag \in BOOLEAN /\ pub.sum \in BOOLEAN /\ pub.lra \in BOOLEAN
      BY <1>1 DEF PubType
    <2>6. (pub.flag => pub.sh4 = Absent) /\ (~pub.flag /\ pub.sh4 = Absent => DiedUploading)
      BY <2>1, <2>2, <2>5
    <2>7. pub.lra <=> pub.sh4 # Absent
      BY <2>2
    <2>8. DiedUploading <=> \E why \in {"timeout", "upload"} :
                              <<site'.run, "sh4", "job", why>> \in failures'
      BY <1>1, <1>2 DEF DiedUploading
    <2> QED BY <1>2, <2>3, <2>4, <2>6, <2>7, <2>8 DEF PanelsAgree
  <1>12. ASSUME "download" \notin Faults PROVE WorkingArchAdvances'
    <2>1. pub.new = art.sh4 \cup art.multi
      BY <1>1, <1>6, <1>12 DEF PubInv, FetchedInv
    <2>2. \A a : Healthy(a)' <=> Healthy(a)
      BY <1>1 DEF Healthy
    <2>3. ASSUME NEW a \in Archs, Healthy(a), NEW l \in LanesOn(a)
          PROVE  PointsOf(run, l, a)' # {}
      <3>1. l \in SuffixLanes /\ l \in StepLanes
        BY BenchStepsType DEF LanesOn
      <3>2. PICK m \in art.multi : m.name = Name(l, a)
        BY <1>1, <1>4, <1>12, <2>3 DEF JobsInv, ArtInv
      <3> QED BY <1>9, <2>1, <3>1, <3>2
    <2>4. ASSUME Healthy("sh4"), NEW l \in LanesOf(Sh4Steps)
          PROVE  PointsOf(run, l, "sh4")' # {}
      <3>1. l \in StepLanes
        BY DEF LanesOf
      <3>2. PICK m \in art.sh4 : m.name = Name(l, "sh4")
        BY <1>1, <1>4, <2>4 DEF JobsInv, ArtInv
      <3> QED BY <1>9, <2>1, <3>1, <3>2
    <2> QED BY <1>1, <2>2, <2>3, <2>4 DEF WorkingArchAdvances
  <1>13. SiteInv'
    <2>1. \A p \in site'.hist : p.run <= site'.run /\ p.name \in Names
      BY <1>1, <1>2 DEF PubInv, HistInv
    <2>2. site'.run <= run'
      BY <1>1, <1>2, <1>4
    <2> QED BY <1>3, <1>7, <1>10, <1>11, <1>12, <2>1, <2>2 DEF SiteInv
  <1>14. FetchedInv' /\ HistInv' /\ BadgeInv'
    BY <1>1, <1>3 DEF PubInv, FetchedInv, HistInv, BadgeInv
  <1> QED BY <1>13, <1>14 DEF PubInv

LEMMA PubStep == CiTypeOK /\ JobsInv /\ PubInv /\ [Next]_vars => PubInv'
  <1> SUFFICES ASSUME CiTypeOK, JobsInv, PubInv, [Next]_vars PROVE PubInv'
    OBVIOUS
  <1>1. CASE PublishJob
    BY <1>1, FetchPub, SeedPub, MigratePub, MergePub, StorePub, BadgesPub, DeployPub
       DEF PublishJob
  <1>2. CASE Cancel
    <2>1. /\ pub'.pc = "done" /\ pub'.sh4 = pub.sh4 /\ pub'.multi = pub.multi
          /\ UNCHANGED <<run, site, art, built, failures>>
      BY <1>2 DEF Cancel, CiTypeOK, PubType
    <2> QED BY <2>1, PubOver
  <1>3. CASE UNCHANGED vars
    <2>1. UNCHANGED <<run, site, art, built, failures, pub>>
      BY <1>3 DEF vars
    <2>2. FetchedInv' /\ HistInv' /\ BadgeInv'
      BY <2>1 DEF PubInv, FetchedInv, HistInv, BadgeInv, ZeroOK, PointOf
    <2> QED BY <2>1, <2>2, SiteSame DEF PubInv
  <1> QED BY <1>1, <1>2, <1>3, NewRunPub, JobsPub DEF Next

LEMMA PubSound == Spec => []PubInv
  BY CiTyped, JobsSound, PubInit, PubStep, PTL DEF Spec

-----------------------------------------------------------------------------
(* Theorems *)

(* Every metric file holds a value merge-metrics.py accepts, and no point   *)
(* of the published history is of a run that did not start: what the jobs   *)
(* and the publish job of ci-full leave is well formed in every state.      *)
THEOREM CiFullTypeOK == Spec => []TypeOK
  <1>1. CiTypeOK /\ PubInv => TypeOK
    <2> SUFFICES ASSUME CiTypeOK, PubInv PROVE TypeOK
      OBVIOUS
    <2>1. sh4.pc \in 1..(Len(Sh4Steps) + 1) /\ sh4.files \subseteq StepLanes \X Vals
      BY DEF CiTypeOK, Sh4Type
    <2>2. /\ bench.pc \in 0..(Len(BenchSteps) + 1) /\ bench.have \subseteq Archs
          /\ bench.files \subseteq StepLanes \X Vals \X Archs
      BY DEF CiTypeOK, BenchType
    <2>3. pub.badge \in BadgeBoard
      BY DEF CiTypeOK, PubType
    <2>4. site.hist \subseteq Point /\ site.run \in 0..MaxRuns /\ run \in 0..MaxRuns
      BY DEF CiTypeOK, SiteType
    <2>5. \A p \in site.hist : p.run \in 0..run /\ p.val \in Vals
      BY <2>4, CiFullAssumption DEF Point, PubInv, SiteInv
    <2> QED BY <2>1, <2>2, <2>3, <2>5 DEF CiTypeOK, TypeOK, BadgeBoard
  <1> QED BY <1>1, CiTyped, PubSound, PTL

(* Of a lane that fails hard (fail_hard of the busybox and musl scripts,    *)
(* make under set -e for CoreMark) no published zero stands for a compile   *)
(* that broke, whatever fails, times out or is lost, in this run or later.  *)
THEOREM ZeroIsNeverABrokenCompile == Spec => []ZeroMeansSkipped
  <1>1. PubInv => ZeroMeansSkipped
    BY DEF PubInv, SiteInv
  <1> QED BY <1>1, PubSound, PTL

(* A badge other than sh-sim's says "build failing" exactly when the run    *)
(* deployed stored no point of its lane: the badge step of publish reads    *)
(* the artifact, the chart its history, and they do not part.               *)
THEOREM BadgesTellTheHistory == Spec => []BadgesMatchHistory
  <1>1. PubInv => BadgesMatchHistory
    BY DEF PubInv, SiteInv
  <1> QED BY <1>1, PubSound, PTL

(* Once this code has deployed, a series has one name in the history, in    *)
(* whichever of its older forms migrate-benchmark-data.py found it.         *)
THEOREM SeriesAreNotSplit == Spec => []OneNamePerSeries
  <1>1. PubInv => OneNamePerSeries
    <2> SUFFICES ASSUME PubInv, site.run > 0, NEW p \in site.hist, NEW q \in site.hist,
                        Series(p) = Series(q)
                 PROVE  p.name = q.name
      BY DEF OneNamePerSeries
    <2>1. p.name \in Names /\ q.name \in Names
      BY DEF PubInv, SiteInv
    <2>2. p.name.lane = q.name.lane /\ ArchOf(p.name) = ArchOf(q.name)
      BY DEF Series
    <2> QED BY <2>1, <2>2, NameOfSeries
  <1> QED BY <1>1, PubSound, PTL

(* When every artifact download of publish is answered, the parts of a page *)
(* agree: the badges all fail exactly when the LRA results are absent, the  *)
(* dejagnu panel is flagged only then, and it is not flagged then only if   *)
(* the sh4 job died between the uploads of gcc.sum and of the metrics.      *)
THEOREM PageIsOfOnePiece == ASSUME "download" \notin Faults PROVE Spec => []PanelsAgree
  <1>1. PubInv => PanelsAgree
    BY DEF PubInv, SiteInv
  <1> QED BY <1>1, PubSound, PTL

(* When every artifact download is answered, an architecture whose lanes    *)
(* all worked has a point of this run in each of its series once the run is *)
(* deployed, whatever became of the other architectures' builds and lanes.  *)
THEOREM NoArchHoldsAnotherBack ==
    ASSUME "download" \notin Faults PROVE Spec => []WorkingArchAdvances
  <1>1. PubInv => WorkingArchAdvances
    BY DEF PubInv, SiteInv
  <1> QED BY <1>1, PubSound, PTL

(* When the published history can be fetched to seed the new one, no step   *)
(* loses a point of the site: a deployment, of whatever partial run, keeps  *)
(* the content of the history before it (the seed step of publish).         *)
THEOREM DeploymentKeepsHistory == ASSUME "seed" \notin Faults PROVE Spec => HistoryKept
  <1>1. PubInv /\ [Next]_vars => [Content(site.hist) \subseteq Content(site'.hist)]_vars
    <2> SUFFICES ASSUME PubInv, [Next]_vars
                 PROVE  Content(site.hist) \subseteq Content(site'.hist)
      OBVIOUS
    <2>1. CASE Deploy
      <3>1. pub.pc \in Seeded /\ site'.hist = pub.hist
        BY <2>1 DEF Deploy, At, Seeded, Staged, Migrated, Merged, Stored
      <3> QED BY <3>1 DEF PubInv, HistInv
    <2>2. CASE site' = site
      BY <2>2
    <2>3. Deploy \/ site' = site
      BY DEF Next, vars, NewRun, Sh4Job, SkipStep, BuildSh4, BuildMultilib, MeasureSh4,
             BuildShElf, RunShSim, ParseStep, MergeAll, UploadSum, StageResults,
             StashMetrics, EndFails, BenchJobs, BuildArch,
             BenchStart, BenchLane, BenchFinish, Sh4TimesOut, BenchTimesOut, Cancel,
             PublishJob, StartPublish, Fetch, Extract, Seed, StageLra, Migrate, Merge,
             Store, Badges
    <2> QED BY <2>1, <2>2, <2>3
  <1> QED BY <1>1, PubSound, PTL DEF Spec, HistoryKept

=============================================================================
