-------------------------- MODULE BisectingMonitor --------------------------
(***************************************************************************)
(* The loop of Monitor with its bisects run as searches.  ShRegression lets *)
(* a bisect come back with any commit of the range; here the watchdog      *)
(* starts git bisect run between the ends it found and waits for it, while *)
(* upstream, the other runs and people go on.  What the search may do is    *)
(* what FirstBad promises, and ShBisect is shown to keep that promise.      *)
(*                                                                         *)
(* So the module says what the issue says: who is to blame, and between    *)
(* which commits the failure came in, in terms of what the commits really  *)
(* do.  What script failures do at other commits than the two of the range *)
(* is unknown to the code and to the model.                                *)
(***************************************************************************)
EXTENDS Monitor

CONSTANTS
    Matched,         \* the tests whose FAIL lines grep finds when it looks for one test
    PredicateFaults  \* what may go wrong in the predicate, of "net", "nosum" and "flaky" (ShBisect)

(* grep finds at least the line it looks for. *)
ASSUME BisectingAssumption ==
    /\ Matched \in [DjTests \cup SimTests -> SUBSET (DjTests \cup SimTests)]
    /\ \A t \in DjTests \cup SimTests : t \in Matched[t]
    /\ PredicateFaults \subseteq {"net", "nosum", "flaky"}

VARIABLES
    class,    \* what the predicate answers of each commit of this search's range
    lo, hi,   \* refs/bisect/good-*, refs/bisect/bad
    outcome   \* how the search stands

searchVars == <<class, lo, hi, outcome>>
bVars == <<allVars, searchVars>>

FB == INSTANCE FirstBad WITH
          Commits <- Commit, Ranges <- {r \in Commit \X Commit : r[1] < r[2]}

(* The search's ends are commits, and its classes those of FirstBad.        *)
BTypeOK ==
    /\ MTypeOK
    /\ class \in [Commit -> FB!Classes]
    /\ lo \in 0..MaxCommit /\ hi \in 0..MaxCommit
    /\ outcome \in {"idle", "running"} \cup FB!Ends

BInit ==
    /\ MInit
    /\ class = [c \in Commit |-> "untestable"]
    /\ lo = 0 /\ hi = 0 /\ outcome = "idle"

-----------------------------------------------------------------------------
(* sh-bisect-predicate.sh *)

FailsAt(type, c) == IF type = "dejagnu" THEN truth[c].dj ELSE truth[c].sim

(* The build fails, or grep finds one of the regressed tests.  The dejagnu  *)
(* arm looks for the whole line of the test, the sh-sim arm only for its    *)
(* file: any failure of that file will do.                                  *)
Shows(type, tests, c) ==
    IF type = "build" THEN ~ truth[c].builds
    ELSE \E t \in tests : Matched[t] \cap FailsAt(type, c) # {}

\* Variant: a commit that does not build is bad for every type.
ClassesBuildFailureIsBad(type, tests, c) ==
    {IF ~ truth[c].builds \/ Shows(type, tests, c) THEN "bad" ELSE "good"}

(* Only the build type judges a commit that does not build, the others skip *)
(* it.  So they do when the sh-elf compiler of the sh-sim arm does not      *)
(* build, or the dejagnu run leaves nothing to judge by.  What a script     *)
(* finds in a commit that builds is unknown.                                *)
ClassesOf(type, tests, c) ==
    IF type = "build" THEN {IF Shows(type, tests, c) THEN "bad" ELSE "good"}
    ELSE IF ~ truth[c].builds THEN {"untestable"}
    ELSE IF type = "script" THEN {"good", "bad"}
    ELSE {"untestable", IF Shows(type, tests, c) THEN "bad" ELSE "good"}

(* A fetch that fails is a build that fails.  Without a sum the sh-sim arm  *)
(* finds no failure, and the dejagnu arm reads that of the commit before.   *)
(* A failure that comes and goes may be either when the predicate looks.    *)
FaultyClasses(type, c) ==
    {r \in FB!Classes :
        \/ "net" \in PredicateFaults /\ r = (IF type = "build" THEN "bad" ELSE "untestable")
        \/ /\ "nosum" \in PredicateFaults /\ truth[c].builds
           /\ (r = "good" /\ type \in TestTypes) \/ (r = "bad" /\ type = "dejagnu")
        \/ /\ "flaky" \in PredicateFaults /\ truth[c].builds /\ type # "build"
           /\ r \in {"good", "bad"}}

(* What the predicate may answer between the ends good and bad: git asks    *)
(* nothing of any other commit.                                             *)
Answers(type, tests, good, bad) ==
    {f \in [Commit -> FB!Classes] :
        \A c \in Commit :
            f[c] \in IF good < c /\ c < bad
                     THEN ClassesOf(type, tests, c) \cup FaultyClasses(type, c)
                     ELSE {"untestable"}}

-----------------------------------------------------------------------------
(* The Bisect step *)

(* git bisect start "$BAD" "$GOOD"; git bisect run: git tests neither end.  *)
StartSearch ==
    /\ job.pc = "bisect" /\ outcome # "running" /\ Bisectable
    /\ job.good + 1 < job.commit
    /\ outcome' = "running" /\ lo' = job.good /\ hi' = job.commit
    /\ class' \in Answers(job.type, job.tests, lo', hi')
    /\ UNCHANGED allVars

(* Of a range of one commit, git bisect start names the culprit, to a log   *)
(* nobody reads, and checks nothing out: git bisect run tests the head of   *)
(* upstream that was cloned, and a bad head is the new bad end.  git        *)
(* refuses a good head, which ends the search (NoSearch).                   *)
StartSearchAtHead ==
    /\ job.pc = "bisect" /\ outcome # "running" /\ Bisectable
    /\ job.good + 1 = job.commit
    /\ outcome' = "running" /\ lo' = job.good
    /\ class' \in Answers(job.type, job.tests, lo', upstream + 1)
    /\ class'[upstream] # "good"
    /\ hi' = IF class'[upstream] = "bad" THEN upstream ELSE job.commit
    /\ UNCHANGED allVars

SearchMoves == (FB!RaiseGood \/ FB!LowerBad) /\ UNCHANGED allVars

(* The step is over and the job goes on to file what it knows.              *)
Report(culprit, narrowed) ==
    /\ job' = [job EXCEPT !.pc = "file", !.culprit = culprit, !.narrowed = narrowed]
    /\ UNCHANGED <<runs, issues, pend, dispatches, syncVars, truth>>

(* "<sha> is the first bad commit" *)
SearchNames == FB!Name /\ Report(hi, 0)

\* Variant: the good end is reported when the time is up.
SearchGivesUpAtGood ==
    FB!GiveUp /\ Report(0, IF outcome' = "exhausted" THEN lo ELSE 0)

(* timeout 300m: refs/bisect/bad is reported; or git names no culprit.      *)
SearchGivesUp ==
    FB!GiveUp /\ Report(0, IF outcome' = "exhausted" THEN hi ELSE 0)

(* The time is up before that test of upstream's head is over.              *)
HeadTakesTooLong ==
    /\ job.pc = "bisect" /\ outcome # "running" /\ Bisectable
    /\ job.good + 1 = job.commit
    /\ Report(0, job.commit)
    /\ UNCHANGED searchVars

(* An empty range, no reproduce command, or git fails before any move: the  *)
(* step is continue-on-error.                                               *)
NoSearch ==
    /\ job.pc = "bisect" /\ outcome # "running"
    /\ Report(0, 0)
    /\ UNCHANGED searchVars

-----------------------------------------------------------------------------
(* Everything else *)

(* The other steps of the job. *)
OtherJobStep ==
    /\ \/ DetectSuccess \/ DetectFailure \/ DetectCancelled
       \/ AutoClose \/ Dedup \/ Bound \/ File
    /\ UNCHANGED <<syncVars, truth, searchVars>>

(* What goes on around the job, a search under way or not.                  *)
Around ==
    /\ \/ UpstreamCommit \/ SyncCheck \/ OtherPush \/ SyncPush \/ PushRejected
       \/ Retrigger \/ TestRun \/ ConcludeRun
    /\ UNCHANGED searchVars

(* What comes from outside.  A job that dies takes its search with it.      *)
Outside ==
    /\ Interference
    /\ outcome' = IF outcome = "running" /\ job'.pc # "bisect" THEN "exhausted" ELSE outcome
    /\ UNCHANGED <<class, lo, hi>>

BNext ==
    \/ StartSearch
    \/ StartSearchAtHead
    \/ SearchMoves
    \/ SearchNames
    \/ SearchGivesUp
    \/ HeadTakesTooLong
    \/ NoSearch
    \/ OtherJobStep
    \/ Around
    \/ Outside

BSpec == BInit /\ [][BNext]_bVars

(* The fairness of Monitor; a search ends, for its time does.               *)
BFairSpec ==
    /\ BSpec
    /\ WF_bVars(SyncCheck /\ UNCHANGED searchVars)
    /\ WF_bVars(PushRejected /\ UNCHANGED searchVars)
    /\ SF_bVars(SyncPush /\ UNCHANGED searchVars)
    /\ WF_bVars((TestRun \/ ConcludeRun) /\ UNCHANGED searchVars)
    /\ WF_bVars(OtherJobStep \/ SearchNames \/ SearchGivesUp \/ HeadTakesTooLong \/ NoSearch)

-----------------------------------------------------------------------------
(* Properties *)

(* A search, however long and whatever goes on around it, comes back with   *)
(* what ShRegression lets its one Bisect step come back with.               *)
RefinesMonitor == MSpec

(* The failures whose truth is known of every commit. *)
Judged == {"build"} \cup TestTypes

(* Who is blamed shows what the predicate looks for, and the commit before  *)
(* builds and does not show it, unless the good end already did.            *)
BroughtIn(x) ==
    x.culprit # 0 /\ x.type \in Judged =>
        /\ Shows(x.type, x.tests, x.culprit)
        /\ truth[x.culprit - 1].builds
        /\ ~ Shows(x.type, x.tests, x.good) => ~ Shows(x.type, x.tests, x.culprit - 1)

(* The end a search without time left still shows what was looked for.      *)
NarrowedShows(x) ==
    x.narrowed # 0 /\ x.type \in Judged => Shows(x.type, x.tests, x.narrowed)

(* The good end builds and passes what is reported, the bad end does not    *)
(* build or fails all of it.                                                *)
EndsDiffer(x) ==
    x.goodRun # 0 /\ x.bad # 0 /\ x.type \in Judged =>
        /\ truth[x.good].builds
        /\ x.type = "build" => ~ truth[x.bad].builds
        /\ x.type \in TestTypes =>
              /\ x.tests # {} /\ x.tests \subseteq FailsAt(x.type, x.bad)
              /\ x.tests \cap FailsAt(x.type, x.good) = {}

(* "Bisected to": the commit an issue blames brought the failure in, though *)
(* the search ran for hours on ends it never tested.                        *)
CulpritBroughtItIn == \A k \in DOMAIN issues : BroughtIn(issues[k])

(* The range an issue names bounds the failure, narrowed or not: three      *)
(* readings of the run history, a delta and a search agree on the commits.  *)
RangeBoundsTheFailure ==
    \A k \in DOMAIN issues : EndsDiffer(issues[k]) /\ NarrowedShows(issues[k])

=============================================================================
