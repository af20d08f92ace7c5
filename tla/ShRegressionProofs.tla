------------------------- MODULE ShRegressionProofs -------------------------
(***************************************************************************)
(* Proofs about ShRegression, for every number of commits, runs and        *)
(* dispatches, every page size and every set of faults.                    *)
(*                                                                         *)
(* First the type invariant, with one lemma per action that also says what *)
(* the action does to the histories; then the inductive invariant IInv and *)
(* its consequences: one open issue at a time, closings that come later    *)
(* than filings, and ranges that point forward.                            *)
(*                                                                         *)
(* Last the evidence: EvInv follows what a job knows of the sums of its    *)
(* run and of the last green one from detection to the issue.  From it: a  *)
(* quiet watchdog had nothing new to report, and the tests an issue names  *)
(* passed at the good end of its range.                                    *)
(***************************************************************************)
EXTENDS ShRegression, SequenceTheorems, TLAPS

-----------------------------------------------------------------------------
(* Sequences and types *)

(* A function on 1..n is a sequence of length n. *)
LEMMA FunctionIsSeq ==
    ASSUME NEW S, NEW n \in Nat, NEW f \in [1..n -> S]
    PROVE  f \in Seq(S) /\ Len(f) = n
  <1>1. f \in Seq(S)
    BY SeqDef
  <1>2. DOMAIN f = 1..n /\ DOMAIN f = 1..Len(f) /\ Len(f) \in Nat
    BY <1>1, LenProperties
  <1> QED BY <1>1, <1>2

(* Replacing one element keeps the type, the length and the domain. *)
LEMMA SeqUpdate ==
    ASSUME NEW S, NEW s \in Seq(S), NEW i \in DOMAIN s, NEW e \in S
    PROVE  /\ [s EXCEPT ![i] = e] \in Seq(S)
           /\ Len([s EXCEPT ![i] = e]) = Len(s)
           /\ DOMAIN [s EXCEPT ![i] = e] = DOMAIN s
  <1>1. s \in [1..Len(s) -> S] /\ Len(s) \in Nat
    BY LenProperties
  <1>2. [s EXCEPT ![i] = e] \in [1..Len(s) -> S]
    BY <1>1
  <1> QED BY <1>1, <1>2, FunctionIsSeq

(* sh-regression-detect.py always answers one of the five types. *)
LEMMA ClassifyType ==
    ASSUME NEW r, NEW s, NEW d, NEW m
    PROVE  Classify(r, s, d, m) \in Types
  BY Zenon DEF Classify, Types

(* A job called by a ci-full run names that run. *)
RunsNamed == \A j \in {job, pend} : j.kind = "call" => j.run \in DOMAIN runs

(* The empty place of the group is a job without a run. *)
LEMMA NoJobType == NoJob \in Job /\ NoJob.kind = "none" /\ NoJob.pc = "idle"
  <1>1. NoJob = [NewJob("none", 0, 0, "cancelled") EXCEPT !.pc = "idle"]
    BY DEF NoJob
  <1>2. NewJob("none", 0, 0, "cancelled") \in Job
    BY RegressionAssumption DEF NewJob, Job, Pcs, Types, Results
  <1>3. NewJob("none", 0, 0, "cancelled").kind = "none"
    BY DEF NewJob
  <1> QED BY <1>1, <1>2, <1>3 DEF Job, Pcs

(* A job that joins the group is well typed. *)
LEMMA NewJobType ==
    ASSUME NEW k \in {"call", "dispatch"}, NEW i \in 0..MaxRuns,
           NEW c \in 0..MaxCommit, NEW r \in Results
    PROVE  NewJob(k, i, c, r) \in Job
  BY RegressionAssumption DEF NewJob, Job, Pcs, Types, Results

TypeInv == TypeOK /\ RunsNamed

(* TypeInv holds before the first run. *)
LEMMA TypeInit == Init => TypeInv
  BY NoJobType, RegressionAssumption DEF Init, TypeInv, TypeOK, RunsNamed

(* Joining the group keeps the types, whichever place the job takes. *)
LEMMA JoinGroupType ==
    ASSUME TypeInv, NEW j \in Job, JoinGroup(j),
           j.kind = "call" => j.run \in DOMAIN runs', DOMAIN runs' = DOMAIN runs
    PROVE  job' \in Job /\ pend' \in Job /\ RunsNamed'
  BY DEF TypeInv, TypeOK, RunsNamed, JoinGroup

(* A step that replaces one run by another. *)
LEMMA RunUpdateType ==
    ASSUME TypeInv, NEW i \in DOMAIN runs, NEW r \in Run, runs' = [runs EXCEPT ![i] = r]
    PROVE  runs' \in Seq(Run) /\ Len(runs') <= MaxRuns /\ DOMAIN runs' = DOMAIN runs
  BY SeqUpdate DEF TypeInv, TypeOK

(* An element of the run history and its index are well typed. *)
LEMMA RunType ==
    ASSUME TypeInv, NEW i \in DOMAIN runs
    PROVE  /\ runs[i] \in Run /\ i \in 1..Len(runs) /\ i \in 0..MaxRuns
           /\ runs[i].commit \in 1..MaxCommit
  <1>1. runs \in Seq(Run) /\ Len(runs) <= MaxRuns
    BY DEF TypeInv, TypeOK
  <1>2. i \in 1..Len(runs) /\ Len(runs) \in Nat
    BY <1>1, LenProperties
  <1>3. runs[i] \in Run
    BY <1>1, <1>2, ElementOfSeq
  <1>4. runs[i].commit \in 1..MaxCommit
    BY <1>3 DEF Run, Commit
  <1> QED BY <1>1, <1>2, <1>3, <1>4, RegressionAssumption

(* A run that is queued is well typed. *)
LEMMA NewRunType == ASSUME NEW c \in Commit PROVE NewRun(c) \in Run
  BY DEF NewRun, Run, Results, FailedSteps, Verdicts

(* Enqueue appends a run and cancels the waiting ones. *)
LEMMA EnqueueType ==
    ASSUME TypeInv, NEW c \in Commit, Enqueue(c)
    PROVE  /\ TypeInv' /\ Len(runs') = Len(runs) + 1
           /\ runs'[Len(runs) + 1] = NewRun(c)
           /\ \A i \in DOMAIN runs :
                runs'[i] = IF Waiting(i)
                           THEN [runs[i] EXCEPT !.conclusion = "cancelled",
                                                !.verdict = "cancelled"]
                           ELSE runs[i]
  <1> DEFINE old(i) == IF Waiting(i)
                       THEN [runs[i] EXCEPT !.conclusion = "cancelled",
                                            !.verdict = "cancelled"]
                       ELSE runs[i]
             olds == [i \in DOMAIN runs |-> old(i)]
  <1>1. runs' = Append(olds, NewRun(c)) /\ Len(runs) < MaxRuns
        /\ UNCHANGED <<issues, job, pend, dispatches>>
    BY DEF Enqueue, Queue
  <1>2. ASSUME NEW i \in DOMAIN runs PROVE old(i) \in Run
    <2>1. runs[i] \in Run BY RunType
    <2>2. [runs[i] EXCEPT !.conclusion = "cancelled", !.verdict = "cancelled"] \in Run
      BY <2>1 DEF Run, Verdicts
    <2> QED BY <2>1, <2>2
  <1>3. DOMAIN runs = 1..Len(runs) /\ Len(runs) \in Nat
    BY LenProperties DEF TypeInv, TypeOK
  <1>4. olds \in Seq(Run) /\ Len(olds) = Len(runs)
    <2>1. olds \in [1..Len(runs) -> Run]
      BY <1>2, <1>3
    <2> HIDE DEF olds
    <2> QED BY <1>3, <2>1, FunctionIsSeq
  <1>5. \A i \in DOMAIN runs : olds[i] = old(i)
    OBVIOUS
  <1> HIDE DEF old, olds
  <1>6. /\ runs' \in Seq(Run) /\ Len(runs') = Len(runs) + 1
        /\ runs'[Len(runs) + 1] = NewRun(c)
        /\ \A i \in 1..Len(runs) : runs'[i] = olds[i]
    BY <1>1, <1>3, <1>4, NewRunType
  <1>7. TypeInv'
    BY <1>1, <1>3, <1>6, RegressionAssumption, LenProperties DEF TypeInv, TypeOK, RunsNamed
  <1> QED BY <1>3, <1>5, <1>6, <1>7 DEF old

(* What the other actions do to the runs: one run, if any, is replaced. *)
LEMMA BuildDoneEffect ==
    ASSUME TypeInv, NEW i \in DOMAIN runs, BuildDone(i)
    PROVE  /\ TypeInv' /\ issues' = issues
           /\ \E r \in Run : /\ runs' = [runs EXCEPT ![i] = r]
                             /\ r.commit = runs[i].commit /\ r.result # "pending"
                             /\ r.conclusion = runs[i].conclusion
                             /\ r.verdict = runs[i].verdict
           /\ \E c \in {0, runs[i].commit}, q \in Results :
                JoinGroup(NewJob("call", i, c, q))
  <1>1. PICK o \in Outcomes :
          /\ runs' = [runs EXCEPT ![i] = BuildOutcome(i, o)]
          /\ JoinGroup(NewJob("call", i, IF o.step = "early" THEN 0 ELSE runs[i].commit,
                              o.result))
    BY DEF BuildDone
  <1>2. /\ o.result \in Results /\ o.step \in FailedSteps \cup {""}
        /\ o.dj \in SUBSET DjTests /\ o.sim \in SUBSET SimTests /\ o.simArt \in BOOLEAN
    BY DEF Outcomes, Results
  <1>3. runs[i] \in Run /\ i \in 0..MaxRuns /\ runs[i].commit \in 1..MaxCommit
    BY RunType
  <1> DEFINE r == BuildOutcome(i, o)
             c == IF o.step = "early" THEN 0 ELSE runs[i].commit
  <1>4. r \in Run
    BY <1>2, <1>3 DEF BuildOutcome, Run
  <1>5. /\ r.commit = runs[i].commit /\ r.result = o.result
        /\ r.conclusion = runs[i].conclusion /\ r.verdict = runs[i].verdict
    BY <1>3 DEF BuildOutcome, Run
  <1>6. NewJob("call", i, c, o.result) \in Job /\ NewJob("call", i, c, o.result).run = i
    <2>1. c \in 0..MaxCommit
      BY <1>3, RegressionAssumption
    <2> QED BY <1>2, <1>3, <2>1, NewJobType DEF NewJob
  <1> HIDE DEF r, c
  <1>7. runs' \in Seq(Run) /\ Len(runs') <= MaxRuns /\ DOMAIN runs' = DOMAIN runs
    BY <1>1, <1>4, RunUpdateType DEF r
  <1>8. job' \in Job /\ pend' \in Job /\ RunsNamed'
    BY <1>1, <1>6, <1>7, JoinGroupType DEF c
  <1>9. issues' = issues /\ dispatches' = dispatches
    BY DEF BuildDone
  <1>10. TypeInv'
    BY <1>7, <1>8, <1>9 DEF TypeInv, TypeOK
  <1>11. r.result # "pending"
    BY <1>2, <1>5 DEF Results
  <1>12. c \in {0, runs[i].commit}
    BY DEF c
  <1> QED BY <1>1, <1>2, <1>4, <1>5, <1>9, <1>10, <1>11, <1>12 DEF r, c

(* Conclude gives one run a conclusion and nothing else. *)
LEMMA ConcludeEffect ==
    ASSUME TypeInv, NEW i \in DOMAIN runs, Conclude(i)
    PROVE  /\ TypeInv' /\ UNCHANGED <<issues, job, pend>>
           /\ \E r \in Run : /\ runs' = [runs EXCEPT ![i] = r]
                             /\ r.commit = runs[i].commit /\ r.result = runs[i].result
                             /\ r.conclusion # "none" /\ r.verdict = runs[i].verdict
  <1>1. PICK x \in {"cancelled", "completed"} : runs' = [runs EXCEPT ![i].conclusion = x]
    BY DEF Conclude
  <1>2. runs[i] \in Run
    BY RunType
  <1> DEFINE r == [runs[i] EXCEPT !.conclusion = x]
  <1>3. /\ r \in Run /\ r.commit = runs[i].commit /\ r.result = runs[i].result
        /\ r.conclusion # "none" /\ r.verdict = runs[i].verdict
    BY <1>2 DEF Run
  <1>4. runs' = [runs EXCEPT ![i] = r]
    BY <1>1
  <1> HIDE DEF r
  <1>5. runs' \in Seq(Run) /\ Len(runs') <= MaxRuns /\ DOMAIN runs' = DOMAIN runs
    BY <1>3, <1>4, RunUpdateType
  <1>6. UNCHANGED <<issues, job, pend, dispatches>>
    BY DEF Conclude
  <1>7. TypeInv'
    BY <1>5, <1>6 DEF TypeInv, TypeOK, RunsNamed
  <1> QED BY <1>3, <1>4, <1>6, <1>7

(* Expiry leaves the standing of every run as it is. *)
LEMMA ExpireEffect ==
    ASSUME TypeInv, NEW i \in DOMAIN runs, Expire(i)
    PROVE  /\ TypeInv' /\ UNCHANGED <<issues, job, pend>>
           /\ \E r \in Run : /\ runs' = [runs EXCEPT ![i] = r]
                             /\ r.commit = runs[i].commit /\ r.result = runs[i].result
                             /\ r.conclusion = runs[i].conclusion
                             /\ r.verdict = runs[i].verdict
  <1>1. runs[i] \in Run
    BY RunType
  <1> DEFINE r == [runs[i] EXCEPT !.djArt = FALSE, !.simArt = FALSE]
  <1>2. /\ r \in Run /\ r.commit = runs[i].commit /\ r.result = runs[i].result
        /\ r.conclusion = runs[i].conclusion /\ r.verdict = runs[i].verdict
    BY <1>1 DEF Run
  <1>3. runs' = [runs EXCEPT ![i] = r]
    BY DEF Expire
  <1> HIDE DEF r
  <1>4. runs' \in Seq(Run) /\ Len(runs') <= MaxRuns /\ DOMAIN runs' = DOMAIN runs
    BY <1>2, <1>3, RunUpdateType
  <1>5. UNCHANGED <<issues, job, pend, dispatches>>
    BY DEF Expire
  <1>6. TypeInv'
    BY <1>4, <1>5 DEF TypeInv, TypeOK, RunsNamed
  <1> QED BY <1>2, <1>3, <1>5, <1>6

(* Setting the verdict of a run leaves the rest of it alone. *)
LEMMA VerdictEffect ==
    ASSUME TypeInv, NEW i \in DOMAIN runs, NEW v \in Verdicts,
           runs' = [runs EXCEPT ![i].verdict = v]
    PROVE  /\ runs' \in Seq(Run) /\ Len(runs') <= MaxRuns /\ DOMAIN runs' = DOMAIN runs
           /\ \E r \in Run : /\ runs' = [runs EXCEPT ![i] = r]
                             /\ r.commit = runs[i].commit /\ r.result = runs[i].result
                             /\ r.conclusion = runs[i].conclusion /\ r.verdict = v
  <1>1. runs[i] \in Run
    BY RunType
  <1> DEFINE r == [runs[i] EXCEPT !.verdict = v]
  <1>2. /\ r \in Run /\ r.commit = runs[i].commit /\ r.result = runs[i].result
        /\ r.conclusion = runs[i].conclusion /\ r.verdict = v
    BY <1>1 DEF Run
  <1>3. runs' = [runs EXCEPT ![i] = r]
    OBVIOUS
  <1> HIDE DEF r
  <1> QED BY <1>2, <1>3, RunUpdateType

(* The end of a job sets the verdict of its run, if it has one. *)
LEMMA FinishJobEffect ==
    ASSUME TypeInv, NEW v \in Verdicts, FinishJob(v)
    PROVE  /\ runs' \in Seq(Run) /\ Len(runs') <= MaxRuns /\ DOMAIN runs' = DOMAIN runs
           /\ job' \in Job /\ pend' \in Job /\ RunsNamed'
           /\ job' = pend /\ pend' = NoJob
           /\ \/ job.kind # "call" /\ runs' = runs
              \/ /\ job.kind = "call" /\ job.run \in DOMAIN runs
                 /\ \E r \in Run : /\ runs' = [runs EXCEPT ![job.run] = r]
                                   /\ r.commit = runs[job.run].commit
                                   /\ r.result = runs[job.run].result
                                   /\ r.conclusion = runs[job.run].conclusion
                                   /\ r.verdict = v
  <1>1. job' = pend /\ pend' = NoJob /\ job' \in Job /\ pend' \in Job
    BY NoJobType DEF FinishJob, TypeInv, TypeOK
  <1>2. CASE job.kind # "call"
    <2>1. runs' = runs
      BY <1>2 DEF FinishJob
    <2> QED BY <1>1, <1>2, <2>1, NoJobType DEF TypeInv, TypeOK, RunsNamed
  <1>3. CASE job.kind = "call"
    <2>1. job.run \in DOMAIN runs /\ runs' = [runs EXCEPT ![job.run].verdict = v]
      BY <1>3 DEF FinishJob, TypeInv, RunsNamed
    <2>2. /\ runs' \in Seq(Run) /\ Len(runs') <= MaxRuns /\ DOMAIN runs' = DOMAIN runs
          /\ \E r \in Run : /\ runs' = [runs EXCEPT ![job.run] = r]
                            /\ r.commit = runs[job.run].commit
                            /\ r.result = runs[job.run].result
                            /\ r.conclusion = runs[job.run].conclusion
                            /\ r.verdict = v
      <3>1. PICK i \in DOMAIN runs : i = job.run
        BY <2>1
      <3>2. runs' = [runs EXCEPT ![i].verdict = v]
        BY <2>1, <3>1
      <3>3. /\ runs' \in Seq(Run) /\ Len(runs') <= MaxRuns /\ DOMAIN runs' = DOMAIN runs
            /\ \E r \in Run : /\ runs' = [runs EXCEPT ![i] = r]
                              /\ r.commit = runs[i].commit /\ r.result = runs[i].result
                              /\ r.conclusion = runs[i].conclusion /\ r.verdict = v
        BY <3>2, VerdictEffect
      <3> QED BY <3>1, <3>3
    <2>3. RunsNamed'
      BY <1>1, <2>2, NoJobType DEF TypeInv, RunsNamed
    <2> QED BY <1>1, <1>3, <2>1, <2>2, <2>3
  <1> QED BY <1>2, <1>3

(* A dispatch cancels the watchdog it pushes out of the group, if any. *)
LEMMA DispatchEffect ==
    ASSUME TypeInv, NEW c \in Commit, NEW q \in {"success", "failure"}, Dispatch(c, q)
    PROVE  /\ TypeInv' /\ issues' = issues
           /\ JoinGroup(NewJob("dispatch", 0, c, q))
           /\ \/ runs' = runs /\ (job.pc = "idle" \/ pend.kind # "call")
              \/ /\ pend.kind = "call" /\ pend.run \in DOMAIN runs /\ job.pc # "idle"
                 /\ \E r \in Run : /\ runs' = [runs EXCEPT ![pend.run] = r]
                                   /\ r.commit = runs[pend.run].commit
                                   /\ r.result = runs[pend.run].result
                                   /\ r.conclusion = runs[pend.run].conclusion
                                   /\ r.verdict = "cancelled"
  <1>1. JoinGroup(NewJob("dispatch", 0, c, q)) /\ dispatches' \in 0..MaxDispatch
        /\ issues' = issues
    BY RegressionAssumption DEF Dispatch, TypeInv, TypeOK
  <1>2. NewJob("dispatch", 0, c, q) \in Job /\ NewJob("dispatch", 0, c, q).kind # "call"
    <2>1. 0 \in 0..MaxRuns /\ c \in 0..MaxCommit /\ q \in Results
      BY RegressionAssumption DEF Commit, Results
    <2> QED BY <2>1, NewJobType DEF NewJob
  <1>3. CASE job.pc # "idle" /\ pend.kind = "call"
    <2>1. pend.run \in DOMAIN runs /\ runs' = [runs EXCEPT ![pend.run].verdict = "cancelled"]
      BY <1>3 DEF Dispatch, TypeInv, RunsNamed
    <2>2. /\ runs' \in Seq(Run) /\ Len(runs') <= MaxRuns /\ DOMAIN runs' = DOMAIN runs
          /\ \E r \in Run : /\ runs' = [runs EXCEPT ![pend.run] = r]
                            /\ r.commit = runs[pend.run].commit
                            /\ r.result = runs[pend.run].result
                            /\ r.conclusion = runs[pend.run].conclusion
                            /\ r.verdict = "cancelled"
      BY <2>1, VerdictEffect DEF Verdicts
    <2>3. TypeInv'
      BY <1>1, <1>2, <2>2, JoinGroupType DEF TypeInv, TypeOK
    <2> QED BY <1>1, <1>3, <2>1, <2>2, <2>3
  <1>4. CASE ~ (job.pc # "idle" /\ pend.kind = "call")
    <2>1. runs' = runs
      BY <1>4 DEF Dispatch
    <2>2. TypeInv'
      BY <1>1, <1>2, <2>1, JoinGroupType DEF TypeInv, TypeOK
    <2> QED BY <1>1, <1>4, <2>1, <2>2
  <1> QED BY <1>3, <1>4

(* The steps of a job between Classify and File advance the job alone.      *)
SameJob(j) == j.kind = job.kind /\ j.run = job.run /\ j.commit = job.commit

(* Detection after a successful build. *)
LEMMA DetectSuccessEffect ==
    ASSUME TypeInv, DetectSuccess
    PROVE  /\ TypeInv' /\ UNCHANGED <<issues, pend>> /\ SameJob(job')
           /\ job'.pc \in {"dedup", "close"} /\ job'.goodRun = job.goodRun
           /\ job'.good = job.good
           /\ job'.culprit = job.culprit /\ job'.narrowed = job.narrowed
           /\ \/ runs' = runs
              \/ /\ job.run \in DOMAIN runs
                 /\ \E r \in Run : /\ runs' = [runs EXCEPT ![job.run] = r]
                                   /\ r.commit = runs[job.run].commit
                                   /\ r.result = runs[job.run].result
                                   /\ r.conclusion = runs[job.run].conclusion
                                   /\ r.verdict = runs[job.run].verdict
  <1>1. PICK lost \in LostEvidence, d \in 0..Len(runs), s \in 0..Len(runs), blind \in BOOLEAN :
          /\ job' = Detected(NewDj(lost, d), NewSim(lost, s))
          /\ runs' = IF job.kind = "call" THEN [runs EXCEPT ![job.run].blind = blind]
                                          ELSE runs
    BY DEF DetectSuccess
  <1>2. UNCHANGED <<issues, pend, dispatches>> /\ job \in Job
    BY DEF DetectSuccess, TypeInv, TypeOK
  <1>3. /\ NewDj(lost, d) \in SUBSET DjTests /\ NewSim(lost, s) \in SUBSET SimTests
    <2>1. CASE job.kind = "call"
      <3>1. runs[job.run] \in Run
        BY <2>1, RunType DEF TypeInv, RunsNamed
      <3>2. runs[job.run].dj \subseteq DjTests /\ runs[job.run].sim \subseteq SimTests
        BY <3>1 DEF Run
      <3> QED BY <3>2 DEF NewDj, NewSim, Delta
    <2>2. CASE job.kind # "call"
      BY <2>2 DEF NewDj, NewSim, HaveDj, HaveSim
    <2> QED BY <2>1, <2>2
  <1>4. /\ job' \in Job /\ SameJob(job') /\ job'.pc \in {"dedup", "close"}
        /\ job'.goodRun = job.goodRun /\ job'.good = job.good
        /\ job'.culprit = job.culprit /\ job'.narrowed = job.narrowed
    <2>1. PICK type \in Types, tests \in SUBSET (DjTests \cup SimTests), p \in {"dedup", "close"} :
            job' = [job EXCEPT !.pc = p, !.type = type, !.tests = tests]
      <3> DEFINE type == Classify("success", "", NewDj(lost, d), NewSim(lost, s))
      <3>1. type \in Types
        BY ClassifyType
      <3>2. AfterClassify(type) \in {"dedup", "close"}
        BY DEF AfterClassify
      <3>3. job' = [job EXCEPT !.pc = AfterClassify(type), !.type = type,
                       !.tests = IF type = "dejagnu" THEN NewDj(lost, d) ELSE NewSim(lost, s)]
        BY <1>1 DEF Detected
      <3> HIDE DEF type
      <3> QED BY <1>3, <3>1, <3>2, <3>3
    <2> QED BY <1>2, <2>1 DEF Job, SameJob, Pcs
  <1>5. CASE job.kind # "call"
    <2>1. runs' = runs
      BY <1>1, <1>5
    <2>2. TypeInv'
      BY <1>2, <1>4, <1>5, <2>1 DEF TypeInv, TypeOK, RunsNamed, SameJob
    <2> QED BY <1>2, <1>4, <2>1, <2>2
  <1>6. CASE job.kind = "call"
    <2>1. job.run \in DOMAIN runs
      BY <1>6 DEF TypeInv, RunsNamed
    <2>2. runs[job.run] \in Run
      BY <2>1, RunType
    <2> DEFINE r == [runs[job.run] EXCEPT !.blind = blind]
    <2>3. /\ r \in Run /\ r.commit = runs[job.run].commit /\ r.result = runs[job.run].result
          /\ r.conclusion = runs[job.run].conclusion /\ r.verdict = runs[job.run].verdict
      BY <2>2 DEF Run
    <2>4. runs' = [runs EXCEPT ![job.run] = r]
      BY <1>1, <1>6
    <2> HIDE DEF r
    <2>5. runs' \in Seq(Run) /\ Len(runs') <= MaxRuns /\ DOMAIN runs' = DOMAIN runs
      BY <2>1, <2>3, <2>4, RunUpdateType
    <2>6. TypeInv'
      BY <1>2, <1>4, <2>5 DEF TypeInv, TypeOK, RunsNamed, SameJob
    <2> QED BY <1>2, <1>4, <2>1, <2>3, <2>4, <2>6
  <1> QED BY <1>5, <1>6

(* Detection of a failure, the dedup that finds nothing, the bound and the  *)
(* bisect change the job alone.                                             *)
LEMMA DetectFailureEffect ==
    ASSUME TypeInv, DetectFailure
    PROVE  /\ TypeInv' /\ UNCHANGED <<runs, issues, pend>> /\ SameJob(job')
           /\ job'.pc \in {"dedup", "close"} /\ job'.goodRun = job.goodRun
           /\ job'.good = job.good
           /\ job'.culprit = job.culprit /\ job'.narrowed = job.narrowed
  <1>1. PICK step : /\ step \in FailedSteps \cup {""}
                    /\ job' = [job EXCEPT !.pc = AfterClassify(Classify("failure", step, {}, {})),
                                          !.type = Classify("failure", step, {}, {}),
                                          !.step = step]
    <2>1. ASSUME job.kind = "call" PROVE runs[job.run].step \in FailedSteps \cup {""}
      <3>1. runs[job.run] \in Run
        BY <2>1, RunType DEF TypeInv, RunsNamed
      <3> QED BY <3>1 DEF Run
    <2> QED BY <2>1 DEF DetectFailure
  <1>2. UNCHANGED <<runs, issues, pend, dispatches>> /\ job \in Job
    BY DEF DetectFailure, TypeInv, TypeOK
  <1>3. Classify("failure", step, {}, {}) \in Types
    BY ClassifyType
  <1>4. AfterClassify(Classify("failure", step, {}, {})) \in {"dedup", "close"}
    BY DEF AfterClassify
  <1>5. /\ job' \in Job /\ SameJob(job') /\ job'.pc \in {"dedup", "close"}
        /\ job'.goodRun = job.goodRun /\ job'.good = job.good
        /\ job'.culprit = job.culprit /\ job'.narrowed = job.narrowed
    BY <1>1, <1>2, <1>3, <1>4 DEF Job, SameJob, Pcs
  <1> QED BY <1>2, <1>5 DEF TypeInv, TypeOK, RunsNamed, SameJob

(* The bound is empty or a completed run with its commit. *)
LEMMA BoundEffect ==
    ASSUME TypeInv, Bound
    PROVE  /\ TypeInv' /\ UNCHANGED <<runs, issues, pend>> /\ SameJob(job')
           /\ job'.pc \in {"bisect", "file"}
           /\ job'.culprit = job.culprit /\ job'.narrowed = job.narrowed
           /\ \/ job'.goodRun = 0 /\ job'.good = 0
              \/ /\ job'.goodRun \in DOMAIN runs
                 /\ runs[job'.goodRun].conclusion = "completed"
                 /\ job'.good = runs[job'.goodRun].commit
  <1>1. PICK hidden \in HiddenRuns, b \in 0..Len(runs) :
          /\ PickGoodRun(b, hidden)
          /\ job' = [job EXCEPT !.goodRun = b,
                                !.good = IF b = 0 THEN 0 ELSE runs[b].commit,
                                !.pc = IF b = 0 THEN "file" ELSE "bisect"]
    BY DEF Bound
  <1>2. UNCHANGED <<runs, issues, pend, dispatches>> /\ job \in Job /\ b \in 0..MaxRuns
    BY RegressionAssumption, LenProperties DEF Bound, TypeInv, TypeOK
  <1>3. CASE b = 0
    <2>1. job' = [job EXCEPT !.goodRun = 0, !.good = 0, !.pc = "file"]
      BY <1>1, <1>3
    <2>2. /\ job' \in Job /\ SameJob(job') /\ job'.pc = "file" /\ job'.goodRun = 0
          /\ job'.good = 0 /\ job'.culprit = job.culprit /\ job'.narrowed = job.narrowed
      <3>1. 0 \in 0..MaxRuns /\ 0 \in 0..MaxCommit
        BY RegressionAssumption
      <3> QED BY <1>2, <2>1, <3>1 DEF Job, SameJob, Pcs
    <2> QED BY <1>2, <2>2 DEF TypeInv, TypeOK, RunsNamed, SameJob
  <1>4. CASE b # 0
    <2>1. b \in DOMAIN runs /\ runs[b].conclusion = "completed"
      BY <1>1, <1>4 DEF PickGoodRun, GatheredRuns
    <2>2. runs[b].commit \in 0..MaxCommit
      BY <2>1, RunType, RegressionAssumption
    <2>3. job' = [job EXCEPT !.goodRun = b, !.good = runs[b].commit, !.pc = "bisect"]
      BY <1>1, <1>4
    <2>4. /\ job' \in Job /\ SameJob(job') /\ job'.pc = "bisect" /\ job'.goodRun = b
          /\ job'.good = runs[b].commit
          /\ job'.culprit = job.culprit /\ job'.narrowed = job.narrowed
      BY <1>2, <2>2, <2>3 DEF Job, SameJob, Pcs
    <2> QED BY <1>2, <2>1, <2>4 DEF TypeInv, TypeOK, RunsNamed, SameJob
  <1> QED BY <1>3, <1>4

InRange(c) == job.good < c /\ (c <= job.commit \/ job.commit = job.good + 1)

(* The bisect answers inside the range or not at all. *)
LEMMA BisectEffect ==
    ASSUME TypeInv, Bisect
    PROVE  /\ TypeInv' /\ UNCHANGED <<runs, issues, pend>> /\ SameJob(job')
           /\ job'.pc = "file" /\ job'.goodRun = job.goodRun /\ job'.good = job.good
           /\ \A c \in {job'.culprit, job'.narrowed} :
                c \in {job.culprit, job.narrowed} \/ InRange(c)
  <1>1. job \in Job /\ job.good \in 0..MaxCommit /\ job.commit \in 0..MaxCommit
        /\ UNCHANGED <<runs, issues, pend, dispatches>>
    BY DEF Bisect, TypeInv, TypeOK, Job
  <1> DEFINE Goal ==
        /\ job' \in Job /\ SameJob(job')
        /\ job'.pc = "file" /\ job'.goodRun = job.goodRun /\ job'.good = job.good
        /\ \A c \in {job'.culprit, job'.narrowed} :
             c \in {job.culprit, job.narrowed} \/ InRange(c)
  <1>2. Goal
    <2>1. CASE job' = [job EXCEPT !.pc = "file"]
      BY <1>1, <2>1 DEF Job, SameJob, Pcs
    <2>2. ASSUME NEW c \in (job.good + 1)..FarEnd,
                 job' = [job EXCEPT !.pc = "file", !.culprit = c]
          PROVE  Goal
      <3>1. c \in 0..MaxCommit /\ InRange(c)
        BY <1>1, RegressionAssumption DEF InRange, FarEnd
      <3> QED BY <1>1, <2>2, <3>1 DEF Job, SameJob, Pcs
    <2>3. ASSUME NEW c \in (job.good + 1)..FarEnd,
                 job' = [job EXCEPT !.pc = "file", !.narrowed = c]
          PROVE  Goal
      <3>1. c \in 0..MaxCommit /\ InRange(c)
        BY <1>1, RegressionAssumption DEF InRange, FarEnd
      <3> QED BY <1>1, <2>3, <3>1 DEF Job, SameJob, Pcs
    <2> QED BY <2>1, <2>2, <2>3 DEF Bisect
  <1> QED BY <1>1, <1>2 DEF TypeInv, TypeOK, RunsNamed, SameJob

(* The range an issue records, which nothing changes once it is filed. *)
SameRange(x, y) == /\ x.run = y.run /\ x.goodRun = y.goodRun /\ x.good = y.good
                   /\ x.bad = y.bad /\ x.culprit = y.culprit /\ x.narrowed = y.narrowed

(* An element of the issue history is well typed. *)
LEMMA IssueType ==
    ASSUME TypeInv, NEW k \in DOMAIN issues
    PROVE  issues[k] \in Issue
  BY LenProperties, ElementOfSeq DEF TypeInv, TypeOK

(* The end of a job keeps the types. *)
LEMMA FinishType ==
    ASSUME TypeInv, NEW v \in Verdicts, FinishJob(v), issues' \in Seq(Issue),
           dispatches' = dispatches
    PROVE  TypeInv'
  BY FinishJobEffect DEF TypeInv, TypeOK

(* Auto-close ends the job and closes at most one issue in the name of its run. *)
LEMMA AutoCloseEffect ==
    ASSUME TypeInv, AutoClose
    PROVE  /\ TypeInv' /\ \E v \in Verdicts : v # "none" /\ FinishJob(v)
           /\ \/ issues' = issues
              \/ \E k \in DOMAIN issues, x \in Issue :
                   /\ issues' = [issues EXCEPT ![k] = x] /\ SameRange(x, issues[k])
                   /\ x.state = "bot" /\ x.closedAt = job.run
  <1>1. PICK k \in 0..Len(issues) :
          /\ NewestOpen(k)
          /\ issues' = IF k = 0 THEN issues
                       ELSE [issues EXCEPT ![k].state = "bot", ![k].closedAt = job.run]
          /\ FinishJob(IF k = 0 THEN "green" ELSE "closed")
    BY DEF AutoClose
  <1>2. \E v \in Verdicts : v # "none" /\ FinishJob(v)
    BY <1>1 DEF Verdicts
  <1>3. dispatches' = dispatches
    BY DEF AutoClose
  <1>4. CASE k = 0
    <2>1. issues' = issues /\ issues \in Seq(Issue)
      BY <1>1, <1>4 DEF TypeInv, TypeOK
    <2> QED BY <1>2, <1>3, <2>1, FinishType
  <1>5. CASE k # 0
    <2>1. k \in DOMAIN issues /\ issues \in Seq(Issue)
      BY <1>1, <1>5 DEF NewestOpen, OpenIssues, TypeInv, TypeOK
    <2>2. issues[k] \in Issue /\ job.run \in 0..MaxRuns
      BY <2>1, IssueType DEF TypeInv, TypeOK, Job
    <2> DEFINE x == [issues[k] EXCEPT !.state = "bot", !.closedAt = job.run]
    <2>3. x \in Issue /\ SameRange(x, issues[k]) /\ x.state = "bot" /\ x.closedAt = job.run
      BY <2>2 DEF Issue, SameRange
    <2>4. issues' = [issues EXCEPT ![k] = x]
      BY <1>1, <1>5, <2>1
    <2> HIDE DEF x
    <2>5. issues' \in Seq(Issue)
      BY <2>1, <2>3, <2>4, SeqUpdate
    <2>6. TypeInv'
      BY <1>2, <1>3, <2>5, FinishType
    <2> QED BY <1>2, <2>1, <2>3, <2>4, <2>6
  <1> QED BY <1>4, <1>5

(* A maintainer closes one issue and touches nothing else. *)
LEMMA HumanCloseEffect ==
    ASSUME TypeInv, HumanClose
    PROVE  /\ TypeInv' /\ UNCHANGED <<runs, job, pend>>
           /\ \E k \in DOMAIN issues, x \in Issue :
                /\ issues' = [issues EXCEPT ![k] = x] /\ SameRange(x, issues[k])
                /\ x.state = "human"
  <1>1. PICK k \in OpenIssues : issues' = [issues EXCEPT ![k].state = "human"]
    BY DEF HumanClose
  <1>2. k \in DOMAIN issues /\ issues[k] \in Issue /\ issues \in Seq(Issue)
    BY IssueType DEF OpenIssues, TypeInv, TypeOK
  <1> DEFINE x == [issues[k] EXCEPT !.state = "human"]
  <1>3. x \in Issue /\ SameRange(x, issues[k]) /\ x.state = "human"
    BY <1>2 DEF Issue, SameRange
  <1>4. issues' = [issues EXCEPT ![k] = x]
    BY <1>1
  <1> HIDE DEF x
  <1>5. issues' \in Seq(Issue)
    BY <1>2, <1>3, <1>4, SeqUpdate
  <1>6. UNCHANGED <<runs, job, pend, dispatches>>
    BY DEF HumanClose
  <1>7. TypeInv'
    BY <1>5, <1>6 DEF TypeInv, TypeOK, RunsNamed
  <1> QED BY <1>2, <1>3, <1>4, <1>6, <1>7

(* Filing appends one open issue with the job's range and ends the job. *)
LEMMA FileEffect ==
    ASSUME TypeInv, File
    PROVE  /\ TypeInv' /\ FinishJob("filed") /\ Len(issues') = Len(issues) + 1
           /\ \A k \in DOMAIN issues : issues'[k] = issues[k]
           /\ LET x == issues'[Len(issues) + 1]
              IN  /\ x.run = job.run /\ x.goodRun = job.goodRun /\ x.good = job.good
                  /\ x.bad = job.commit /\ x.culprit = job.culprit
                  /\ x.narrowed = job.narrowed /\ x.state = "open"
  <1> DEFINE x == [type |-> job.type, tests |-> job.tests, run |-> job.run,
                   goodRun |-> job.goodRun, good |-> job.good, bad |-> job.commit,
                   culprit |-> job.culprit, narrowed |-> job.narrowed,
                   state |-> "open", closedAt |-> 0]
  <1>1. issues' = Append(issues, x) /\ FinishJob("filed") /\ dispatches' = dispatches
    BY DEF File
  <1>2. x \in Issue
    <2>1. job \in Job /\ 0 \in 0..MaxRuns
      BY RegressionAssumption DEF TypeInv, TypeOK
    <2> QED BY <2>1 DEF Job, Issue
  <1>3. /\ x.run = job.run /\ x.goodRun = job.goodRun /\ x.good = job.good
        /\ x.bad = job.commit /\ x.culprit = job.culprit
        /\ x.narrowed = job.narrowed /\ x.state = "open"
    OBVIOUS
  <1> HIDE DEF x
  <1>4. issues \in Seq(Issue) /\ DOMAIN issues = 1..Len(issues) /\ Len(issues) \in Nat
    BY LenProperties DEF TypeInv, TypeOK
  <1>5. /\ issues' \in Seq(Issue) /\ Len(issues') = Len(issues) + 1
        /\ issues'[Len(issues) + 1] = x
        /\ \A k \in DOMAIN issues : issues'[k] = issues[k]
    BY <1>1, <1>2, <1>4
  <1>6. TypeInv'
    BY <1>1, <1>5, FinishType DEF Verdicts
  <1> QED BY <1>1, <1>3, <1>5, <1>6

(* Dedup ends the job, or goes on when no issue is open. *)
LEMMA DedupEffect ==
    ASSUME TypeInv, Dedup
    PROVE  /\ TypeInv' /\ issues' = issues
           /\ \/ OpenIssues # {} /\ FinishJob("dedup")
              \/ /\ OpenIssues = {} /\ UNCHANGED <<runs, pend>> /\ SameJob(job')
                 /\ job'.pc = "bound" /\ job'.goodRun = job.goodRun
                 /\ job'.good = job.good
                 /\ job'.culprit = job.culprit /\ job'.narrowed = job.narrowed
  <1>1. issues' = issues /\ dispatches' = dispatches /\ issues \in Seq(Issue) /\ job \in Job
    BY DEF Dedup, TypeInv, TypeOK
  <1>2. CASE OpenIssues # {}
    <2>1. FinishJob("dedup")
      BY <1>2 DEF Dedup
    <2>2. TypeInv'
      BY <1>1, <2>1, FinishType DEF Verdicts
    <2> QED BY <1>1, <1>2, <2>1, <2>2
  <1>3. CASE OpenIssues = {}
    <2>1. job' = [job EXCEPT !.pc = "bound"] /\ UNCHANGED <<runs, pend>>
      BY <1>3 DEF Dedup
    <2>2. /\ job' \in Job /\ SameJob(job') /\ job'.pc = "bound" /\ job'.goodRun = job.goodRun
          /\ job'.good = job.good
          /\ job'.culprit = job.culprit /\ job'.narrowed = job.narrowed
      BY <1>1, <2>1 DEF Job, SameJob, Pcs
    <2>3. TypeInv'
      BY <1>1, <2>1, <2>2 DEF TypeInv, TypeOK, RunsNamed, SameJob
    <2> QED BY <1>1, <1>3, <2>1, <2>2, <2>3
  <1> QED BY <1>2, <1>3

(* A cancelled build and an abort only end the job. *)
LEMMA EndEffect ==
    ASSUME TypeInv, DetectCancelled \/ Abort
    PROVE  /\ TypeInv' /\ issues' = issues
           /\ \E v \in Verdicts : v # "none" /\ FinishJob(v)
  <1>1. issues' = issues /\ dispatches' = dispatches /\ issues \in Seq(Issue)
    BY DEF DetectCancelled, Abort, TypeInv, TypeOK
  <1>2. \E v \in Verdicts : v # "none" /\ FinishJob(v)
    BY DEF DetectCancelled, Abort, Verdicts
  <1> QED BY <1>1, <1>2, FinishType

(* Every step keeps TypeInv. *)
LEMMA TypeStep == TypeInv /\ [Next]_vars => TypeInv'
  <1> SUFFICES ASSUME TypeInv, [Next]_vars PROVE TypeInv'
    OBVIOUS
  <1>1. CASE UNCHANGED vars
    BY <1>1 DEF vars, TypeInv, TypeOK, RunsNamed
  <1>2. CASE Next
    BY <1>2, EnqueueType, BuildDoneEffect, ConcludeEffect, ExpireEffect, DispatchEffect,
       DetectSuccessEffect, DetectFailureEffect, EndEffect, AutoCloseEffect, DedupEffect,
       BoundEffect, BisectEffect, FileEffect, HumanCloseEffect DEF Next
  <1> QED BY <1>1, <1>2

(* Every variable keeps its type: in particular every step leaves runs and  *)
(* issues of the shape the scripts read back, and jobs name existing runs.  *)
THEOREM RegressionTypeOK == Spec => []TypeOK
  <1>1. TypeInv => TypeOK
    BY DEF TypeInv
  <1> QED BY <1>1, TypeInit, TypeStep, PTL DEF Spec

-----------------------------------------------------------------------------
(* The inductive invariant *)

(* Runs test commits in order, and a build is over only when every earlier  *)
(* run has concluded.                                                       *)
Ordered == \A i, j \in DOMAIN runs : j < i =>
             /\ runs[j].commit <= runs[i].commit
             /\ runs[i].result # "pending" => runs[j].conclusion # "none"

(* A run completes, or its watchdog answers, only after its build.          *)
Progress == \A i \in DOMAIN runs :
              /\ runs[i].conclusion = "completed" => runs[i].result # "pending"
              /\ runs[i].verdict # "none" /\ runs[i].conclusion = "none" =>
                   runs[i].result # "pending"

(* A called job belongs to the run under way, which has no verdict yet.     *)
Owned(j) == /\ j.kind = "call" =>
                 /\ runs[j.run].result # "pending" /\ runs[j.run].conclusion = "none"
                 /\ runs[j.run].verdict = "none" /\ j.commit \in {0, runs[j.run].commit}
            /\ j.kind # "call" => j.run = 0

JobsOwned == /\ Owned(job) /\ Owned(pend)
             /\ ~ (job.kind = "call" /\ pend.kind = "call")

PendFresh == /\ pend.pc \in {"idle", "detect"} /\ pend.goodRun = 0
             /\ pend.culprit = 0 /\ pend.narrowed = 0

(* From the dedup on nobody else files an issue. *)
Ready == job.pc \in {"bound", "bisect", "file"} => OpenIssues = {}

JobRange == /\ job.goodRun # 0 => /\ job.goodRun \in DOMAIN runs
                                  /\ runs[job.goodRun].conclusion = "completed"
                                  /\ job.good = runs[job.goodRun].commit
            /\ \A c \in {job.culprit, job.narrowed} \ {0} : InRange(c)
            /\ job.pc # "file" => job.culprit = 0 /\ job.narrowed = 0

(* An issue comes from a run whose watchdog has answered. *)
IssuesOwned == \A k \in DOMAIN issues : issues[k].run # 0 =>
                 /\ issues[k].run \in DOMAIN runs
                 /\ runs[issues[k].run].result # "pending"
                 /\ runs[issues[k].run].verdict # "none"

RunsInv == Ordered /\ Progress
JobsInv == JobsOwned /\ PendFresh /\ JobRange
IssuesInv == IssuesOwned /\ OneOpenIssue /\ CloseIsLater /\ RangePointsForward
IInv == TypeInv /\ RunsInv /\ JobsInv /\ Ready /\ IssuesInv

(* What a step may do to the runs that exist. *)
Grows == /\ DOMAIN runs \subseteq DOMAIN runs'
         /\ \A i \in DOMAIN runs :
              /\ runs'[i].commit = runs[i].commit
              /\ runs[i].result # "pending" => runs'[i].result # "pending"
              /\ runs[i].conclusion # "none" => runs'[i].conclusion = runs[i].conclusion
              /\ runs[i].verdict # "none" => runs'[i].verdict # "none"

(* The inductive invariant holds before the first run. *)
LEMMA InitIInv == Init => IInv
  <1> SUFFICES ASSUME Init PROVE IInv
    OBVIOUS
  <1>1. TypeInv
    BY TypeInit
  <1>2. /\ NoJob.run = 0 /\ NoJob.kind = "none" /\ NoJob.goodRun = 0 /\ NoJob.culprit = 0
        /\ NoJob.narrowed = 0 /\ NoJob.pc = "idle"
    BY DEF NoJob, NewJob
  <1>3. DOMAIN runs = {} /\ DOMAIN issues = {} /\ job = NoJob /\ pend = NoJob
    BY DEF Init
  <1>4. RunsInv /\ IssuesInv
    BY <1>3 DEF RunsInv, Ordered, Progress, IssuesInv, IssuesOwned, OneOpenIssue, OpenIssues,
                CloseIsLater, RangePointsForward
  <1>5. JobsInv /\ Ready
    BY <1>2, <1>3 DEF JobsInv, JobsOwned, Owned, PendFresh, JobRange, Ready
  <1> QED BY <1>1, <1>4, <1>5 DEF IInv

(* A step that does not touch the runs. *)
LEMMA SameRuns ==
    ASSUME RunsInv, runs' = runs
    PROVE  RunsInv' /\ Grows
  BY DEF RunsInv, Ordered, Progress, Grows

(* One run moves forward: its build ends when it is the active one, it      *)
(* concludes once it has a verdict, or it gets a verdict after its build.   *)
LEMMA UpdateRuns ==
    ASSUME TypeInv, RunsInv, NEW i \in DOMAIN runs, NEW r \in Run,
           runs' = [runs EXCEPT ![i] = r], r.commit = runs[i].commit,
           \/ r.result = runs[i].result
           \/ Active(i) /\ r.result # "pending",
           \/ r.conclusion = runs[i].conclusion
           \/ /\ runs[i].conclusion = "none" /\ r.conclusion # "none"
              /\ runs[i].verdict # "none",
           \/ r.verdict = runs[i].verdict
           \/ r.verdict # "none" /\ r.result # "pending"
    PROVE  RunsInv' /\ Grows
  <1>1. DOMAIN runs' = DOMAIN runs /\ DOMAIN runs = 1..Len(runs) /\ Len(runs) \in Nat
    BY RunUpdateType, LenProperties DEF TypeInv, TypeOK
  <1>2. \A j \in DOMAIN runs : runs'[j] = IF j = i THEN r ELSE runs[j]
    BY <1>1 DEF TypeInv, TypeOK
  <1>3. runs[i].result # "pending" => r.result # "pending"
    OBVIOUS
  <1>4. Grows
    BY <1>1, <1>2, <1>3 DEF Grows
  <1>5. Ordered'
    <2> SUFFICES ASSUME NEW a \in DOMAIN runs, NEW b \in DOMAIN runs, b < a
                 PROVE  /\ runs'[b].commit <= runs'[a].commit
                        /\ runs'[a].result # "pending" => runs'[b].conclusion # "none"
      BY <1>1 DEF Ordered
    <2>1. runs'[b].commit <= runs'[a].commit
      BY <1>2 DEF RunsInv, Ordered
    <2>2. ASSUME runs'[a].result # "pending" PROVE runs[b].conclusion # "none"
      <3>1. CASE runs[a].result # "pending"
        BY <3>1 DEF RunsInv, Ordered
      <3>2. CASE runs[a].result = "pending"
        <4>1. a = i /\ Active(i)
          BY <1>2, <2>2, <3>2
        <4>2. b \in 1..(i - 1)
          BY <1>1, <4>1
        <4> QED BY <4>1, <4>2 DEF Active
      <3> QED BY <3>1, <3>2
    <2>3. runs[b].conclusion # "none" => runs'[b].conclusion # "none"
      BY <1>2
    <2> QED BY <2>1, <2>2, <2>3
  <1>6. Progress'
    <2> SUFFICES ASSUME NEW a \in DOMAIN runs
                 PROVE  /\ runs'[a].conclusion = "completed" => runs'[a].result # "pending"
                        /\ runs'[a].verdict # "none" /\ runs'[a].conclusion = "none" =>
                             runs'[a].result # "pending"
      BY <1>1 DEF Progress
    <2> QED BY <1>2, <1>3 DEF RunsInv, Progress
  <1> QED BY <1>4, <1>5, <1>6 DEF RunsInv

(* Enqueue keeps the order, and leaves alone every run whose build is over. *)
LEMMA EnqueueRuns ==
    ASSUME TypeInv, RunsInv, NEW c \in Commit, Enqueue(c)
    PROVE  /\ RunsInv' /\ Grows
           /\ \A i \in DOMAIN runs : runs[i].result # "pending" => runs'[i] = runs[i]
  <1>1. /\ TypeInv' /\ Len(runs') = Len(runs) + 1
        /\ runs'[Len(runs) + 1] = NewRun(c)
        /\ \A i \in DOMAIN runs :
             runs'[i] = IF Waiting(i)
                        THEN [runs[i] EXCEPT !.conclusion = "cancelled",
                                             !.verdict = "cancelled"]
                        ELSE runs[i]
    BY EnqueueType
  <1>2. /\ DOMAIN runs = 1..Len(runs) /\ Len(runs) \in Nat
        /\ DOMAIN runs' = 1..(Len(runs) + 1)
    BY <1>1, LenProperties DEF TypeInv, TypeOK
  <1>3. ASSUME NEW i \in DOMAIN runs, Waiting(i)
        PROVE  runs[i].result = "pending" /\ runs[i].conclusion = "none"
    <2>1. PICK j \in 1..(i - 1) : runs[j].conclusion = "none"
      BY <1>3 DEF Waiting, Active
    <2>2. j \in DOMAIN runs /\ j < i
      BY <1>2
    <2> QED BY <1>3, <2>1, <2>2 DEF Waiting, RunsInv, Ordered
  <1>4. ASSUME NEW i \in DOMAIN runs
        PROVE  /\ runs'[i].commit = runs[i].commit /\ runs'[i].result = runs[i].result
               /\ runs[i].result # "pending" => runs'[i] = runs[i]
               /\ runs[i].conclusion # "none" => runs'[i] = runs[i]
               /\ \/ runs'[i] = runs[i]
                  \/ runs'[i].conclusion = "cancelled" /\ runs'[i].verdict = "cancelled"
    <2>1. runs[i] \in Run
      BY RunType
    <2> QED BY <1>1, <1>3, <2>1 DEF Run
  <1>5. /\ NewRun(c).commit = c /\ NewRun(c).result = "pending"
        /\ NewRun(c).conclusion = "none" /\ NewRun(c).verdict = "none"
    BY DEF NewRun
  <1>6. Grows
    BY <1>2, <1>4 DEF Grows
  <1>7. \A i \in DOMAIN runs : runs[i].commit <= c
    <2> SUFFICES ASSUME NEW i \in DOMAIN runs PROVE runs[i].commit <= c
      OBVIOUS
    <2>1. Len(runs) \in DOMAIN runs /\ (i = Len(runs) \/ i < Len(runs))
      BY <1>2
    <2>2. runs[Len(runs)].commit <= c
      <3>1. Len(runs) > 0
        BY <1>2, <2>1
      <3>2. Len(runs) > 0 => runs[Len(runs)].commit <= c
        BY Zenon DEF Enqueue, Queue
      <3> QED BY <3>1, <3>2
    <2>3. /\ runs[i].commit \in 1..MaxCommit /\ runs[Len(runs)].commit \in 1..MaxCommit
          /\ c \in 1..MaxCommit /\ MaxCommit \in Nat
      BY <2>1, RunType, RegressionAssumption DEF Commit
    <2>4. runs[i].commit <= runs[Len(runs)].commit
      BY <2>1, <2>3 DEF RunsInv, Ordered
    <2> QED BY <2>2, <2>3, <2>4
  <1>8. Ordered'
    <2> SUFFICES ASSUME NEW a \in DOMAIN runs', NEW b \in DOMAIN runs', b < a
                 PROVE  /\ runs'[b].commit <= runs'[a].commit
                        /\ runs'[a].result # "pending" => runs'[b].conclusion # "none"
      BY DEF Ordered
    <2>1. b \in DOMAIN runs
      BY <1>2
    <2>2. CASE a \in DOMAIN runs
      BY <1>4, <2>1, <2>2 DEF RunsInv, Ordered
    <2>3. CASE a = Len(runs) + 1
      BY <1>1, <1>4, <1>5, <1>7, <2>1, <2>3
    <2> QED BY <1>2, <2>2, <2>3
  <1>9. Progress'
    <2> SUFFICES ASSUME NEW a \in DOMAIN runs'
                 PROVE  /\ runs'[a].conclusion = "completed" => runs'[a].result # "pending"
                        /\ runs'[a].verdict # "none" /\ runs'[a].conclusion = "none" =>
                             runs'[a].result # "pending"
      BY DEF Progress
    <2>1. CASE a \in DOMAIN runs
      BY <1>4, <2>1 DEF RunsInv, Progress
    <2>2. CASE a = Len(runs) + 1
      BY <1>1, <1>5, <2>2
    <2> QED BY <1>2, <2>1, <2>2
  <1> QED BY <1>4, <1>6, <1>8, <1>9 DEF RunsInv

(* The run of a called job is the last whose build is over. *)
LEMMA CallIsLast ==
    ASSUME TypeInv, RunsInv, JobsOwned, NEW j \in {job, pend}, j.kind = "call",
           NEW a \in DOMAIN runs, runs[a].result # "pending"
    PROVE  a <= j.run /\ j.run \in DOMAIN runs
  <1>1. j.run \in DOMAIN runs /\ runs[j.run].conclusion = "none"
    BY DEF TypeInv, RunsNamed, JobsOwned, Owned
  <1>2. a \in 1..Len(runs) /\ j.run \in 1..Len(runs) /\ Len(runs) \in Nat
    BY <1>1, LenProperties DEF TypeInv, TypeOK
  <1>3. ~ (j.run < a)
    BY <1>1 DEF RunsInv, Ordered
  <1> QED BY <1>1, <1>2, <1>3

(* A step that leaves both jobs alone and does not touch their runs.        *)
LEMMA KeepJobs ==
    ASSUME IInv, Grows, UNCHANGED <<job, pend>>,
           \A j \in {job, pend} : j.kind = "call" =>
             /\ runs'[j.run].result # "pending" /\ runs'[j.run].conclusion = "none"
             /\ runs'[j.run].verdict = "none"
    PROVE  JobsInv'
  <1>1. JobsOwned'
    <2>1. ASSUME NEW j \in {job, pend}, j.kind = "call"
          PROVE  runs'[j.run].commit = runs[j.run].commit
      BY <2>1 DEF IInv, TypeInv, RunsNamed, Grows
    <2> QED BY <2>1 DEF IInv, JobsInv, JobsOwned, Owned
  <1>2. PendFresh'
    BY DEF IInv, JobsInv, PendFresh
  <1>3. JobRange'
    BY DEF IInv, JobsInv, JobRange, InRange, Grows
  <1> QED BY <1>1, <1>2, <1>3 DEF JobsInv

(* Issues already filed stay what they are when runs grow. *)
LEMMA KeepIssues ==
    ASSUME IInv, Grows, issues' = issues
    PROVE  IssuesInv'
  <1>1. IssuesOwned'
    BY DEF IInv, IssuesInv, IssuesOwned, Grows
  <1>2. OneOpenIssue' /\ CloseIsLater' /\ RangePointsForward'
    BY DEF IInv, IssuesInv, OneOpenIssue, OpenIssues, CloseIsLater, RangePointsForward
  <1> QED BY <1>1, <1>2 DEF IssuesInv

(* A step that leaves every run as it stands, but for its evidence. *)
Stands == /\ DOMAIN runs' = DOMAIN runs
          /\ \A i \in DOMAIN runs :
               /\ runs'[i].commit = runs[i].commit /\ runs'[i].result = runs[i].result
               /\ runs'[i].conclusion = runs[i].conclusion
               /\ runs'[i].verdict = runs[i].verdict

(* Such a step keeps what is known of the runs. *)
LEMMA StandingRuns ==
    ASSUME RunsInv, Stands
    PROVE  RunsInv' /\ Grows
  BY DEF RunsInv, Ordered, Progress, Stands, Grows

(* Replacing a run by one that differs in its evidence alone is such a step. *)
LEMMA StandsByUpdate ==
    ASSUME TypeInv, NEW i \in DOMAIN runs, NEW r \in Run, runs' = [runs EXCEPT ![i] = r],
           r.commit = runs[i].commit, r.result = runs[i].result,
           r.conclusion = runs[i].conclusion, r.verdict = runs[i].verdict
    PROVE  Stands
  <1>1. DOMAIN runs' = DOMAIN runs
    BY RunUpdateType
  <1>2. \A j \in DOMAIN runs : runs'[j] = IF j = i THEN r ELSE runs[j]
    BY DEF TypeInv, TypeOK
  <1> QED BY <1>1, <1>2 DEF Stands

(* The job advances within its own run. *)
LEMMA AdvanceJob ==
    ASSUME IInv, Stands, UNCHANGED <<issues, pend>>, SameJob(job'), JobRange', Ready', TypeInv'
    PROVE  IInv'
  <1>1. RunsInv' /\ Grows
    BY StandingRuns DEF IInv
  <1>2. IssuesInv'
    BY <1>1, KeepIssues
  <1>3. ASSUME NEW j \in {job, pend}, j.kind = "call"
        PROVE  /\ runs'[j.run].commit = runs[j.run].commit
               /\ runs'[j.run].result = runs[j.run].result
               /\ runs'[j.run].conclusion = runs[j.run].conclusion
               /\ runs'[j.run].verdict = runs[j.run].verdict
    BY <1>3 DEF IInv, TypeInv, RunsNamed, Stands
  <1>4. JobsOwned'
    BY <1>3 DEF IInv, JobsInv, JobsOwned, Owned, SameJob
  <1>5. PendFresh'
    BY DEF IInv, JobsInv, PendFresh
  <1> QED BY <1>1, <1>2, <1>4, <1>5 DEF IInv, JobsInv

(* So is a step without any change of the runs. *)
LEMMA SameRunsStand == ASSUME runs' = runs PROVE Stands
  BY DEF Stands

(* The job ends: its run gets the verdict and the waiting job starts. *)
LEMMA EndJob ==
    ASSUME IInv, TypeInv', NEW v \in Verdicts, v # "none", FinishJob(v)
    PROVE  /\ RunsInv' /\ Grows /\ JobsInv'
           /\ job'.pc \in {"idle", "detect"}
           /\ job.kind = "call" => /\ job.run \in DOMAIN runs'
                                   /\ runs'[job.run].result # "pending"
                                   /\ runs'[job.run].verdict # "none"
  <1>1. /\ DOMAIN runs' = DOMAIN runs /\ job' = pend /\ pend' = NoJob
        /\ \/ job.kind # "call" /\ runs' = runs
           \/ /\ job.kind = "call" /\ job.run \in DOMAIN runs
              /\ \E r \in Run : /\ runs' = [runs EXCEPT ![job.run] = r]
                                /\ r.commit = runs[job.run].commit
                                /\ r.result = runs[job.run].result
                                /\ r.conclusion = runs[job.run].conclusion
                                /\ r.verdict = v
    BY FinishJobEffect DEF IInv
  <1>2. /\ NoJob.run = 0 /\ NoJob.kind = "none" /\ NoJob.goodRun = 0 /\ NoJob.culprit = 0
        /\ NoJob.narrowed = 0 /\ NoJob.pc = "idle"
    BY DEF NoJob, NewJob
  <1>3. job'.pc \in {"idle", "detect"}
    BY <1>1 DEF IInv, JobsInv, PendFresh
  <1>4. PendFresh' /\ JobRange'
    BY <1>1, <1>2 DEF IInv, JobsInv, PendFresh, JobRange
  <1>5. CASE job.kind # "call"
    <2>1. runs' = runs
      BY <1>1, <1>5
    <2>2. RunsInv' /\ Grows
      BY <2>1, SameRuns DEF IInv
    <2>3. JobsOwned'
      BY <1>1, <1>2, <2>1 DEF IInv, JobsInv, JobsOwned, Owned
    <2> QED BY <1>3, <1>4, <1>5, <2>2, <2>3 DEF JobsInv
  <1>6. CASE job.kind = "call"
    <2>1. PICK r \in Run : /\ runs' = [runs EXCEPT ![job.run] = r]
                           /\ r.commit = runs[job.run].commit
                           /\ r.result = runs[job.run].result
                           /\ r.conclusion = runs[job.run].conclusion
                           /\ r.verdict = v
      BY <1>1, <1>6
    <2>2. job.run \in DOMAIN runs /\ runs[job.run].result # "pending" /\ pend.kind # "call"
      BY <1>1, <1>6 DEF IInv, JobsInv, JobsOwned, Owned
    <2>3. PICK i \in DOMAIN runs : i = job.run
      BY <2>2
    <2>4. RunsInv' /\ Grows
      BY <2>1, <2>2, <2>3, UpdateRuns DEF IInv
    <2>5. JobsOwned'
      BY <1>1, <1>2, <2>2 DEF IInv, JobsInv, JobsOwned, Owned
    <2>6. runs'[job.run] = r
      BY <2>1, <2>2 DEF IInv, TypeInv, TypeOK
    <2> QED BY <1>1, <1>3, <1>4, <2>1, <2>2, <2>4, <2>5, <2>6 DEF JobsInv
  <1> QED BY <1>5, <1>6

(* A job that ends without touching the issues. *)
LEMMA EndStep ==
    ASSUME IInv, TypeInv', NEW v \in Verdicts, v # "none", FinishJob(v), issues' = issues
    PROVE  IInv'
  <1>1. RunsInv' /\ Grows /\ JobsInv' /\ job'.pc \in {"idle", "detect"}
    BY EndJob
  <1>2. IssuesInv'
    BY <1>1, KeepIssues
  <1>3. Ready'
    BY <1>1 DEF Ready
  <1> QED BY <1>1, <1>2, <1>3 DEF IInv

(* One lemma per action: the action preserves IInv. *)
LEMMA EnqueueStep == ASSUME IInv, NEW c \in Commit, Enqueue(c) PROVE IInv'
  <1>1. TypeInv' /\ UNCHANGED <<issues, job, pend>>
    BY EnqueueType DEF IInv, Enqueue, Queue
  <1>2. /\ RunsInv' /\ Grows
        /\ \A i \in DOMAIN runs : runs[i].result # "pending" => runs'[i] = runs[i]
    BY EnqueueRuns DEF IInv
  <1>3. ASSUME NEW j \in {job, pend}, j.kind = "call"
        PROVE  /\ runs'[j.run].result # "pending" /\ runs'[j.run].conclusion = "none"
               /\ runs'[j.run].verdict = "none"
    BY <1>2, <1>3 DEF IInv, TypeInv, RunsNamed, JobsInv, JobsOwned, Owned
  <1>4. JobsInv'
    BY <1>1, <1>2, <1>3, KeepJobs
  <1>5. IssuesInv'
    BY <1>1, <1>2, KeepIssues
  <1>6. Ready'
    BY <1>1 DEF IInv, Ready, OpenIssues
  <1> QED BY <1>1, <1>2, <1>4, <1>5, <1>6 DEF IInv

(* While a build is under way no called job exists: ci-full is a group too. *)
LEMMA NoCallDuringBuild ==
    ASSUME IInv, NEW i \in DOMAIN runs, Active(i), runs[i].result = "pending"
    PROVE  job.kind # "call" /\ pend.kind # "call"
  <1> SUFFICES ASSUME NEW j \in {job, pend}, j.kind = "call" PROVE FALSE
    OBVIOUS
  <1>1. /\ j.run \in DOMAIN runs /\ runs[j.run].conclusion = "none"
        /\ runs[j.run].result # "pending"
    BY DEF IInv, TypeInv, RunsNamed, JobsInv, JobsOwned, Owned
  <1>2. DOMAIN runs = 1..Len(runs) /\ Len(runs) \in Nat
    BY LenProperties DEF IInv, TypeInv, TypeOK
  <1>3. ~ (i < j.run)
    BY <1>1 DEF IInv, RunsInv, Ordered, Active
  <1>4. j.run \notin 1..(i - 1)
    BY <1>1 DEF Active
  <1>5. j.run = i
    BY <1>1, <1>2, <1>3, <1>4
  <1> QED BY <1>1, <1>5

LEMMA BuildDoneStep == ASSUME IInv, NEW i \in DOMAIN runs, BuildDone(i) PROVE IInv'
  <1>1. Active(i) /\ runs[i].result = "pending" /\ runs[i].conclusion = "none"
    BY DEF BuildDone, Active
  <1>2. job.kind # "call" /\ pend.kind # "call"
    BY <1>1, NoCallDuringBuild
  <1>3. TypeInv' /\ issues' = issues
    BY BuildDoneEffect DEF IInv
  <1>4. PICK r \in Run : /\ runs' = [runs EXCEPT ![i] = r]
                         /\ r.commit = runs[i].commit /\ r.result # "pending"
                         /\ r.conclusion = runs[i].conclusion
                         /\ r.verdict = runs[i].verdict
    BY BuildDoneEffect DEF IInv
  <1>5. PICK c \in {0, runs[i].commit}, q \in Results : JoinGroup(NewJob("call", i, c, q))
    BY BuildDoneEffect DEF IInv
  <1>6. RunsInv' /\ Grows
    BY <1>1, <1>4, UpdateRuns DEF IInv
  <1>7. runs'[i] = r /\ runs[i].verdict = "none"
    BY <1>1, <1>4 DEF IInv, TypeInv, TypeOK, RunsInv, Progress
  <1> DEFINE n == NewJob("call", i, c, q)
  <1>8. /\ n.kind = "call" /\ n.run = i /\ n.commit = c /\ n.pc = "detect"
        /\ n.goodRun = 0 /\ n.culprit = 0 /\ n.narrowed = 0
    BY DEF NewJob
  <1> HIDE DEF n
  <1>9. \/ job' = n /\ pend' = pend
        \/ job' = job /\ pend' = n
    BY <1>5 DEF JoinGroup, n
  <1>10. JobsOwned'
    BY <1>1, <1>2, <1>4, <1>7, <1>8, <1>9 DEF IInv, JobsInv, JobsOwned, Owned
  <1>11. PendFresh'
    BY <1>8, <1>9 DEF IInv, JobsInv, PendFresh
  <1>12. JobRange'
    BY <1>6, <1>8, <1>9 DEF IInv, JobsInv, JobRange, InRange, Grows
  <1>13. Ready'
    BY <1>3, <1>8, <1>9 DEF IInv, Ready, OpenIssues
  <1>14. IssuesInv'
    BY <1>3, <1>6, KeepIssues
  <1> QED BY <1>3, <1>6, <1>10, <1>11, <1>12, <1>13, <1>14 DEF IInv, JobsInv

LEMMA ConcludeStep == ASSUME IInv, NEW i \in DOMAIN runs, Conclude(i) PROVE IInv'
  <1>1. TypeInv' /\ UNCHANGED <<issues, job, pend>>
    BY ConcludeEffect DEF IInv
  <1>2. PICK r \in Run : /\ runs' = [runs EXCEPT ![i] = r]
                         /\ r.commit = runs[i].commit /\ r.result = runs[i].result
                         /\ r.conclusion # "none" /\ r.verdict = runs[i].verdict
    BY ConcludeEffect DEF IInv
  <1>3. runs[i].conclusion = "none" /\ runs[i].verdict # "none"
    BY DEF Conclude, Active
  <1>4. RunsInv' /\ Grows
    BY <1>2, <1>3, UpdateRuns DEF IInv
  <1>5. ASSUME NEW j \in {job, pend}, j.kind = "call"
        PROVE  /\ runs'[j.run].result # "pending" /\ runs'[j.run].conclusion = "none"
               /\ runs'[j.run].verdict = "none"
    <2>1. /\ j.run \in DOMAIN runs /\ runs[j.run].result # "pending"
          /\ runs[j.run].conclusion = "none" /\ runs[j.run].verdict = "none"
      BY <1>5 DEF IInv, TypeInv, RunsNamed, JobsInv, JobsOwned, Owned
    <2>2. runs'[j.run] = runs[j.run]
      BY <1>2, <1>3, <2>1
    <2> QED BY <2>1, <2>2
  <1>6. JobsInv' /\ IssuesInv'
    BY <1>1, <1>4, <1>5, KeepJobs, KeepIssues
  <1>7. Ready'
    BY <1>1 DEF IInv, Ready, OpenIssues
  <1> QED BY <1>1, <1>4, <1>6, <1>7 DEF IInv

(* A step that changes neither the job nor its run's standing. *)
LEMMA StandStep ==
    ASSUME IInv, Stands, UNCHANGED <<issues, job, pend>>, TypeInv'
    PROVE  IInv'
  <1>1. SameJob(job')
    BY DEF SameJob
  <1>2. JobRange'
    BY DEF IInv, JobsInv, JobRange, InRange, Stands
  <1>3. Ready'
    BY DEF IInv, Ready, OpenIssues
  <1> QED BY <1>1, <1>2, <1>3, AdvanceJob

LEMMA ExpireStep == ASSUME IInv, NEW i \in DOMAIN runs, Expire(i) PROVE IInv'
  <1>1. TypeInv' /\ UNCHANGED <<issues, job, pend>>
    BY ExpireEffect DEF IInv
  <1>2. Stands
    BY ExpireEffect, StandsByUpdate DEF IInv
  <1> QED BY <1>1, <1>2, StandStep

LEMMA DispatchStep ==
    ASSUME IInv, NEW c \in Commit, NEW q \in {"success", "failure"}, Dispatch(c, q)
    PROVE  IInv'
  <1>1. TypeInv' /\ issues' = issues /\ JoinGroup(NewJob("dispatch", 0, c, q))
    BY DispatchEffect DEF IInv
  <1> DEFINE n == NewJob("dispatch", 0, c, q)
  <1>2. /\ n.kind = "dispatch" /\ n.run = 0 /\ n.pc = "detect"
        /\ n.goodRun = 0 /\ n.culprit = 0 /\ n.narrowed = 0
    BY DEF NewJob
  <1> HIDE DEF n
  <1>3. \/ job.pc = "idle" /\ job' = n /\ pend' = pend
        \/ job.pc # "idle" /\ job' = job /\ pend' = n
    BY <1>1 DEF JoinGroup, n
  <1>4. /\ RunsInv' /\ Grows
        /\ \A i \in DOMAIN runs :
             runs'[i] = runs[i] \/ (job.pc # "idle" /\ pend.kind = "call" /\ i = pend.run)
    <2>1. CASE runs' = runs
      BY <2>1, SameRuns DEF IInv
    <2>2. CASE runs' # runs
      <3>1. pend.kind = "call" /\ pend.run \in DOMAIN runs /\ job.pc # "idle"
        BY <2>2, DispatchEffect DEF IInv
      <3>2. PICK r \in Run : /\ runs' = [runs EXCEPT ![pend.run] = r]
                             /\ r.commit = runs[pend.run].commit
                             /\ r.result = runs[pend.run].result
                             /\ r.conclusion = runs[pend.run].conclusion
                             /\ r.verdict = "cancelled"
        BY <2>2, DispatchEffect DEF IInv
      <3>3. runs[pend.run].result # "pending"
        BY <3>1 DEF IInv, JobsInv, JobsOwned, Owned
      <3>4. PICK i \in DOMAIN runs : i = pend.run
        BY <3>1
      <3>5. RunsInv' /\ Grows
        BY <3>2, <3>3, <3>4, UpdateRuns DEF IInv
      <3> QED BY <3>1, <3>2, <3>5
    <2> QED BY <2>1, <2>2
  <1>5. JobsOwned'
    <2>1. ASSUME NEW j \in {job, pend}, j.kind = "call", j = pend => job.pc = "idle"
          PROVE  runs'[j.run] = runs[j.run]
      <3>1. j.run \in DOMAIN runs
        BY <2>1 DEF IInv, TypeInv, RunsNamed
      <3>2. j = pend \/ pend.kind # "call"
        BY <2>1 DEF IInv, JobsInv, JobsOwned
      <3> QED BY <1>4, <2>1, <3>1, <3>2
    <2>2. CASE job.pc = "idle"
      BY <1>2, <1>3, <2>1, <2>2 DEF IInv, JobsInv, JobsOwned, Owned
    <2>3. CASE job.pc # "idle"
      <3>1. job' = job /\ pend' = n
        BY <1>3, <2>3
      <3>2. ASSUME job.kind = "call" PROVE runs'[job.run] = runs[job.run]
        <4>1. job.run \in DOMAIN runs /\ pend.kind # "call"
          BY <3>2 DEF IInv, TypeInv, RunsNamed, JobsInv, JobsOwned
        <4> QED BY <1>4, <4>1
      <3> QED BY <1>2, <3>1, <3>2 DEF IInv, JobsInv, JobsOwned, Owned
    <2> QED BY <2>2, <2>3
  <1>6. PendFresh'
    BY <1>2, <1>3 DEF IInv, JobsInv, PendFresh
  <1>7. JobRange'
    BY <1>2, <1>3, <1>4 DEF IInv, JobsInv, JobRange, InRange, Grows
  <1>8. Ready'
    BY <1>1, <1>2, <1>3 DEF IInv, Ready, OpenIssues
  <1>9. IssuesInv'
    BY <1>1, <1>4, KeepIssues
  <1> QED BY <1>1, <1>4, <1>5, <1>6, <1>7, <1>8, <1>9 DEF IInv, JobsInv

LEMMA DetectStep == ASSUME IInv, DetectSuccess \/ DetectFailure PROVE IInv'
  <1>1. /\ TypeInv' /\ UNCHANGED <<issues, pend>> /\ SameJob(job')
        /\ job'.pc \in {"dedup", "close"} /\ job'.goodRun = job.goodRun
        /\ job'.good = job.good
        /\ job'.culprit = job.culprit /\ job'.narrowed = job.narrowed
    BY DetectSuccessEffect, DetectFailureEffect DEF IInv
  <1>2. Stands
    <2>1. CASE runs' = runs
      BY <2>1, SameRunsStand
    <2>2. CASE runs' # runs
      <3>1. DetectSuccess
        BY <2>2 DEF DetectFailure
      <3> QED BY <2>2, <3>1, DetectSuccessEffect, StandsByUpdate DEF IInv
    <2> QED BY <2>1, <2>2
  <1>3. job.pc = "detect"
    BY DEF DetectSuccess, DetectFailure
  <1>4. JobRange'
    BY <1>1, <1>2, <1>3 DEF IInv, JobsInv, JobRange, SameJob, Stands
  <1>5. Ready'
    BY <1>1 DEF Ready
  <1> QED BY <1>1, <1>2, <1>4, <1>5, AdvanceJob

LEMMA DedupStep == ASSUME IInv, Dedup PROVE IInv'
  <1>1. TypeInv' /\ issues' = issues /\ job.pc = "dedup"
    BY DedupEffect DEF IInv, Dedup
  <1>2. CASE OpenIssues # {}
    BY <1>1, <1>2, DedupEffect, EndStep DEF IInv, Verdicts
  <1>3. CASE OpenIssues = {}
    <2>1. /\ UNCHANGED <<runs, pend>> /\ SameJob(job')
          /\ job'.pc = "bound" /\ job'.goodRun = job.goodRun /\ job'.good = job.good
          /\ job'.culprit = job.culprit /\ job'.narrowed = job.narrowed
      BY <1>3, DedupEffect DEF IInv
    <2>2. Stands
      BY <2>1, SameRunsStand
    <2>3. JobRange'
      BY <1>1, <2>1 DEF IInv, JobsInv, JobRange, SameJob
    <2>4. Ready'
      BY <1>1, <1>3 DEF Ready, OpenIssues
    <2> QED BY <1>1, <2>1, <2>2, <2>3, <2>4, AdvanceJob
  <1> QED BY <1>2, <1>3

LEMMA BoundStep == ASSUME IInv, Bound PROVE IInv'
  <1>1. /\ TypeInv' /\ UNCHANGED <<runs, issues, pend>> /\ SameJob(job')
        /\ job'.culprit = job.culprit /\ job'.narrowed = job.narrowed
        /\ \/ job'.goodRun = 0 /\ job'.good = 0
           \/ /\ job'.goodRun \in DOMAIN runs
              /\ runs[job'.goodRun].conclusion = "completed"
              /\ job'.good = runs[job'.goodRun].commit
    BY BoundEffect DEF IInv
  <1>2. job.pc = "bound"
    BY DEF Bound
  <1>3. Stands
    BY <1>1, SameRunsStand
  <1>4. job'.culprit = 0 /\ job'.narrowed = 0
    BY <1>1, <1>2 DEF IInv, JobsInv, JobRange
  <1>5. JobRange'
    BY <1>1, <1>4 DEF JobRange
  <1>6. Ready'
    BY <1>1, <1>2 DEF IInv, Ready, OpenIssues
  <1> QED BY <1>1, <1>3, <1>5, <1>6, AdvanceJob

LEMMA BisectStep == ASSUME IInv, Bisect PROVE IInv'
  <1>1. /\ TypeInv' /\ UNCHANGED <<runs, issues, pend>> /\ SameJob(job')
        /\ job'.pc = "file" /\ job'.goodRun = job.goodRun /\ job'.good = job.good
        /\ \A c \in {job'.culprit, job'.narrowed} :
             c \in {job.culprit, job.narrowed} \/ InRange(c)
    BY BisectEffect DEF IInv
  <1>2. job.pc = "bisect"
    BY DEF Bisect
  <1>3. Stands
    BY <1>1, SameRunsStand
  <1>4. job.culprit = 0 /\ job.narrowed = 0
    BY <1>2 DEF IInv, JobsInv, JobRange
  <1>5. JobRange'
    BY <1>1, <1>4 DEF IInv, JobsInv, JobRange, InRange, SameJob
  <1>6. Ready'
    BY <1>1, <1>2 DEF IInv, Ready, OpenIssues
  <1> QED BY <1>1, <1>3, <1>5, <1>6, AdvanceJob

(* One issue is closed: by a human, or by the bot on behalf of a later run. *)
LEMMA CloseIssue ==
    ASSUME IInv, Grows, NEW k \in DOMAIN issues, NEW x \in Issue,
           issues' = [issues EXCEPT ![k] = x], SameRange(x, issues[k]), x.state # "open",
           x.state = "bot" /\ x.closedAt # 0 => x.run < x.closedAt
    PROVE  IssuesInv' /\ OpenIssues' \subseteq OpenIssues
  <1>1. /\ DOMAIN issues' = DOMAIN issues
        /\ \A m \in DOMAIN issues : issues'[m] = IF m = k THEN x ELSE issues[m]
    OBVIOUS
  <1>2. OpenIssues' \subseteq OpenIssues
    BY <1>1 DEF OpenIssues
  <1>3. OneOpenIssue'
    BY <1>2 DEF IInv, IssuesInv, OneOpenIssue
  <1>4. CloseIsLater'
    BY <1>1 DEF IInv, IssuesInv, CloseIsLater
  <1>5. \A m \in DOMAIN issues : SameRange(issues'[m], issues[m])
    BY <1>1 DEF SameRange
  <1>6. IssuesOwned'
    BY <1>1, <1>5 DEF IInv, IssuesInv, IssuesOwned, Grows, SameRange
  <1>7. RangePointsForward'
    BY <1>1, <1>5 DEF IInv, IssuesInv, RangePointsForward, SameRange
  <1> QED BY <1>2, <1>3, <1>4, <1>6, <1>7 DEF IssuesInv

LEMMA HumanCloseStep == ASSUME IInv, HumanClose PROVE IInv'
  <1>1. TypeInv' /\ UNCHANGED <<runs, job, pend>>
    BY HumanCloseEffect DEF IInv
  <1>2. RunsInv' /\ Grows
    BY <1>1, SameRuns DEF IInv
  <1>3. IssuesInv' /\ OpenIssues' \subseteq OpenIssues
    BY <1>2, HumanCloseEffect, CloseIssue DEF IInv
  <1>4. JobsInv'
    BY <1>1 DEF IInv, JobsInv, JobsOwned, Owned, PendFresh, JobRange, InRange
  <1>5. Ready'
    BY <1>1, <1>3 DEF IInv, Ready
  <1> QED BY <1>1, <1>2, <1>3, <1>4, <1>5 DEF IInv

(* The run of a called job comes after every run an issue was filed for.    *)
LEMMA CallAfterIssues ==
    ASSUME IInv, job.kind = "call", NEW k \in DOMAIN issues
    PROVE  issues[k].run < job.run
  <1>1. /\ job.run \in DOMAIN runs /\ runs[job.run].verdict = "none"
        /\ DOMAIN runs = 1..Len(runs) /\ Len(runs) \in Nat
    BY LenProperties DEF IInv, TypeInv, TypeOK, RunsNamed, JobsInv, JobsOwned, Owned
  <1>2. CASE issues[k].run = 0
    BY <1>1, <1>2
  <1>3. CASE issues[k].run # 0
    <2>1. /\ issues[k].run \in DOMAIN runs /\ runs[issues[k].run].result # "pending"
          /\ runs[issues[k].run].verdict # "none"
      BY <1>3 DEF IInv, IssuesInv, IssuesOwned
    <2>2. issues[k].run <= job.run
      BY <2>1, CallIsLast DEF IInv, JobsInv
    <2> QED BY <1>1, <2>1, <2>2
  <1> QED BY <1>2, <1>3

LEMMA AutoCloseStep == ASSUME IInv, AutoClose PROVE IInv'
  <1>1. TypeInv'
    BY AutoCloseEffect DEF IInv
  <1>2. PICK v \in Verdicts : v # "none" /\ FinishJob(v)
    BY AutoCloseEffect DEF IInv
  <1>3. RunsInv' /\ Grows /\ JobsInv' /\ job'.pc \in {"idle", "detect"}
    BY <1>1, <1>2, EndJob
  <1>4. IssuesInv'
    <2>1. CASE issues' = issues
      BY <1>3, <2>1, KeepIssues
    <2>2. CASE issues' # issues
      <3>1. PICK k \in DOMAIN issues, x \in Issue :
              /\ issues' = [issues EXCEPT ![k] = x] /\ SameRange(x, issues[k])
              /\ x.state = "bot" /\ x.closedAt = job.run
        BY <2>2, AutoCloseEffect DEF IInv
      <3>2. x.closedAt # 0 => x.run < x.closedAt
        <4> SUFFICES ASSUME job.run # 0 PROVE issues[k].run < job.run
          BY <3>1 DEF SameRange
        <4>1. job.kind = "call"
          BY DEF IInv, JobsInv, JobsOwned, Owned
        <4> QED BY <4>1, CallAfterIssues
      <3> QED BY <1>3, <3>1, <3>2, CloseIssue
    <2> QED BY <2>1, <2>2
  <1>5. Ready'
    BY <1>3 DEF Ready
  <1> QED BY <1>1, <1>3, <1>4, <1>5 DEF IInv

(* The range a called job files: the good run is an earlier, concluded one. *)
LEMMA FiledRange ==
    ASSUME IInv, job.run # 0, job.goodRun # 0, job.commit # 0
    PROVE  job.goodRun < job.run /\ job.good <= job.commit
  <1>1. job.kind = "call"
    BY DEF IInv, JobsInv, JobsOwned, Owned
  <1>2. /\ job.run \in DOMAIN runs /\ runs[job.run].conclusion = "none"
        /\ job.commit = runs[job.run].commit
    BY <1>1 DEF IInv, TypeInv, RunsNamed, JobsInv, JobsOwned, Owned
  <1>3. /\ job.goodRun \in DOMAIN runs /\ runs[job.goodRun].conclusion = "completed"
        /\ job.good = runs[job.goodRun].commit
    BY DEF IInv, JobsInv, JobRange
  <1>4. runs[job.goodRun].result # "pending"
    BY <1>3 DEF IInv, RunsInv, Progress
  <1>5. job.goodRun <= job.run
    BY <1>1, <1>3, <1>4, CallIsLast DEF IInv, JobsInv
  <1>6. DOMAIN runs = 1..Len(runs) /\ Len(runs) \in Nat
    BY LenProperties DEF IInv, TypeInv, TypeOK
  <1>7. job.goodRun # job.run
    BY <1>2, <1>3
  <1>8. job.goodRun < job.run
    BY <1>2, <1>3, <1>5, <1>6, <1>7
  <1> QED BY <1>2, <1>3, <1>8 DEF IInv, RunsInv, Ordered

LEMMA FileStep == ASSUME IInv, File PROVE IInv'
  <1> DEFINE n == Len(issues) + 1
             x == issues'[n]
  <1>1. /\ TypeInv' /\ FinishJob("filed") /\ Len(issues') = n
        /\ \A k \in DOMAIN issues : issues'[k] = issues[k]
        /\ x.run = job.run /\ x.goodRun = job.goodRun /\ x.good = job.good
        /\ x.bad = job.commit /\ x.culprit = job.culprit
        /\ x.narrowed = job.narrowed /\ x.state = "open"
    BY FileEffect DEF IInv
  <1> HIDE DEF x
  <1>2. /\ RunsInv' /\ Grows /\ JobsInv' /\ job'.pc \in {"idle", "detect"}
        /\ job.kind = "call" => /\ job.run \in DOMAIN runs'
                                /\ runs'[job.run].result # "pending"
                                /\ runs'[job.run].verdict # "none"
    BY <1>1, EndJob DEF Verdicts
  <1>3. /\ DOMAIN issues = 1..Len(issues) /\ Len(issues) \in Nat
        /\ DOMAIN issues' = 1..n /\ DOMAIN issues' = DOMAIN issues \cup {n}
        /\ n \notin DOMAIN issues /\ issues'[n] = x
    <2>1. DOMAIN issues = 1..Len(issues) /\ Len(issues) \in Nat /\ DOMAIN issues' = 1..n
      BY <1>1, LenProperties DEF IInv, TypeInv, TypeOK
    <2> QED BY <2>1 DEF x
  <1> HIDE DEF n
  <1>4. OpenIssues = {} /\ job.pc = "file"
    BY DEF File, IInv, Ready
  <1>5. OneOpenIssue'
    <2>1. OpenIssues' \subseteq {n}
      BY <1>1, <1>3, <1>4 DEF OpenIssues
    <2> QED BY <2>1 DEF OneOpenIssue
  <1>6. CloseIsLater'
    BY <1>1, <1>3 DEF IInv, IssuesInv, CloseIsLater
  <1>7. IssuesOwned'
    <2>1. ASSUME NEW k \in DOMAIN issues, issues[k].run # 0
          PROVE  /\ issues[k].run \in DOMAIN runs'
                 /\ runs'[issues[k].run].result # "pending"
                 /\ runs'[issues[k].run].verdict # "none"
      BY <1>2, <2>1 DEF IInv, IssuesInv, IssuesOwned, Grows
    <2>2. job.run # 0 => job.kind = "call"
      BY DEF IInv, JobsInv, JobsOwned, Owned
    <2> QED BY <1>1, <1>2, <1>3, <2>1, <2>2 DEF IssuesOwned
  <1>8. RangePointsForward'
    <2>1. \A c \in {x.culprit, x.narrowed} \ {0} :
            x.good < c /\ (c <= x.bad \/ x.bad = x.good + 1)
      BY <1>1 DEF IInv, JobsInv, JobRange, InRange
    <2>2. x.run # 0 /\ x.goodRun # 0 /\ x.bad # 0 => x.goodRun < x.run /\ x.good <= x.bad
      BY <1>1, FiledRange
    <2> QED BY <1>1, <1>3, <2>1, <2>2 DEF IInv, IssuesInv, RangePointsForward
  <1>9. Ready'
    BY <1>2 DEF Ready
  <1> QED BY <1>1, <1>2, <1>5, <1>6, <1>7, <1>8, <1>9 DEF IInv, IssuesInv

(* IInv is inductive. *)
LEMMA StepIInv == IInv /\ [Next]_vars => IInv'
  <1> SUFFICES ASSUME IInv, [Next]_vars PROVE IInv'
    OBVIOUS
  <1>1. CASE UNCHANGED vars
    <2>1. TypeInv'
      BY <1>1, TypeStep DEF IInv
    <2> QED BY <1>1, <2>1, SameRunsStand, StandStep DEF vars
  <1>2. ASSUME NEW c \in Commit, Enqueue(c) PROVE IInv'
    BY <1>2, EnqueueStep
  <1>3. ASSUME NEW i \in DOMAIN runs, BuildDone(i) \/ Conclude(i) \/ Expire(i) PROVE IInv'
    BY <1>3, BuildDoneStep, ConcludeStep, ExpireStep
  <1>4. ASSUME NEW c \in Commit, NEW r \in {"success", "failure"}, Dispatch(c, r) PROVE IInv'
    BY <1>4, DispatchStep
  <1>5. CASE DetectSuccess \/ DetectFailure
    BY <1>5, DetectStep
  <1>6. CASE DetectCancelled \/ Abort
    BY <1>6, EndEffect, EndStep DEF IInv
  <1>7. CASE Dedup \/ Bound \/ Bisect
    BY <1>7, DedupStep, BoundStep, BisectStep
  <1>8. CASE AutoClose \/ File \/ HumanClose
    BY <1>8, AutoCloseStep, FileStep, HumanCloseStep
  <1> QED BY <1>1, <1>2, <1>3, <1>4, <1>5, <1>6, <1>7, <1>8 DEF Next

(* The watchdog never has two issues open, however the runs, dispatches,    *)
(* aborts and human closings interleave with the hours between the dedup    *)
(* step of sh-regression.yml and the filing: the concurrency group keeps    *)
(* every other filer out from the moment the open list was empty.           *)
THEOREM AtMostOneOpenIssue == Spec => []OneOpenIssue
  <1>1. IInv => OneOpenIssue
    BY DEF IInv, IssuesInv
  <1> QED BY <1>1, InitIInv, StepIInv, PTL DEF Spec

(* Auto-close on green is always the word of a later run than the one the   *)
(* issue was filed for: called jobs belong to the one run under way, and    *)
(* every filed run already has its verdict.                                 *)
THEOREM ClosesAreLater == Spec => []CloseIsLater
  <1>1. IInv => CloseIsLater
    BY DEF IInv, IssuesInv
  <1> QED BY <1>1, InitIInv, StepIInv, PTL DEF Spec

(* Every range an issue reports points forward: sh-lastgreen.py answers a   *)
(* completed run, which is older than the run under way and tested the same *)
(* or an earlier commit; culprit and narrowed end lie inside the range, if  *)
(* it is of more than one commit.                                           *)
THEOREM RangesPointForward == Spec => []RangePointsForward
  <1>1. IInv => RangePointsForward
    BY DEF IInv, IssuesInv
  <1> QED BY <1>1, InitIInv, StepIInv, PTL DEF Spec
-----------------------------------------------------------------------------
(* The evidence *)

(* A run sh-lastgreen.py may answer, and the newest of them.                *)
Green(i) == runs[i].conclusion = "completed" /\ runs[i].result = "success"

LastGreen(d) == /\ d \in DOMAIN runs /\ Green(d)
                /\ \A j \in DOMAIN runs : Green(j) => j <= d

(* No test fails in run i that passed in the last green run before it.      *)
NothingNew(i) ==
    \A b \in 1..(i - 1) :
        Green(b) /\ (\A j \in (b + 1)..(i - 1) : ~ Green(j)) =>
            runs[i].dj \subseteq runs[b].dj /\ runs[i].sim \subseteq runs[b].sim

(* A called job carries the result of its run. *)
Called(j) == j.kind = "call" => j.result = runs[j.run].result

(* A quiet watchdog that saw everything had nothing to report. *)
QuietRun(i) ==
    runs[i].verdict \in {"green", "closed"} =>
        /\ runs[i].result \in {"success", "cancelled"}
        /\ runs[i].result = "success" /\ ~ runs[i].blind => NothingNew(i)

(* The same of a job about to be quiet. *)
Closing ==
    job.pc = "close" /\ job.kind = "call" =>
        job.result = "success" /\ (~ runs[job.run].blind => NothingNew(job.run))

(* The tests a job is about to report fail in its run and, when the page of *)
(* runs is read in full, passed in the last green run.                      *)
DeltaFound ==
    job.pc \in {"dedup", "bound", "bisect", "file"} /\ job.type \in TestTypes =>
        /\ job.kind = "call"
        /\ job.tests # {} /\ job.tests \subseteq Fails(job.type, job.run)
        /\ "hide" \notin Faults =>
             \E d \in DOMAIN runs : LastGreen(d) /\ job.tests \cap Fails(job.type, d) = {}

(* The bound a called job found is still the last green run. *)
BoundFound ==
    "hide" \notin Faults /\ job.kind = "call" /\ job.goodRun # 0 => LastGreen(job.goodRun)

(* What DeltaFound and BoundFound leave in an issue. *)
IssueFound(x) ==
    x.type \in TestTypes =>
        /\ x.run # 0 /\ x.tests # {} /\ x.tests \subseteq Fails(x.type, x.run)
        /\ "hide" \notin Faults /\ x.goodRun # 0 =>
             /\ x.goodRun \in DOMAIN runs /\ runs[x.goodRun].result # "pending"
             /\ x.tests \cap Fails(x.type, x.goodRun) = {}

JobEvid == /\ Called(job) /\ Called(pend)
           /\ Closing /\ DeltaFound /\ BoundFound
QuietInv == \A i \in DOMAIN runs : QuietRun(i)
FoundInv == \A k \in DOMAIN issues : IssueFound(issues[k])
EvInv == JobEvid /\ QuietInv /\ FoundInv

(* What a step may do to the evidence: a build that is over keeps its       *)
(* result and its sums, a conclusion is final.                              *)
Kept == /\ DOMAIN runs \subseteq DOMAIN runs'
        /\ \A i \in DOMAIN runs :
             /\ runs[i].result # "pending" =>
                  /\ runs'[i].result = runs[i].result
                  /\ runs'[i].dj = runs[i].dj /\ runs'[i].sim = runs[i].sim
             /\ runs[i].conclusion # "none" => runs'[i].conclusion = runs[i].conclusion

(* And what most steps do not: mark evidence as missing, complete a run,    *)
(* end a watchdog quietly.                                                  *)
SameBlind == \A i \in DOMAIN runs :
               runs[i].result # "pending" => runs'[i].blind = runs[i].blind
NoNewGreen == \A j \in DOMAIN runs' : Green(j)' => j \in DOMAIN runs /\ Green(j)
NoNewQuiet == \A i \in DOMAIN runs' :
                runs'[i].verdict \in {"green", "closed"} =>
                  i \in DOMAIN runs /\ runs[i].verdict = runs'[i].verdict

(* One run is replaced by a later state of it. *)
LEMMA KeptByUpdate ==
    ASSUME TypeInv, NEW i \in DOMAIN runs, NEW r \in Run, runs' = [runs EXCEPT ![i] = r],
           runs[i].result # "pending" =>
             r.result = runs[i].result /\ r.dj = runs[i].dj /\ r.sim = runs[i].sim,
           runs[i].conclusion # "none" => r.conclusion = runs[i].conclusion
    PROVE  /\ Kept /\ DOMAIN runs' = DOMAIN runs
           /\ \A j \in DOMAIN runs : runs'[j] = IF j = i THEN r ELSE runs[j]
  <1>1. DOMAIN runs' = DOMAIN runs
    BY RunUpdateType
  <1>2. \A j \in DOMAIN runs : runs'[j] = IF j = i THEN r ELSE runs[j]
    BY DEF TypeInv, TypeOK
  <1> QED BY <1>1, <1>2 DEF Kept

(* A step that leaves the runs alone. *)
LEMMA KeptSame ==
    ASSUME runs' = runs
    PROVE  Kept /\ SameBlind /\ NoNewGreen /\ NoNewQuiet
  BY DEF Kept, SameBlind, NoNewGreen, NoNewQuiet, Green

(* Enqueue touches only runs without a build result. *)
LEMMA EnqueueKeeps ==
    ASSUME IInv, NEW c \in Commit, Enqueue(c)
    PROVE  Kept /\ SameBlind /\ NoNewGreen /\ NoNewQuiet
  <1>1. /\ Grows
        /\ \A i \in DOMAIN runs : runs[i].result # "pending" => runs'[i] = runs[i]
    BY EnqueueRuns DEF IInv
  <1>2. /\ TypeInv' /\ Len(runs') = Len(runs) + 1
        /\ runs'[Len(runs) + 1] = NewRun(c)
        /\ \A i \in DOMAIN runs :
             runs'[i] = IF Waiting(i)
                        THEN [runs[i] EXCEPT !.conclusion = "cancelled",
                                             !.verdict = "cancelled"]
                        ELSE runs[i]
    BY EnqueueType DEF IInv
  <1>3. /\ DOMAIN runs = 1..Len(runs) /\ Len(runs) \in Nat
        /\ DOMAIN runs' = 1..(Len(runs) + 1)
    BY <1>2, LenProperties DEF IInv, TypeInv, TypeOK
  <1>4. ASSUME NEW i \in DOMAIN runs
        PROVE  \/ runs'[i] = runs[i]
               \/ runs'[i].conclusion = "cancelled" /\ runs'[i].verdict = "cancelled"
    <2>1. runs[i] \in Run
      BY RunType DEF IInv
    <2> QED BY <1>2, <2>1 DEF Run
  <1>5. /\ NewRun(c).result = "pending" /\ NewRun(c).verdict = "none"
    BY DEF NewRun
  <1>6. Kept
    BY <1>1 DEF Kept, Grows
  <1>7. SameBlind
    BY <1>1 DEF SameBlind
  <1>8. ASSUME NEW j \in DOMAIN runs' PROVE j \in DOMAIN runs \/ runs'[j] = NewRun(c)
    <2>1. j \in DOMAIN runs \/ j = Len(runs) + 1
      BY <1>3
    <2> QED BY <1>2, <2>1
  <1>9. NoNewGreen
    BY <1>4, <1>5, <1>8 DEF NoNewGreen, Green
  <1>10. NoNewQuiet
    BY <1>4, <1>5, <1>8 DEF NoNewQuiet
  <1> QED BY <1>6, <1>7, <1>9, <1>10

(* The end of a build fills in a run that had no result. *)
LEMMA BuildDoneKeeps ==
    ASSUME IInv, NEW i \in DOMAIN runs, BuildDone(i)
    PROVE  Kept /\ SameBlind /\ NoNewGreen /\ NoNewQuiet
  <1>1. PICK r \in Run : /\ runs' = [runs EXCEPT ![i] = r]
                         /\ r.conclusion = runs[i].conclusion
                         /\ r.verdict = runs[i].verdict
    BY BuildDoneEffect DEF IInv
  <1>2. runs[i].result = "pending" /\ runs[i].conclusion = "none"
    BY DEF BuildDone, Active
  <1>3. /\ Kept /\ DOMAIN runs' = DOMAIN runs
        /\ \A j \in DOMAIN runs : runs'[j] = IF j = i THEN r ELSE runs[j]
    BY <1>1, <1>2, KeptByUpdate DEF IInv
  <1> QED BY <1>1, <1>2, <1>3 DEF SameBlind, NoNewGreen, NoNewQuiet, Green

(* While a called job lives its run is the one under way, and does not      *)
(* conclude.                                                                *)
LEMMA ConcludeKeeps ==
    ASSUME IInv, NEW i \in DOMAIN runs, Conclude(i)
    PROVE  Kept /\ SameBlind /\ NoNewQuiet /\ job.kind # "call" /\ pend.kind # "call"
  <1>1. PICK x \in {"cancelled", "completed"} : runs' = [runs EXCEPT ![i].conclusion = x]
    BY DEF Conclude
  <1>2. runs[i] \in Run /\ Active(i) /\ runs[i].conclusion = "none" /\ runs[i].verdict # "none"
    BY RunType DEF IInv, Conclude, Active
  <1>3. PICK r \in Run : /\ runs' = [runs EXCEPT ![i] = r]
                         /\ r.result = runs[i].result /\ r.dj = runs[i].dj
                         /\ r.sim = runs[i].sim /\ r.verdict = runs[i].verdict
                         /\ r.blind = runs[i].blind
    <2> DEFINE r == [runs[i] EXCEPT !.conclusion = x]
    <2>1. /\ r \in Run /\ r.result = runs[i].result /\ r.dj = runs[i].dj
          /\ r.sim = runs[i].sim /\ r.verdict = runs[i].verdict /\ r.blind = runs[i].blind
      BY <1>2 DEF Run
    <2>2. runs' = [runs EXCEPT ![i] = r]
      BY <1>1
    <2> QED BY <2>1, <2>2
  <1>4. /\ Kept /\ DOMAIN runs' = DOMAIN runs
        /\ \A j \in DOMAIN runs : runs'[j] = IF j = i THEN r ELSE runs[j]
    BY <1>2, <1>3, KeptByUpdate DEF IInv
  <1>5. SameBlind /\ NoNewQuiet
    BY <1>3, <1>4 DEF SameBlind, NoNewQuiet
  <1>6. ASSUME NEW j \in {job, pend}, j.kind = "call" PROVE FALSE
    <2>1. /\ j.run \in DOMAIN runs /\ runs[j.run].conclusion = "none"
          /\ runs[j.run].result # "pending" /\ runs[j.run].verdict = "none"
      BY <1>6 DEF IInv, TypeInv, RunsNamed, JobsInv, JobsOwned, Owned
    <2>2. DOMAIN runs = 1..Len(runs) /\ Len(runs) \in Nat
      BY LenProperties DEF IInv, TypeInv, TypeOK
    <2>3. ~ (i < j.run)
      BY <1>2, <2>1 DEF IInv, RunsInv, Ordered
    <2>4. j.run \notin 1..(i - 1)
      BY <1>2, <2>1 DEF Active
    <2> QED BY <1>2, <2>1, <2>2, <2>3, <2>4
  <1> QED BY <1>4, <1>5, <1>6

LEMMA ExpireKeeps ==
    ASSUME IInv, NEW i \in DOMAIN runs, Expire(i)
    PROVE  Kept /\ SameBlind /\ NoNewGreen /\ NoNewQuiet
  <1>1. runs[i] \in Run
    BY RunType DEF IInv
  <1> DEFINE r == [runs[i] EXCEPT !.djArt = FALSE, !.simArt = FALSE]
  <1>2. /\ r \in Run /\ r.result = runs[i].result /\ r.dj = runs[i].dj /\ r.sim = runs[i].sim
        /\ r.conclusion = runs[i].conclusion /\ r.verdict = runs[i].verdict
        /\ r.blind = runs[i].blind
    BY <1>1 DEF Run
  <1>3. runs' = [runs EXCEPT ![i] = r]
    BY DEF Expire
  <1> HIDE DEF r
  <1>4. /\ Kept /\ DOMAIN runs' = DOMAIN runs
        /\ \A j \in DOMAIN runs : runs'[j] = IF j = i THEN r ELSE runs[j]
    BY <1>2, <1>3, KeptByUpdate DEF IInv
  <1> QED BY <1>2, <1>4 DEF SameBlind, NoNewGreen, NoNewQuiet, Green

(* A verdict leaves the evidence of its run alone. *)
LEMMA VerdictKeeps ==
    ASSUME IInv, NEW i \in DOMAIN runs, NEW v \in Verdicts,
           runs' = [runs EXCEPT ![i].verdict = v]
    PROVE  /\ Kept /\ SameBlind /\ NoNewGreen /\ DOMAIN runs' = DOMAIN runs
           /\ \A j \in DOMAIN runs : runs'[j].verdict = IF j = i THEN v ELSE runs[j].verdict
  <1>1. runs[i] \in Run
    BY RunType DEF IInv
  <1> DEFINE r == [runs[i] EXCEPT !.verdict = v]
  <1>2. /\ r \in Run /\ r.result = runs[i].result /\ r.dj = runs[i].dj /\ r.sim = runs[i].sim
        /\ r.conclusion = runs[i].conclusion /\ r.verdict = v /\ r.blind = runs[i].blind
    BY <1>1 DEF Run
  <1>3. runs' = [runs EXCEPT ![i] = r]
    OBVIOUS
  <1> HIDE DEF r
  <1>4. /\ Kept /\ DOMAIN runs' = DOMAIN runs
        /\ \A j \in DOMAIN runs : runs'[j] = IF j = i THEN r ELSE runs[j]
    BY <1>2, <1>3, KeptByUpdate DEF IInv
  <1> QED BY <1>2, <1>4 DEF SameBlind, NoNewGreen, Green

LEMMA DispatchKeeps ==
    ASSUME IInv, NEW c \in Commit, NEW q \in {"success", "failure"}, Dispatch(c, q)
    PROVE  Kept /\ SameBlind /\ NoNewGreen /\ NoNewQuiet
  <1>1. CASE job.pc # "idle" /\ pend.kind = "call"
    <2>1. pend.run \in DOMAIN runs
      BY <1>1 DEF IInv, TypeInv, RunsNamed
    <2>2. PICK i \in DOMAIN runs : i = pend.run
      BY <2>1
    <2>3. runs' = [runs EXCEPT ![i].verdict = "cancelled"]
      BY <1>1, <2>2 DEF Dispatch
    <2>4. "cancelled" \in Verdicts
      BY DEF Verdicts
    <2>5. /\ Kept /\ SameBlind /\ NoNewGreen /\ DOMAIN runs' = DOMAIN runs
          /\ \A j \in DOMAIN runs :
               runs'[j].verdict = IF j = i THEN "cancelled" ELSE runs[j].verdict
      BY <2>3, <2>4, VerdictKeeps
    <2> QED BY <2>5 DEF NoNewQuiet
  <1>2. CASE ~ (job.pc # "idle" /\ pend.kind = "call")
    <2>1. runs' = runs
      BY <1>2 DEF Dispatch
    <2> QED BY <2>1, KeptSame
  <1> QED BY <1>1, <1>2

(* The end of a job gives its run a verdict and changes no other. *)
LEMMA FinishKeeps ==
    ASSUME IInv, NEW v \in Verdicts, FinishJob(v)
    PROVE  /\ Kept /\ SameBlind /\ NoNewGreen
           /\ job' = pend /\ pend' = NoJob
           /\ \A i \in DOMAIN runs' :
                /\ i \in DOMAIN runs
                /\ \/ runs'[i].verdict = runs[i].verdict
                   \/ job.kind = "call" /\ i = job.run /\ runs'[i].verdict = v
  <1>1. job' = pend /\ pend' = NoJob
    BY DEF FinishJob
  <1>2. CASE job.kind # "call"
    <2>1. runs' = runs
      BY <1>2 DEF FinishJob
    <2> QED BY <1>1, <2>1, KeptSame
  <1>3. CASE job.kind = "call"
    <2>1. job.run \in DOMAIN runs
      BY <1>3 DEF IInv, TypeInv, RunsNamed
    <2>2. PICK i \in DOMAIN runs : i = job.run
      BY <2>1
    <2>3. runs' = [runs EXCEPT ![i].verdict = v]
      BY <1>3, <2>2 DEF FinishJob
    <2>4. /\ Kept /\ SameBlind /\ NoNewGreen /\ DOMAIN runs' = DOMAIN runs
          /\ \A j \in DOMAIN runs : runs'[j].verdict = IF j = i THEN v ELSE runs[j].verdict
      BY <2>3, VerdictKeeps
    <2> QED BY <1>1, <1>3, <2>2, <2>4
  <1> QED BY <1>2, <1>3

(* Detection marks what evidence was missing, in the run of the job alone. *)
LEMMA DetectSuccessKeeps ==
    ASSUME IInv, NEW blind \in BOOLEAN,
           runs' = IF job.kind = "call" THEN [runs EXCEPT ![job.run].blind = blind] ELSE runs
    PROVE  /\ Kept /\ NoNewGreen /\ NoNewQuiet
           /\ job.kind = "call" => runs'[job.run].blind = blind
           /\ \A i \in DOMAIN runs : runs[i].verdict # "none" => runs'[i] = runs[i]
  <1>1. CASE job.kind # "call"
    <2>1. runs' = runs
      BY <1>1
    <2> QED BY <1>1, <2>1, KeptSame
  <1>2. CASE job.kind = "call"
    <2>1. job.run \in DOMAIN runs /\ runs[job.run].verdict = "none"
      BY <1>2 DEF IInv, TypeInv, RunsNamed, JobsInv, JobsOwned, Owned
    <2>2. PICK i \in DOMAIN runs : i = job.run
      BY <2>1
    <2>3. runs[i] \in Run
      BY RunType DEF IInv
    <2> DEFINE r == [runs[i] EXCEPT !.blind = blind]
    <2>4. /\ r \in Run /\ r.result = runs[i].result /\ r.dj = runs[i].dj
          /\ r.sim = runs[i].sim /\ r.conclusion = runs[i].conclusion
          /\ r.verdict = runs[i].verdict /\ r.blind = blind
      BY <2>3 DEF Run
    <2>5. runs' = [runs EXCEPT ![i] = r]
      BY <1>2, <2>2
    <2> HIDE DEF r
    <2>6. /\ Kept /\ DOMAIN runs' = DOMAIN runs
          /\ \A j \in DOMAIN runs : runs'[j] = IF j = i THEN r ELSE runs[j]
      BY <2>4, <2>5, KeptByUpdate DEF IInv
    <2> QED BY <2>1, <2>2, <2>4, <2>6 DEF NoNewGreen, NoNewQuiet, Green
  <1> QED BY <1>1, <1>2

(* What a build that is over brought that was new is settled: every run     *)
(* before it has concluded.                                                 *)
LEMMA NothingNewKept ==
    ASSUME IInv, Kept, NEW i \in DOMAIN runs, runs[i].result # "pending", NothingNew(i)
    PROVE  NothingNew(i)'
  <1>1. DOMAIN runs = 1..Len(runs) /\ Len(runs) \in Nat
    BY LenProperties DEF IInv, TypeInv, TypeOK
  <1>2. ASSUME NEW b \in 1..(i - 1)
        PROVE  /\ b \in DOMAIN runs
               /\ Green(b)' <=> Green(b)
               /\ Green(b) => runs'[b].dj = runs[b].dj /\ runs'[b].sim = runs[b].sim
    <2>1. b \in DOMAIN runs /\ b < i
      BY <1>1
    <2>2. runs[b].conclusion # "none"
      BY <2>1 DEF IInv, RunsInv, Ordered
    <2>3. runs'[b].conclusion = runs[b].conclusion
      BY <2>1, <2>2 DEF Kept
    <2>4. runs[b].conclusion = "completed" =>
            /\ runs'[b].result = runs[b].result
            /\ runs'[b].dj = runs[b].dj /\ runs'[b].sim = runs[b].sim
      BY <2>1 DEF IInv, RunsInv, Progress, Kept
    <2> QED BY <2>1, <2>3, <2>4 DEF Green
  <1>3. runs'[i].dj = runs[i].dj /\ runs'[i].sim = runs[i].sim
    BY DEF Kept
  <1> SUFFICES ASSUME NEW b \in 1..(i - 1), Green(b)',
                      \A j \in (b + 1)..(i - 1) : ~ Green(j)'
               PROVE  runs'[i].dj \subseteq runs'[b].dj /\ runs'[i].sim \subseteq runs'[b].sim
    BY DEF NothingNew
  <1>4. \A j \in (b + 1)..(i - 1) : j \in 1..(i - 1)
    BY <1>1
  <1>5. Green(b) /\ (\A j \in (b + 1)..(i - 1) : ~ Green(j))
    BY <1>2, <1>4
  <1>6. runs[i].dj \subseteq runs[b].dj /\ runs[i].sim \subseteq runs[b].sim
    BY <1>5 DEF NothingNew
  <1> QED BY <1>2, <1>3, <1>5, <1>6

(* Quiet runs stay justified while no watchdog ends quietly. *)
LEMMA QuietKept ==
    ASSUME IInv, EvInv, Kept, NEW i \in DOMAIN runs,
           runs'[i].verdict \in {"green", "closed"} =>
             runs[i].verdict = runs'[i].verdict /\ runs'[i].blind = runs[i].blind
    PROVE  QuietRun(i)'
  <1> SUFFICES ASSUME runs'[i].verdict \in {"green", "closed"}
               PROVE  /\ runs'[i].result \in {"success", "cancelled"}
                      /\ runs'[i].result = "success" /\ ~ runs'[i].blind => NothingNew(i)'
    BY DEF QuietRun
  <1>1. /\ runs[i].result \in {"success", "cancelled"}
        /\ runs[i].result = "success" /\ ~ runs[i].blind => NothingNew(i)
    BY DEF EvInv, QuietInv, QuietRun
  <1>2. runs'[i].result = runs[i].result
    BY <1>1 DEF Kept
  <1> QED BY <1>1, <1>2, NothingNewKept

(* What an issue was filed on stays on record. *)
LEMMA IssueKept ==
    ASSUME IInv, Kept, NEW x, IssueFound(x),
           x.type \in TestTypes => x.run \in DOMAIN runs /\ runs[x.run].result # "pending"
    PROVE  IssueFound(x)'
  <1> SUFFICES ASSUME x.type \in TestTypes
               PROVE  /\ x.run # 0 /\ x.tests # {} /\ x.tests \subseteq Fails(x.type, x.run)'
                      /\ "hide" \notin Faults /\ x.goodRun # 0 =>
                           /\ x.goodRun \in DOMAIN runs'
                           /\ runs'[x.goodRun].result # "pending"
                           /\ x.tests \cap Fails(x.type, x.goodRun)' = {}
    BY DEF IssueFound
  <1>1. ASSUME NEW i \in DOMAIN runs, runs[i].result # "pending"
        PROVE  /\ i \in DOMAIN runs' /\ runs'[i].result # "pending"
               /\ Fails(x.type, i)' = Fails(x.type, i)
    BY <1>1 DEF Kept, Fails
  <1>2. /\ x.run # 0 /\ x.tests # {} /\ x.tests \subseteq Fails(x.type, x.run)
        /\ "hide" \notin Faults /\ x.goodRun # 0 =>
             /\ x.goodRun \in DOMAIN runs /\ runs[x.goodRun].result # "pending"
             /\ x.tests \cap Fails(x.type, x.goodRun) = {}
    BY DEF IssueFound
  <1> QED BY <1>1, <1>2

(* The last green run is that until a run completes. *)
LEMMA LastGreenKept ==
    ASSUME IInv, Kept, NoNewGreen, NEW d, LastGreen(d)
    PROVE  /\ LastGreen(d)' /\ d \in DOMAIN runs
           /\ runs[d].result # "pending"
           /\ runs'[d].dj = runs[d].dj /\ runs'[d].sim = runs[d].sim
  <1>1. d \in DOMAIN runs /\ Green(d) /\ \A j \in DOMAIN runs : Green(j) => j <= d
    BY DEF LastGreen
  <1>2. runs[d].result # "pending" /\ runs[d].conclusion # "none"
    BY <1>1 DEF Green
  <1>3. /\ d \in DOMAIN runs' /\ Green(d)'
        /\ runs'[d].dj = runs[d].dj /\ runs'[d].sim = runs[d].sim
    BY <1>1, <1>2 DEF Kept, Green
  <1>4. \A j \in DOMAIN runs' : Green(j)' => j <= d
    BY <1>1 DEF NoNewGreen
  <1> QED BY <1>1, <1>2, <1>3, <1>4 DEF LastGreen

(* A job keeps the result it was called with. *)
LEMMA CalledKept ==
    ASSUME IInv, Kept, NEW j \in {job, pend}, Called(j)
    PROVE  Called(j)'
  <1>1. j.kind = "call" => j.run \in DOMAIN runs /\ runs[j.run].result # "pending"
    BY DEF IInv, TypeInv, RunsNamed, JobsInv, JobsOwned, Owned
  <1> QED BY <1>1 DEF Called, Kept

(* The evidence invariant holds before the first run. *)
LEMMA EvInit == Init => EvInv
  <1>1. /\ NoJob.kind = "none" /\ NoJob.pc = "idle" /\ NoJob.goodRun = 0
    BY DEF NoJob, NewJob
  <1>2. Init => DOMAIN runs = {} /\ DOMAIN issues = {} /\ job = NoJob /\ pend = NoJob
    BY DEF Init
  <1> QED BY <1>1, <1>2 DEF EvInv, JobEvid, Called, QuietInv, Closing, DeltaFound, BoundFound,
                            FoundInv

(* A step that ends no watchdog quietly. *)
LEMMA QuietAll ==
    ASSUME IInv, EvInv, Kept, SameBlind, NoNewQuiet
    PROVE  QuietInv'
  <1> SUFFICES ASSUME NEW i \in DOMAIN runs' PROVE QuietRun(i)'
    BY DEF QuietInv
  <1>1. CASE runs'[i].verdict \notin {"green", "closed"}
    BY <1>1 DEF QuietRun
  <1>2. CASE runs'[i].verdict \in {"green", "closed"}
    <2>1. i \in DOMAIN runs /\ runs[i].verdict = runs'[i].verdict
      BY <1>2 DEF NoNewQuiet
    <2>2. runs[i].result # "pending"
      BY <1>2, <2>1 DEF EvInv, QuietInv, QuietRun
    <2>3. runs'[i].blind = runs[i].blind
      BY <2>1, <2>2 DEF SameBlind
    <2> QED BY <2>1, <2>3, QuietKept
  <1> QED BY <1>1, <1>2

(* The issues are the old ones, open or closed. *)
SameFinding(x, y) == /\ x.type = y.type /\ x.tests = y.tests
                     /\ x.run = y.run /\ x.goodRun = y.goodRun

LEMMA FoundKept ==
    ASSUME IInv, EvInv, Kept, NEW k \in DOMAIN issues', NEW m \in DOMAIN issues,
           SameFinding(issues'[k], issues[m])
    PROVE  (IssueFound(issues[k]))'
  <1>1. PICK x : x = issues[m]
    OBVIOUS
  <1>2. IssueFound(x)
    BY <1>1 DEF EvInv, FoundInv
  <1>3. x.type \in TestTypes => x.run \in DOMAIN runs /\ runs[x.run].result # "pending"
    BY <1>1, <1>2 DEF IssueFound, IInv, IssuesInv, IssuesOwned
  <1>4. IssueFound(x)'
    BY <1>2, <1>3, IssueKept
  <1>5. SameFinding(issues'[k], x)
    BY <1>1
  <1> QED BY <1>4, <1>5 DEF IssueFound, SameFinding, Fails

LEMMA FoundAll == ASSUME IInv, EvInv, Kept, issues' = issues PROVE FoundInv'
  <1> SUFFICES ASSUME NEW k \in DOMAIN issues' PROVE (IssueFound(issues[k]))'
    BY DEF FoundInv
  <1>1. k \in DOMAIN issues /\ SameFinding(issues'[k], issues[k])
    BY DEF SameFinding
  <1> QED BY <1>1, FoundKept

(* The delta of the running job stands while no run completes. *)
LEMMA DeltaStays ==
    ASSUME IInv, EvInv, Kept, NoNewGreen \/ job.kind # "call", SameJob(job'),
           job'.type = job.type, job'.tests = job.tests,
           job.pc \in {"dedup", "bound", "bisect", "file"}
    PROVE  DeltaFound'
  <1> SUFFICES ASSUME job.type \in TestTypes PROVE DeltaFound'
    BY DEF DeltaFound
  <1>1. PICK t, i : t = job.type /\ i = job.run
    OBVIOUS
  <1>2. /\ job.kind = "call" /\ job.tests # {} /\ job.tests \subseteq Fails(t, i)
        /\ "hide" \notin Faults =>
             \E d \in DOMAIN runs : LastGreen(d) /\ job.tests \cap Fails(t, d) = {}
    BY <1>1 DEF EvInv, JobEvid, DeltaFound
  <1>3. i \in DOMAIN runs /\ runs[i].result # "pending"
    BY <1>1, <1>2 DEF IInv, TypeInv, RunsNamed, JobsInv, JobsOwned, Owned
  <1>4. job.tests \subseteq Fails(t, i)'
    BY <1>2, <1>3 DEF Kept, Fails
  <1>5. ASSUME "hide" \notin Faults
        PROVE  \E d \in DOMAIN runs' : LastGreen(d)' /\ job.tests \cap Fails(t, d)' = {}
    <2>1. PICK d \in DOMAIN runs : LastGreen(d) /\ job.tests \cap Fails(t, d) = {}
      BY <1>2, <1>5
    <2>2. /\ LastGreen(d)' /\ d \in DOMAIN runs
          /\ runs'[d].dj = runs[d].dj /\ runs'[d].sim = runs[d].sim
      BY <1>2, <2>1, LastGreenKept
    <2>3. d \in DOMAIN runs'
      BY <2>2 DEF Kept
    <2>4. Fails(t, d)' = Fails(t, d)
      BY <2>2 DEF Fails
    <2> QED BY <2>1, <2>2, <2>3, <2>4
  <1>6. job'.kind = "call" /\ job'.run = i /\ job'.type = t /\ job'.tests = job.tests
    BY <1>1, <1>2 DEF SameJob
  <1> QED BY <1>2, <1>4, <1>5, <1>6 DEF DeltaFound, Fails

(* So does its bound. *)
LEMMA BoundStays ==
    ASSUME IInv, EvInv, Kept, NoNewGreen \/ job.kind # "call", SameJob(job'),
           job'.goodRun = job.goodRun
    PROVE  BoundFound'
  <1> SUFFICES ASSUME "hide" \notin Faults, job.kind = "call", job.goodRun # 0
               PROVE  LastGreen(job.goodRun)'
    BY DEF BoundFound, SameJob
  <1>1. PICK d : d = job.goodRun
    OBVIOUS
  <1>2. LastGreen(d)
    BY <1>1 DEF EvInv, JobEvid, BoundFound
  <1>3. LastGreen(d)' /\ job'.goodRun = d
    BY <1>1, <1>2, LastGreenKept
  <1> QED BY <1>3 DEF LastGreen

(* A step that leaves the running job alone. *)
LEMMA JobStays ==
    ASSUME IInv, EvInv, Kept, SameBlind, NoNewGreen \/ job.kind # "call", job' = job
    PROVE  Called(job)' /\ Closing' /\ DeltaFound' /\ BoundFound'
  <1>1. Called(job)'
    <2>1. PICK a : a = job
      OBVIOUS
    <2>2. Called(a)'
      BY <2>1, CalledKept DEF EvInv, JobEvid
    <2> QED BY <2>1, <2>2 DEF Called
  <1>2. Closing'
    <2> SUFFICES ASSUME job.pc = "close", job.kind = "call"
                 PROVE  Closing'
      BY DEF Closing
    <2>1. PICK i : i = job.run
      OBVIOUS
    <2>2. i \in DOMAIN runs /\ runs[i].result # "pending"
      BY <2>1 DEF IInv, TypeInv, RunsNamed, JobsInv, JobsOwned, Owned
    <2>3. job.result = "success" /\ (~ runs[i].blind => NothingNew(i))
      BY <2>1 DEF EvInv, JobEvid, Closing
    <2>4. ~ runs'[i].blind => NothingNew(i)'
      BY <2>2, <2>3, NothingNewKept DEF SameBlind
    <2> QED BY <2>1, <2>3, <2>4 DEF Closing, NothingNew, Green
  <1>3. SameJob(job') /\ job'.type = job.type /\ job'.tests = job.tests
        /\ job'.goodRun = job.goodRun
    BY DEF SameJob
  <1>4. DeltaFound'
    <2>1. CASE job.pc \in {"dedup", "bound", "bisect", "file"}
      BY <1>3, <2>1, DeltaStays
    <2>2. CASE job.pc \notin {"dedup", "bound", "bisect", "file"}
      BY <2>2 DEF DeltaFound
    <2> QED BY <2>1, <2>2
  <1>5. BoundFound'
    BY <1>3, BoundStays
  <1> QED BY <1>1, <1>2, <1>4, <1>5

(* A waiting job keeps its result, in its place or as the running one. *)
LEMMA PendCalled ==
    ASSUME IInv, EvInv, Kept
    PROVE  /\ pend' = pend => Called(pend)'
           /\ job' = pend => Called(job)'
  <1>1. PICK b : b = pend
    OBVIOUS
  <1>2. Called(b)'
    BY <1>1, CalledKept DEF EvInv, JobEvid
  <1> QED BY <1>1, <1>2 DEF Called

(* A step that leaves both jobs alone. *)
LEMMA EvKept ==
    ASSUME IInv, EvInv, Kept, SameBlind, NoNewQuiet, NoNewGreen \/ job.kind # "call",
           UNCHANGED <<job, pend>>, FoundInv'
    PROVE  EvInv'
  BY JobStays, PendCalled, QuietAll DEF EvInv, JobEvid

(* The job ends: the next one has found nothing yet. *)
LEMMA EvEnded ==
    ASSUME IInv, EvInv, NEW v \in Verdicts, FinishJob(v), FoundInv',
           job.kind = "call" /\ v \in {"green", "closed"} =>
             /\ runs[job.run].result \in {"success", "cancelled"}
             /\ runs[job.run].result = "success" /\ ~ runs[job.run].blind =>
                  NothingNew(job.run)
    PROVE  EvInv'
  <1>1. /\ Kept /\ SameBlind /\ job' = pend /\ pend' = NoJob
        /\ \A i \in DOMAIN runs' :
             /\ i \in DOMAIN runs
             /\ \/ runs'[i].verdict = runs[i].verdict
                \/ job.kind = "call" /\ i = job.run /\ runs'[i].verdict = v
    BY FinishKeeps
  <1>2. /\ NoJob.kind = "none" /\ NoJob.pc = "idle" /\ NoJob.goodRun = 0
    BY DEF NoJob, NewJob
  <1>3. Called(job)' /\ Called(pend)'
    BY <1>1, <1>2, PendCalled DEF Called
  <1>4. job'.pc \in {"idle", "detect"} /\ job'.goodRun = 0
    BY <1>1 DEF IInv, JobsInv, PendFresh
  <1>5. Closing' /\ DeltaFound' /\ BoundFound'
    BY <1>4 DEF Closing, DeltaFound, BoundFound
  <1>6. QuietInv'
    <2> SUFFICES ASSUME NEW i \in DOMAIN runs', runs'[i].verdict \in {"green", "closed"}
                 PROVE  QuietRun(i)'
      BY DEF QuietInv, QuietRun
    <2>1. CASE runs'[i].verdict = runs[i].verdict
      <3>1. i \in DOMAIN runs
        BY <1>1
      <3>2. runs[i].result # "pending"
        BY <2>1, <3>1 DEF EvInv, QuietInv, QuietRun
      <3>3. runs'[i].blind = runs[i].blind
        BY <1>1, <3>1, <3>2 DEF SameBlind
      <3> QED BY <1>1, <2>1, <3>1, <3>3, QuietKept
    <2>2. CASE job.kind = "call" /\ i = job.run /\ runs'[i].verdict = v
      <3>1. /\ i \in DOMAIN runs /\ runs[i].result \in {"success", "cancelled"}
            /\ runs[i].result = "success" /\ ~ runs[i].blind => NothingNew(i)
        BY <1>1, <2>2
      <3>2. runs'[i].result = runs[i].result /\ runs'[i].blind = runs[i].blind
        BY <1>1, <3>1 DEF Kept, SameBlind
      <3>3. runs[i].result = "success" /\ ~ runs[i].blind => NothingNew(i)'
        BY <1>1, <3>1, NothingNewKept
      <3> QED BY <3>1, <3>2, <3>3 DEF QuietRun
    <2> QED BY <1>1, <2>1, <2>2
  <1> QED BY <1>3, <1>5, <1>6 DEF EvInv, JobEvid

(* A job joins the group, fresh. *)
LEMMA EvJoined ==
    ASSUME IInv, EvInv, Kept, SameBlind, NoNewGreen, NoNewQuiet, issues' = issues,
           NEW n, JoinGroup(n), n.pc = "detect", n.goodRun = 0, Called(n)'
    PROVE  EvInv'
  <1>1. FoundInv' /\ QuietInv'
    BY FoundAll, QuietAll
  <1>2. CASE job.pc = "idle"
    <2>1. job' = n /\ pend' = pend
      BY <1>2 DEF JoinGroup
    <2>2. Called(job)' /\ Called(pend)'
      BY <2>1, PendCalled DEF Called
    <2>3. Closing' /\ DeltaFound' /\ BoundFound'
      BY <2>1 DEF Closing, DeltaFound, BoundFound
    <2> QED BY <1>1, <2>2, <2>3 DEF EvInv, JobEvid
  <1>3. CASE job.pc # "idle"
    <2>1. job' = job /\ pend' = n
      BY <1>3 DEF JoinGroup
    <2>2. Called(pend)'
      BY <2>1 DEF Called
    <2> QED BY <1>1, <2>1, <2>2, JobStays DEF EvInv, JobEvid
  <1> QED BY <1>2, <1>3

(* One lemma per action: the action preserves EvInv. *)
LEMMA EvEnqueue == ASSUME IInv, EvInv, NEW c \in Commit, Enqueue(c) PROVE EvInv'
  <1>1. UNCHANGED <<issues, job, pend>>
    BY DEF Enqueue, Queue
  <1> QED BY <1>1, EnqueueKeeps, FoundAll, EvKept

LEMMA EvConclude == ASSUME IInv, EvInv, NEW i \in DOMAIN runs, Conclude(i) PROVE EvInv'
  <1>1. UNCHANGED <<issues, job, pend>>
    BY DEF Conclude
  <1> QED BY <1>1, ConcludeKeeps, FoundAll, EvKept

LEMMA EvExpire == ASSUME IInv, EvInv, NEW i \in DOMAIN runs, Expire(i) PROVE EvInv'
  <1>1. UNCHANGED <<issues, job, pend>>
    BY DEF Expire
  <1> QED BY <1>1, ExpireKeeps, FoundAll, EvKept

LEMMA EvDispatch ==
    ASSUME IInv, EvInv, NEW c \in Commit, NEW q \in {"success", "failure"}, Dispatch(c, q)
    PROVE  EvInv'
  <1>1. issues' = issues /\ JoinGroup(NewJob("dispatch", 0, c, q))
    BY DEF Dispatch
  <1> DEFINE n == NewJob("dispatch", 0, c, q)
  <1>2. n.kind = "dispatch" /\ n.pc = "detect" /\ n.goodRun = 0
    BY DEF NewJob
  <1>3. JoinGroup(n)
    BY <1>1
  <1> HIDE DEF n
  <1>4. Called(n)'
    BY <1>2 DEF Called
  <1>5. Kept /\ SameBlind /\ NoNewGreen /\ NoNewQuiet
    BY DispatchKeeps
  <1> QED BY <1>1, <1>2, <1>3, <1>4, <1>5, EvJoined

LEMMA EvBuildDone == ASSUME IInv, EvInv, NEW i \in DOMAIN runs, BuildDone(i) PROVE EvInv'
  <1>1. PICK o \in Outcomes :
          /\ runs' = [runs EXCEPT ![i] = BuildOutcome(i, o)]
          /\ JoinGroup(NewJob("call", i, IF o.step = "early" THEN 0 ELSE runs[i].commit,
                              o.result))
    BY DEF BuildDone
  <1>2. PICK c : c = IF o.step = "early" THEN 0 ELSE runs[i].commit
    OBVIOUS
  <1>3. PICK n : n = NewJob("call", i, c, o.result)
    OBVIOUS
  <1>4. JoinGroup(n)
    BY <1>1, <1>2, <1>3
  <1>5. /\ n.kind = "call" /\ n.run = i /\ n.result = o.result
        /\ n.pc = "detect" /\ n.goodRun = 0
    BY <1>3 DEF NewJob
  <1>6. runs'[i].result = o.result
    <2>1. runs[i] \in Run
      BY RunType DEF IInv
    <2>2. BuildOutcome(i, o).result = o.result
      BY <2>1 DEF BuildOutcome, Run
    <2>3. runs'[i] = BuildOutcome(i, o)
      BY <1>1 DEF IInv, TypeInv, TypeOK
    <2> QED BY <2>2, <2>3
  <1>7. Called(n)'
    BY <1>5, <1>6 DEF Called
  <1>8. issues' = issues
    BY DEF BuildDone
  <1>9. Kept /\ SameBlind /\ NoNewGreen /\ NoNewQuiet
    BY BuildDoneKeeps
  <1> QED BY <1>4, <1>5, <1>7, <1>8, <1>9, EvJoined

LEMMA EvHumanClose == ASSUME IInv, EvInv, HumanClose PROVE EvInv'
  <1>1. UNCHANGED <<runs, job, pend>>
    BY DEF HumanClose
  <1>2. Kept /\ SameBlind /\ NoNewGreen /\ NoNewQuiet
    BY <1>1, KeptSame
  <1>3. PICK k \in OpenIssues : issues' = [issues EXCEPT ![k].state = "human"]
    BY DEF HumanClose
  <1>4. FoundInv'
    <2> SUFFICES ASSUME NEW m \in DOMAIN issues' PROVE (IssueFound(issues[m]))'
      BY DEF FoundInv
    <2>1. m \in DOMAIN issues
      BY <1>3
    <2>2. SameFinding(issues'[m], issues[m])
      <3>1. issues[m] \in Issue
        BY <2>1, IssueType DEF IInv
      <3> QED BY <1>3, <2>1, <3>1 DEF SameFinding, Issue
    <2> QED BY <1>2, <2>1, <2>2, FoundKept
  <1> QED BY <1>1, <1>2, <1>4, EvKept

(* A cancelled build is none of the failures, and an abort says nothing. *)
LEMMA EvCancelled == ASSUME IInv, EvInv, DetectCancelled PROVE EvInv'
  <1>1. FinishJob("green") /\ issues' = issues /\ job.result = "cancelled"
    BY DEF DetectCancelled
  <1>2. "green" \in Verdicts
    BY DEF Verdicts
  <1>3. Kept
    BY <1>1, <1>2, FinishKeeps
  <1>4. job.kind = "call" => runs[job.run].result = "cancelled"
    BY <1>1 DEF EvInv, JobEvid, Called
  <1>5. FoundInv'
    BY <1>1, <1>3, FoundAll
  <1> QED BY <1>1, <1>2, <1>4, <1>5, EvEnded

LEMMA EvAbort == ASSUME IInv, EvInv, Abort PROVE EvInv'
  <1>1. PICK v \in {"failed", "cancelled"} : FinishJob(v)
    BY DEF Abort
  <1>2. v \in Verdicts /\ v \notin {"green", "closed"} /\ issues' = issues
    BY DEF Verdicts, Abort
  <1>3. FoundInv'
    BY <1>1, <1>2, FinishKeeps, FoundAll
  <1> QED BY <1>1, <1>2, <1>3, EvEnded

(* The job closes on the strength of Closing. *)
LEMMA EvAutoClose == ASSUME IInv, EvInv, AutoClose PROVE EvInv'
  <1>1. PICK k \in 0..Len(issues) :
          /\ NewestOpen(k)
          /\ issues' = IF k = 0 THEN issues
                       ELSE [issues EXCEPT ![k].state = "bot", ![k].closedAt = job.run]
          /\ FinishJob(IF k = 0 THEN "green" ELSE "closed")
    BY DEF AutoClose
  <1>2. PICK v : v = IF k = 0 THEN "green" ELSE "closed"
    OBVIOUS
  <1>3. v \in Verdicts /\ FinishJob(v)
    BY <1>1, <1>2 DEF Verdicts
  <1>4. Kept
    BY <1>3, FinishKeeps
  <1>5. FoundInv'
    <2>1. CASE k = 0
      BY <1>1, <1>4, <2>1, FoundAll
    <2>2. CASE k # 0
      <3> SUFFICES ASSUME NEW m \in DOMAIN issues' PROVE (IssueFound(issues[m]))'
        BY DEF FoundInv
      <3>1. issues' = [issues EXCEPT ![k].state = "bot", ![k].closedAt = job.run]
        BY <1>1, <2>2
      <3>2. m \in DOMAIN issues
        BY <3>1
      <3>3. SameFinding(issues'[m], issues[m])
        <4>1. issues[m] \in Issue
          BY <3>2, IssueType DEF IInv
        <4> QED BY <3>1, <3>2, <4>1 DEF SameFinding, Issue
      <3> QED BY <1>4, <3>2, <3>3, FoundKept
    <2> QED BY <2>1, <2>2
  <1>6. job.kind = "call" =>
          /\ runs[job.run].result = "success"
          /\ ~ runs[job.run].blind => NothingNew(job.run)
    <2>1. job.pc = "close"
      BY DEF AutoClose
    <2> QED BY <2>1 DEF EvInv, JobEvid, Closing, Called
  <1> QED BY <1>3, <1>5, <1>6, EvEnded

(* sh-lastgreen.py answers the last green run when every run of the page    *)
(* can be read back: the page holds the newest runs.                        *)
LEMMA PickIsLastGreen ==
    ASSUME TypeInv, NEW d, d # 0, PickGoodRun(d, {})
    PROVE  LastGreen(d)
  <1>1. /\ DOMAIN runs = 1..Len(runs) /\ Len(runs) \in Nat /\ PerPage \in Nat \ {0}
    BY RegressionAssumption, LenProperties DEF TypeInv, TypeOK
  <1> DEFINE green == {i \in GatheredRuns({}) : runs[i].result = "success"}
  <1>2. d \in green /\ \A i \in green : i <= d
    BY DEF PickGoodRun
  <1>3. d \in DOMAIN runs /\ d + PerPage > Len(runs) /\ Green(d)
    BY <1>2 DEF GatheredRuns, Green
  <1>4. ASSUME NEW j \in DOMAIN runs, Green(j) PROVE j <= d
    <2>1. CASE j + PerPage > Len(runs)
      <3>1. j \in green
        BY <1>4, <2>1 DEF GatheredRuns, Green
      <3> QED BY <1>2, <3>1
    <2>2. CASE ~ (j + PerPage > Len(runs))
      BY <1>1, <1>3, <2>2
    <2> QED BY <2>1, <2>2
  <1> QED BY <1>3, <1>4 DEF LastGreen

(* A run that fails nothing the last green run passed brings nothing new.   *)
LEMMA LastGreenSettles ==
    ASSUME IInv, job.kind = "call", NEW d, LastGreen(d),
           runs[job.run].dj \subseteq runs[d].dj, runs[job.run].sim \subseteq runs[d].sim
    PROVE  NothingNew(job.run)
  <1>1. /\ job.run \in DOMAIN runs /\ runs[job.run].conclusion = "none"
        /\ runs[job.run].result # "pending"
    BY DEF IInv, TypeInv, RunsNamed, JobsInv, JobsOwned, Owned
  <1>2. DOMAIN runs = 1..Len(runs) /\ Len(runs) \in Nat
    BY LenProperties DEF IInv, TypeInv, TypeOK
  <1>3. d \in DOMAIN runs /\ Green(d) /\ \A j \in DOMAIN runs : Green(j) => j <= d
    BY DEF LastGreen
  <1>4. d <= job.run /\ d # job.run
    <2>1. runs[d].result # "pending" /\ runs[d].conclusion # "none"
      BY <1>3 DEF Green
    <2> QED BY <1>1, <1>3, <2>1, CallIsLast DEF IInv, JobsInv
  <1> SUFFICES ASSUME NEW b \in 1..(job.run - 1), Green(b),
                      \A j \in (b + 1)..(job.run - 1) : ~ Green(j)
               PROVE  b = d
    BY DEF NothingNew
  <1>5. b \in DOMAIN runs
    BY <1>1, <1>2
  <1>6. b <= d
    BY <1>3, <1>5
  <1>7. ~ (d \in (b + 1)..(job.run - 1))
    BY <1>3
  <1> QED BY <1>1, <1>2, <1>3, <1>4, <1>5, <1>6, <1>7

(* What the two deltas hold. *)
LEMMA DeltaOf ==
    ASSUME NEW lost, NEW g
    PROVE  /\ HaveDj(lost, g) \/ NewDj(lost, g) # {} =>
                job.kind = "call" /\ g # 0 /\ NewDj(lost, g) = runs[job.run].dj \ runs[g].dj
           /\ HaveSim(lost, g) \/ NewSim(lost, g) # {} =>
                job.kind = "call" /\ g # 0 /\ NewSim(lost, g) = runs[job.run].sim \ runs[g].sim
  BY DEF NewDj, NewSim, Delta, HaveDj, HaveSim

(* Classify of the success path tells the two lanes apart. *)
LEMMA ClassifySuccess ==
    ASSUME NEW d, NEW s
    PROVE  /\ Classify("success", "", d, s) = "dejagnu" => d # {}
           /\ Classify("success", "", d, s) = "sh-sim" => d = {} /\ s # {}
           /\ Classify("success", "", d, s) = "none" => d = {} /\ s = {}
           /\ Classify("success", "", d, s) \in {"dejagnu", "sh-sim", "none"}
  BY DEF Classify

LEMMA ClassifyFailure ==
    ASSUME NEW step
    PROVE  Classify("failure", step, {}, {}) \in {"build", "script"}
  BY DEF Classify

LEMMA EvDetectSuccess == ASSUME IInv, EvInv, DetectSuccess PROVE EvInv'
  <1>1. job.result = "success" /\ UNCHANGED <<issues, pend>> /\ job \in Job
    BY DEF DetectSuccess, IInv, TypeInv, TypeOK
  <1>2. PICK lost \in LostEvidence, djHidden \in HiddenRuns, simHidden \in HiddenRuns,
            d \in 0..Len(runs), s \in 0..Len(runs) :
          /\ PickGoodRun(d, djHidden) /\ PickGoodRun(s, simHidden)
          /\ job' = Detected(NewDj(lost, d), NewSim(lost, s))
          /\ runs' = IF job.kind = "call"
                     THEN [runs EXCEPT ![job.run].blind =
                             ~(/\ HaveDj(lost, d) /\ HaveSim(lost, s)
                               /\ djHidden = {} /\ simHidden = {})]
                     ELSE runs
    BY DEF DetectSuccess
  <1>3. PICK nd, ns, t : /\ nd = NewDj(lost, d) /\ ns = NewSim(lost, s)
                         /\ t = Classify("success", "", nd, ns)
    OBVIOUS
  <1>4. PICK blind \in BOOLEAN :
          blind = ~(HaveDj(lost, d) /\ HaveSim(lost, s) /\ djHidden = {} /\ simHidden = {})
    OBVIOUS
  <1>5. runs' = IF job.kind = "call" THEN [runs EXCEPT ![job.run].blind = blind] ELSE runs
    BY <1>2, <1>4
  <1>6. /\ Kept /\ NoNewGreen /\ NoNewQuiet
        /\ job.kind = "call" => runs'[job.run].blind = blind
        /\ \A i \in DOMAIN runs : runs[i].verdict # "none" => runs'[i] = runs[i]
    BY <1>5, DetectSuccessKeeps
  <1>7. /\ SameJob(job') /\ job'.result = job.result /\ job'.goodRun = job.goodRun
        /\ job'.pc = AfterClassify(t) /\ job'.type = t
        /\ job'.tests = IF t = "dejagnu" THEN nd ELSE ns
    <2>1. job' = [job EXCEPT !.pc = AfterClassify(t), !.type = t,
                             !.tests = IF t = "dejagnu" THEN nd ELSE ns]
      BY <1>2, <1>3 DEF Detected
    <2> QED BY <1>1, <2>1 DEF Job, SameJob
  <1>8. /\ t = "dejagnu" => nd # {}
        /\ t = "sh-sim" => nd = {} /\ ns # {}
        /\ t = "none" => nd = {} /\ ns = {}
        /\ t \in {"dejagnu", "sh-sim", "none"}
    BY <1>3, ClassifySuccess
  <1>9. /\ HaveDj(lost, d) \/ nd # {} =>
             job.kind = "call" /\ d # 0 /\ nd = runs[job.run].dj \ runs[d].dj
        /\ HaveSim(lost, s) \/ ns # {} =>
             job.kind = "call" /\ s # 0 /\ ns = runs[job.run].sim \ runs[s].sim
    BY <1>3, DeltaOf
  <1>10. /\ djHidden = {} /\ d # 0 => LastGreen(d)
         /\ simHidden = {} /\ s # 0 => LastGreen(s)
    BY <1>2, PickIsLastGreen DEF IInv
  <1>11. PICK i : i = job.run
    OBVIOUS
  <1>12. job.kind = "call" => /\ i \in DOMAIN runs /\ runs[i].result # "pending"
                              /\ runs'[i].dj = runs[i].dj /\ runs'[i].sim = runs[i].sim
    BY <1>6, <1>11 DEF IInv, TypeInv, RunsNamed, JobsInv, JobsOwned, Owned, Kept
  <1>13. Called(job)' /\ Called(pend)'
    <2>1. job.kind = "call" => runs'[i].result = job.result
      BY <1>6, <1>11, <1>12 DEF EvInv, JobEvid, Called, Kept
    <2> QED BY <1>1, <1>6, <1>7, <1>11, <2>1, PendCalled DEF Called, SameJob
  <1>14. Closing'
    <2> SUFFICES ASSUME t = "none", job.kind = "call" PROVE Closing'
      BY <1>7 DEF Closing, AfterClassify, SameJob
    <2>1. ASSUME ~ blind PROVE NothingNew(i)
      <3>1. LastGreen(d) /\ LastGreen(s)
        BY <1>4, <1>9, <1>10, <2>1
      <3>2. d = s
        BY <3>1 DEF LastGreen
      <3>3. runs[i].dj \subseteq runs[d].dj /\ runs[i].sim \subseteq runs[d].sim
        BY <1>4, <1>8, <1>9, <1>11, <2>1, <3>2
      <3> QED BY <1>11, <3>1, <3>3, LastGreenSettles
    <2>2. ~ runs'[i].blind => NothingNew(i)'
      BY <1>6, <1>11, <1>12, <2>1, NothingNewKept
    <2>3. job'.kind = "call" /\ job'.run = i /\ job'.result = "success"
      BY <1>1, <1>7, <1>11 DEF SameJob
    <2> QED BY <2>2, <2>3 DEF Closing, NothingNew, Green
  <1>15. DeltaFound'
    <2> SUFFICES ASSUME t \in TestTypes PROVE DeltaFound'
      BY <1>7 DEF DeltaFound
    <2>1. CASE t = "dejagnu"
      <3>1. /\ job.kind = "call" /\ d # 0 /\ nd # {} /\ nd \subseteq runs'[i].dj
            /\ nd \cap runs[d].dj = {}
        BY <1>8, <1>9, <1>11, <1>12, <2>1
      <3>2. "hide" \notin Faults => /\ LastGreen(d)' /\ d \in DOMAIN runs'
                                    /\ nd \cap runs'[d].dj = {}
        BY <1>6, <1>10, <3>1, LastGreenKept DEF HiddenRuns, Kept
      <3> QED BY <1>7, <1>11, <2>1, <3>1, <3>2 DEF DeltaFound, Fails, SameJob
    <2>2. CASE t = "sh-sim"
      <3>1. /\ job.kind = "call" /\ s # 0 /\ ns # {} /\ ns \subseteq runs'[i].sim
            /\ ns \cap runs[s].sim = {}
        BY <1>8, <1>9, <1>11, <1>12, <2>2
      <3>2. "hide" \notin Faults => /\ LastGreen(s)' /\ s \in DOMAIN runs'
                                    /\ ns \cap runs'[s].sim = {}
        BY <1>6, <1>10, <3>1, LastGreenKept DEF HiddenRuns, Kept
      <3> QED BY <1>7, <1>11, <2>2, <3>1, <3>2 DEF DeltaFound, Fails, SameJob
    <2> QED BY <2>1, <2>2 DEF TestTypes
  <1>16. BoundFound'
    BY <1>6, <1>7, BoundStays
  <1>17. QuietInv'
    <2> SUFFICES ASSUME NEW k \in DOMAIN runs', runs'[k].verdict \in {"green", "closed"}
                 PROVE  QuietRun(k)'
      BY DEF QuietInv, QuietRun
    <2>1. k \in DOMAIN runs /\ runs[k].verdict = runs'[k].verdict
      BY <1>6 DEF NoNewQuiet
    <2>2. runs'[k].blind = runs[k].blind
      BY <1>6, <2>1
    <2> QED BY <1>6, <2>1, <2>2, QuietKept
  <1>18. FoundInv'
    BY <1>1, <1>6, FoundAll
  <1> QED BY <1>13, <1>14, <1>15, <1>16, <1>17, <1>18 DEF EvInv, JobEvid

(* A step of the job that changes no run and carries its finding on. *)
LEMMA EvAdvance ==
    ASSUME IInv, EvInv, UNCHANGED <<runs, issues, pend>>, SameJob(job'),
           job'.result = job.result, job'.pc # "close", DeltaFound', BoundFound'
    PROVE  EvInv'
  <1>1. Kept /\ SameBlind /\ NoNewGreen /\ NoNewQuiet
    BY KeptSame
  <1>2. Called(job)' /\ Called(pend)'
    BY <1>1, PendCalled DEF EvInv, JobEvid, Called, SameJob
  <1>3. Closing'
    BY DEF Closing
  <1> QED BY <1>1, <1>2, <1>3, QuietAll, FoundAll DEF EvInv, JobEvid

LEMMA EvDetectFailure == ASSUME IInv, EvInv, DetectFailure PROVE EvInv'
  <1>1. PICK step : job' = [job EXCEPT !.pc = AfterClassify(Classify("failure", step, {}, {})),
                                       !.type = Classify("failure", step, {}, {}),
                                       !.step = step]
    BY DEF DetectFailure
  <1>2. UNCHANGED <<runs, issues, pend>> /\ job \in Job
    BY DEF DetectFailure, IInv, TypeInv, TypeOK
  <1>3. PICK t \in {"build", "script"} : t = Classify("failure", step, {}, {})
    BY ClassifyFailure
  <1>4. job' = [job EXCEPT !.pc = "dedup", !.type = t, !.step = step]
    BY <1>1, <1>3 DEF AfterClassify
  <1>5. /\ SameJob(job') /\ job'.result = job.result /\ job'.pc = "dedup"
        /\ job'.type = t /\ job'.goodRun = job.goodRun
    BY <1>2, <1>4 DEF Job, SameJob
  <1>6. DeltaFound'
    BY <1>5 DEF DeltaFound, TestTypes
  <1>7. BoundFound'
    BY <1>2, <1>5, KeptSame, BoundStays
  <1> QED BY <1>2, <1>5, <1>6, <1>7, EvAdvance

LEMMA EvDedup == ASSUME IInv, EvInv, Dedup PROVE EvInv'
  <1>1. issues' = issues /\ job.pc = "dedup" /\ job \in Job
    BY DEF Dedup, IInv, TypeInv, TypeOK
  <1>2. CASE OpenIssues # {}
    <2>1. FinishJob("dedup") /\ "dedup" \in Verdicts
      BY <1>2 DEF Dedup, Verdicts
    <2>2. FoundInv'
      BY <1>1, <2>1, FinishKeeps, FoundAll
    <2> QED BY <2>1, <2>2, EvEnded
  <1>3. CASE OpenIssues = {}
    <2>1. job' = [job EXCEPT !.pc = "bound"] /\ UNCHANGED <<runs, pend>>
      BY <1>3 DEF Dedup
    <2>2. /\ SameJob(job') /\ job'.result = job.result /\ job'.pc = "bound"
          /\ job'.type = job.type /\ job'.tests = job.tests /\ job'.goodRun = job.goodRun
      BY <1>1, <2>1 DEF Job, SameJob
    <2>3. DeltaFound' /\ BoundFound'
      BY <1>1, <2>1, <2>2, KeptSame, DeltaStays, BoundStays
    <2> QED BY <1>1, <2>1, <2>2, <2>3, EvAdvance
  <1> QED BY <1>2, <1>3

(* The second reading of the history answers the last green run as well.    *)
LEMMA EvBound == ASSUME IInv, EvInv, Bound PROVE EvInv'
  <1>1. PICK hidden \in HiddenRuns, b \in 0..Len(runs) :
          /\ PickGoodRun(b, hidden)
          /\ job' = [job EXCEPT !.goodRun = b,
                                !.good = IF b = 0 THEN 0 ELSE runs[b].commit,
                                !.pc = IF b = 0 THEN "file" ELSE "bisect"]
    BY DEF Bound
  <1>2. UNCHANGED <<runs, issues, pend>> /\ job \in Job /\ job.pc = "bound"
    BY DEF Bound, IInv, TypeInv, TypeOK
  <1>3. PICK p \in {"bisect", "file"} :
          job' = [job EXCEPT !.goodRun = b, !.good = IF b = 0 THEN 0 ELSE runs[b].commit,
                             !.pc = p]
    BY <1>1
  <1>4. /\ SameJob(job') /\ job'.result = job.result /\ job'.pc = p
        /\ job'.type = job.type /\ job'.tests = job.tests /\ job'.goodRun = b
    BY <1>2, <1>3 DEF Job, SameJob
  <1>5. DeltaFound'
    BY <1>2, <1>4, KeptSame, DeltaStays
  <1>6. BoundFound'
    <2>1. "hide" \notin Faults /\ b # 0 => LastGreen(b)
      BY <1>1, PickIsLastGreen DEF IInv, HiddenRuns
    <2>2. "hide" \notin Faults /\ b # 0 => LastGreen(b)'
      BY <1>2, <2>1, KeptSame, LastGreenKept
    <2> QED BY <1>4, <2>2 DEF BoundFound, LastGreen
  <1> QED BY <1>2, <1>4, <1>5, <1>6, EvAdvance

LEMMA EvBisect == ASSUME IInv, EvInv, Bisect PROVE EvInv'
  <1>1. UNCHANGED <<runs, issues, pend>> /\ job \in Job /\ job.pc = "bisect"
    BY DEF Bisect, IInv, TypeInv, TypeOK
  <1>2. /\ SameJob(job') /\ job'.result = job.result /\ job'.pc = "file"
        /\ job'.type = job.type /\ job'.tests = job.tests /\ job'.goodRun = job.goodRun
    BY <1>1 DEF Bisect, Job, SameJob
  <1>3. DeltaFound' /\ BoundFound'
    BY <1>1, <1>2, KeptSame, DeltaStays, BoundStays
  <1> QED BY <1>1, <1>2, <1>3, EvAdvance

(* The issue carries the finding of the job, whose bound is the run the     *)
(* delta was taken against: both are the last green run.                    *)
LEMMA EvFile == ASSUME IInv, EvInv, File PROVE EvInv'
  <1>1. PICK x : x = [type |-> job.type, tests |-> job.tests, run |-> job.run,
                      goodRun |-> job.goodRun, good |-> job.good, bad |-> job.commit,
                      culprit |-> job.culprit, narrowed |-> job.narrowed,
                      state |-> "open", closedAt |-> 0]
    OBVIOUS
  <1>2. /\ issues' = Append(issues, x) /\ FinishJob("filed") /\ job.pc = "file"
        /\ "filed" \in Verdicts
    BY <1>1 DEF File, Verdicts
  <1>3. /\ x.type = job.type /\ x.tests = job.tests
        /\ x.run = job.run /\ x.goodRun = job.goodRun
    BY <1>1
  <1>4. Kept
    BY <1>2, FinishKeeps
  <1>5. ASSUME x.type \in TestTypes
        PROVE  /\ job.kind = "call" /\ x.run \in DOMAIN runs
               /\ runs[x.run].result # "pending" /\ x.run # 0
               /\ x.tests # {} /\ x.tests \subseteq Fails(x.type, x.run)
               /\ "hide" \notin Faults =>
                    \E d \in DOMAIN runs :
                      LastGreen(d) /\ x.tests \cap Fails(x.type, d) = {}
    <2>1. /\ job.kind = "call"
          /\ x.tests # {} /\ x.tests \subseteq Fails(x.type, x.run)
          /\ "hide" \notin Faults =>
               \E d \in DOMAIN runs :
                 LastGreen(d) /\ x.tests \cap Fails(x.type, d) = {}
      BY <1>2, <1>3, <1>5 DEF EvInv, JobEvid, DeltaFound
    <2>2. x.run \in DOMAIN runs /\ runs[x.run].result # "pending"
      BY <1>3, <2>1 DEF IInv, TypeInv, RunsNamed, JobsInv, JobsOwned, Owned
    <2>3. x.run # 0
      BY <2>2, LenProperties DEF IInv, TypeInv, TypeOK
    <2> QED BY <2>1, <2>2, <2>3
  <1>6. IssueFound(x)
    <2> SUFFICES ASSUME x.type \in TestTypes, "hide" \notin Faults, x.goodRun # 0
                 PROVE  /\ x.goodRun \in DOMAIN runs /\ runs[x.goodRun].result # "pending"
                        /\ x.tests \cap Fails(x.type, x.goodRun) = {}
      BY <1>5 DEF IssueFound
    <2>1. LastGreen(x.goodRun)
      BY <1>3, <1>5 DEF EvInv, JobEvid, BoundFound
    <2>2. PICK d \in DOMAIN runs : LastGreen(d) /\ x.tests \cap Fails(x.type, d) = {}
      BY <1>5
    <2>3. DOMAIN runs = 1..Len(runs) /\ Len(runs) \in Nat
      BY LenProperties DEF IInv, TypeInv, TypeOK
    <2>4. d = x.goodRun
      BY <2>1, <2>2, <2>3 DEF LastGreen
    <2> QED BY <2>1, <2>2, <2>4 DEF LastGreen, Green
  <1>7. IssueFound(x)'
    BY <1>4, <1>5, <1>6, IssueKept
  <1>8. FoundInv'
    <2> SUFFICES ASSUME NEW k \in DOMAIN issues' PROVE (IssueFound(issues[k]))'
      BY DEF FoundInv
    <2>1. /\ issues \in Seq(Issue) /\ DOMAIN issues = 1..Len(issues) /\ Len(issues) \in Nat
      BY LenProperties DEF IInv, TypeInv, TypeOK
    <2>2. \/ k \in DOMAIN issues /\ issues'[k] = issues[k]
          \/ issues'[k] = x
      BY <1>2, <2>1
    <2>3. CASE k \in DOMAIN issues /\ issues'[k] = issues[k]
      <3>1. SameFinding(issues'[k], issues[k])
        BY <2>3 DEF SameFinding
      <3> QED BY <1>4, <2>3, <3>1, FoundKept
    <2>4. CASE issues'[k] = x
      BY <1>7, <2>4 DEF IssueFound, Fails
    <2> QED BY <2>2, <2>3, <2>4
  <1> QED BY <1>2, <1>8, EvEnded

(* The evidence invariant is inductive, next to IInv. *)
LEMMA EvStep == IInv /\ EvInv /\ [Next]_vars => EvInv'
  <1> SUFFICES ASSUME IInv, EvInv, [Next]_vars PROVE EvInv'
    OBVIOUS
  <1>1. CASE UNCHANGED vars
    <2>1. UNCHANGED <<runs, issues, job, pend>>
      BY <1>1 DEF vars
    <2> QED BY <2>1, KeptSame, FoundAll, EvKept
  <1>2. ASSUME NEW c \in Commit, Enqueue(c) PROVE EvInv'
    BY <1>2, EvEnqueue
  <1>3. ASSUME NEW i \in DOMAIN runs, BuildDone(i) \/ Conclude(i) \/ Expire(i) PROVE EvInv'
    BY <1>3, EvBuildDone, EvConclude, EvExpire
  <1>4. ASSUME NEW c \in Commit, NEW r \in {"success", "failure"}, Dispatch(c, r) PROVE EvInv'
    BY <1>4, EvDispatch
  <1>5. CASE DetectSuccess \/ DetectFailure \/ DetectCancelled
    BY <1>5, EvDetectSuccess, EvDetectFailure, EvCancelled
  <1>6. CASE AutoClose \/ Dedup \/ Bound \/ Bisect \/ File
    BY <1>6, EvAutoClose, EvDedup, EvBound, EvBisect, EvFile
  <1>7. CASE Abort \/ HumanClose
    BY <1>7, EvAbort, EvHumanClose
  <1> QED BY <1>1, <1>2, <1>3, <1>4, <1>5, <1>6, <1>7 DEF Next

(* A watchdog that ends green or closes saw no failed build, and, unless    *)
(* some evidence was missing, no test fails in its run that passed in the   *)
(* last completed successful run before it: the two lanes of detection read *)
(* that run from sh-lastgreen.py, and classify answers none only when both  *)
(* deltas are empty.                                                        *)
THEOREM QuietMeansNothingNew == Spec => []QuietMeansNoNewFailure
  <1>1. EvInv => QuietMeansNoNewFailure
    <2> SUFFICES ASSUME EvInv, NEW i \in DOMAIN runs, runs[i].verdict \in {"green", "closed"}
                 PROVE  /\ runs[i].result # "failure"
                        /\ runs[i].result = "success" /\ ~ runs[i].blind => NothingNew(i)
      BY DEF QuietMeansNoNewFailure, NothingNew, Green
    <2> QED BY DEF EvInv, QuietInv, QuietRun
  <1> QED BY <1>1, InitIInv, StepIInv, EvInit, EvStep, PTL DEF Spec

(* Detection takes its delta and the bound step its good end from two       *)
(* separate readings of the run history, hours apart; both readings answer  *)
(* the same run, because no run completes while a called watchdog lives, so *)
(* every test an issue names passed at the good end and fails at the bad    *)
(* one.  With a state file that cannot be read back the readings may        *)
(* differ: the theorem is about histories without that fault.               *)
THEOREM BoundPassedTheTests ==
    ASSUME "hide" \notin Faults
    PROVE  Spec => []GoodBoundPasses
  <1>1. EvInv => GoodBoundPasses
    <2> SUFFICES ASSUME EvInv, NEW k \in DOMAIN issues, issues[k].type \in TestTypes,
                        issues[k].goodRun # 0
                 PROVE  /\ issues[k].tests # {}
                        /\ issues[k].tests \subseteq Fails(issues[k].type, issues[k].run)
                        /\ issues[k].tests \cap Fails(issues[k].type, issues[k].goodRun) = {}
      BY DEF GoodBoundPasses
    <2> QED BY DEF EvInv, FoundInv, IssueFound
  <1> QED BY <1>1, InitIInv, StepIInv, EvInit, EvStep, PTL DEF Spec

=============================================================================
