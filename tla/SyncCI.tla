------------------------------- MODULE SyncCI -------------------------------
(***************************************************************************)
(* How upstream commits reach the test lane: sync.yml with sync-check.sh   *)
(* polls upstream master and pushes the new head to state/last-tested.json *)
(* on main; that push, a manual dispatch or a rebuilt base image queues a  *)
(* ci-full run of the commit the file names; the concurrency group of      *)
(* ci-full runs one at a time and keeps only the newest waiting one.       *)
(*                                                                         *)
(* Commits are positions on upstream master, 0 the one recorded before.    *)
(***************************************************************************)
EXTENDS Naturals

CONSTANT MaxCommit   \* bound: upstream commits

ASSUME SyncAssumption == MaxCommit \in Nat

VARIABLES
    upstream,   \* head of gcc-mirror master
    lastTested, \* .commit of state/last-tested.json on main
    sync,       \* "idle", or "push": a new head is committed, not yet pushed
    seen,       \* the head the sync job read (ls-remote)
    main,       \* "same", or "moved" since the sync job's checkout
    running,    \* ci-full: commits under test, at most one
    waiting,    \* ci-full: commits of the pending run, at most one
    tested,     \* commits whose run is over
    latest      \* ghost: the commit of the run started last

vars == <<upstream, lastTested, sync, seen, main, running, waiting, tested, latest>>
ci == <<running, waiting, tested, latest>>

Commits == 0..MaxCommit

(* The recorded, polled and tested commits are upstream commits.            *)
TypeOK ==
    /\ upstream \in Commits /\ lastTested \in Commits /\ seen \in Commits
    /\ sync \in {"idle", "push"} /\ main \in {"same", "moved"}
    /\ running \subseteq Commits /\ waiting \subseteq Commits
    /\ tested \subseteq Commits /\ latest \in Commits

Init ==
    /\ upstream = 0 /\ lastTested = 0 /\ seen = 0
    /\ sync = "idle" /\ main = "same"
    /\ running = {} /\ waiting = {} /\ tested = {0} /\ latest = 0

UpstreamCommit ==
    /\ upstream < MaxCommit /\ upstream' = upstream + 1
    /\ UNCHANGED <<lastTested, sync, seen, main, ci>>

-----------------------------------------------------------------------------
\* Variant: the group keeps the run that waits and drops the new one.
EnqueueDropsNew(c) ==
    /\ waiting' = IF running # {} /\ waiting = {} THEN {c} ELSE waiting
    /\ running' = IF running = {} THEN {c} ELSE running
    /\ latest' = IF running = {} THEN c ELSE latest
    /\ UNCHANGED tested

(* A run of commit c joins the group ci-full (cancel-in-progress: false).   *)
Enqueue(c) ==
    /\ IF running = {}
       THEN running' = {c} /\ latest' = c /\ waiting' = waiting
       ELSE waiting' = {c} /\ UNCHANGED <<running, latest>>
    /\ UNCHANGED tested

\* Variant: the end of a run does not start the waiting one.
FinishRunStalls ==
    /\ running # {}
    /\ tested' = tested \cup running
    /\ running' = {} /\ UNCHANGED <<waiting, latest>>
    /\ UNCHANGED <<upstream, lastTested, sync, seen, main>>

(* The run ends, whatever its result, and the waiting one starts.           *)
FinishRun ==
    /\ running # {}
    /\ tested' = tested \cup running
    /\ running' = waiting /\ waiting' = {}
    /\ latest' \in IF waiting = {} THEN {latest} ELSE waiting
    /\ UNCHANGED <<upstream, lastTested, sync, seen, main>>

-----------------------------------------------------------------------------
(* sync-check.sh: an upstream head that differs from the recorded commit is *)
(* written to the state file and committed; otherwise nothing changes.      *)
SyncCheck ==
    /\ sync = "idle" /\ upstream # lastTested
    /\ sync' = "push" /\ seen' = upstream /\ main' = "same"
    /\ UNCHANGED <<upstream, lastTested, ci>>

(* Somebody else pushes to main, other files only.                          *)
OtherPush ==
    /\ sync = "push" /\ main = "same" /\ main' = "moved"
    /\ UNCHANGED <<upstream, lastTested, sync, seen, ci>>

(* git push is accepted and starts ci-full through its paths filter.        *)
SyncPush ==
    /\ sync = "push" /\ main = "same"
    /\ lastTested' = seen /\ sync' = "idle"
    /\ Enqueue(seen)
    /\ UNCHANGED <<upstream, seen, main>>

(* git push is rejected: the job fails, its commit is gone with its runner. *)
PushRejected ==
    /\ sync = "push" /\ main = "moved"
    /\ sync' = "idle"
    /\ UNCHANGED <<upstream, lastTested, seen, main, ci>>

\* Variant: a re-run uses the commit of some earlier run.
RetriggerOld ==
    /\ \E c \in tested : Enqueue(c)
    /\ UNCHANGED <<upstream, lastTested, sync, seen, main>>

(* workflow_dispatch, or workflow_run after docker-rebuild: ci-full on the  *)
(* head of main.                                                            *)
Retrigger ==
    /\ Enqueue(lastTested)
    /\ UNCHANGED <<upstream, lastTested, sync, seen, main>>

Next ==
    \/ UpstreamCommit
    \/ SyncCheck
    \/ OtherPush
    \/ SyncPush
    \/ PushRejected
    \/ Retrigger
    \/ FinishRun

Spec == Init /\ [][Next]_vars

(* The cron polls for ever and every job has a timeout.  The push races     *)
(* with other pushes for seconds every half hour, so it is not rejected     *)
(* for ever.                                                                *)
FairSpec ==
    /\ Spec
    /\ WF_vars(SyncCheck) /\ WF_vars(PushRejected) /\ SF_vars(SyncPush)
    /\ WF_vars(FinishRun)

-----------------------------------------------------------------------------
(* Properties *)

(* Replacing the waiting run never loses the newest recorded commit: it was *)
(* tested, is under test, or waits.                                         *)
NewestNotLost == lastTested \in tested \cup running \cup waiting

(* The group keeps its promise whatever triggers arrive: one run at most,   *)
(* one waiting at most and only behind a running one, and the waiting run   *)
(* is not older than the running one nor newer than the recorded commit.    *)
QueueOrdered ==
    /\ running \subseteq {latest}
    /\ waiting # {} => running # {}
    /\ \A c, d \in waiting : c = d
    /\ \A w \in waiting : latest <= w /\ w <= lastTested
    /\ latest <= lastTested

(* Runs test upstream commits in upstream order, so the last green run read *)
(* back by sh-lastgreen.py is never newer than the run that looks for it.   *)
TestedInOrder == [][latest' >= latest]_vars

(* A head that upstream keeps is eventually tested.                         *)
HeadEventuallyTested ==
    \A c \in Commits : <>[](upstream = c) => <>(c \in tested)

=============================================================================
