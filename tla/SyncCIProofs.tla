---------------------------- MODULE SyncCIProofs ----------------------------
(***************************************************************************)
(* The safety of SyncCI for every number of upstream commits.  TypeOK and  *)
(* QueueOrdered are each inductive once the recorded commit is bounded by  *)
(* what the sync job saw and that by upstream (SeenOrdered).               *)
(***************************************************************************)
EXTENDS SyncCI, TLAPS

(* A head the sync job has seen is at least the recorded one while it waits *)
(* to be pushed, and never beyond upstream.                                 *)
SeenOrdered ==
    /\ lastTested <= upstream
    /\ sync = "push" => lastTested <= seen /\ seen <= upstream

IInv == TypeOK /\ SeenOrdered /\ QueueOrdered /\ NewestNotLost

(* The parts of a step that concern only the queue, shared by the two       *)
(* actions that join it.                                                    *)
LEMMA EnqueueKeepsQueue ==
    ASSUME IInv, NEW c \in Commits, Enqueue(c), lastTested <= c,
           lastTested' = c
    PROVE  QueueOrdered' /\ NewestNotLost'
  <1> USE SyncAssumption DEF IInv, TypeOK, Commits, Enqueue, QueueOrdered, NewestNotLost
  <1>1. CASE running = {}
    BY <1>1
  <1>2. CASE running # {}
    <2>1. /\ running' = running /\ latest' = latest /\ waiting' = {c}
          /\ tested' = tested
      BY <1>2
    <2>2. latest <= c /\ latest \in Nat /\ c \in Nat
      OBVIOUS
    <2>3. running' \subseteq {latest'} /\ running' # {}
      BY <1>2, <2>1
    <2> QED BY <2>1, <2>2, <2>3
  <1> QED BY <1>1, <1>2

(* The conjunction is inductive. *)
LEMMA Inductive == IInv /\ [Next]_vars => IInv'
  <1> SUFFICES ASSUME IInv, [Next]_vars PROVE IInv'
    OBVIOUS
  <1> USE SyncAssumption
  <1>1. CASE UpstreamCommit
    BY <1>1 DEF IInv, TypeOK, SeenOrdered, QueueOrdered, NewestNotLost,
                UpstreamCommit, ci, Commits
  <1>2. CASE SyncCheck
    BY <1>2 DEF IInv, TypeOK, SeenOrdered, QueueOrdered, NewestNotLost,
                SyncCheck, ci, Commits
  <1>3. CASE OtherPush
    BY <1>3 DEF IInv, TypeOK, SeenOrdered, QueueOrdered, NewestNotLost,
                OtherPush, ci, Commits
  <1>4. CASE SyncPush
    <2>1. seen \in Commits /\ Enqueue(seen) /\ lastTested <= seen /\ lastTested' = seen
      BY <1>4 DEF SyncPush, IInv, TypeOK, SeenOrdered
    <2>2. QueueOrdered' /\ NewestNotLost'
      BY <2>1, EnqueueKeepsQueue
    <2>3. running' \subseteq Commits /\ waiting' \subseteq Commits /\ latest' \in Commits
      BY <2>1 DEF Enqueue, IInv, TypeOK
    <2>4. tested' \subseteq Commits
      BY <2>1 DEF Enqueue, IInv, TypeOK
    <2>5. TypeOK' /\ SeenOrdered'
      BY <1>4, <2>1, <2>3, <2>4 DEF SyncPush, IInv, TypeOK, SeenOrdered, Commits
    <2> QED BY <2>2, <2>5 DEF IInv
  <1>5. CASE PushRejected
    BY <1>5 DEF IInv, TypeOK, SeenOrdered, QueueOrdered, NewestNotLost,
                PushRejected, ci, Commits
  <1>6. CASE Retrigger
    <2>1. /\ lastTested \in Commits /\ Enqueue(lastTested)
          /\ lastTested <= lastTested /\ lastTested' = lastTested
      BY <1>6 DEF Retrigger, IInv, TypeOK, Commits
    <2>2. QueueOrdered' /\ NewestNotLost'
      BY <2>1, EnqueueKeepsQueue
    <2>3. TypeOK' /\ SeenOrdered'
      BY <1>6, <2>1 DEF Retrigger, Enqueue, IInv, TypeOK, SeenOrdered
    <2> QED BY <2>2, <2>3 DEF IInv
  <1>7. CASE FinishRun
    <2>1. CASE waiting = {}
      BY <1>7, <2>1 DEF IInv, TypeOK, SeenOrdered, QueueOrdered, NewestNotLost,
                        FinishRun, Commits
    <2>2. CASE waiting # {}
      <3>1. PICK w \in waiting : waiting = {w} /\ latest' = w
        BY <1>7, <2>2 DEF FinishRun, IInv, QueueOrdered
      <3> QED
        BY <1>7, <3>1 DEF IInv, TypeOK, SeenOrdered, QueueOrdered, NewestNotLost,
                          FinishRun, Commits
    <2> QED BY <2>1, <2>2
  <1>8. CASE UNCHANGED vars
    BY <1>8 DEF IInv, TypeOK, SeenOrdered, QueueOrdered, NewestNotLost, vars
  <1> QED
    BY <1>1, <1>2, <1>3, <1>4, <1>5, <1>6, <1>7, <1>8 DEF Next

(* The queue invariant holds of every state. *)
LEMMA Invariance == Spec => []IInv
  <1>1. Init => IInv
    BY SyncAssumption DEF Init, IInv, TypeOK, SeenOrdered, QueueOrdered,
                          NewestNotLost, Commits
  <1> QED BY <1>1, Inductive, PTL DEF Spec

(* Whatever triggers ci-full and however often the waiting run is replaced, *)
(* the commit recorded in state/last-tested.json is not lost.               *)
THEOREM NewestIsNeverLost == Spec => []NewestNotLost
  <1>1. IInv => NewestNotLost BY DEF IInv
  <1> QED BY <1>1, Invariance, PTL

(* The concurrency group of ci-full keeps at most one run and one waiting   *)
(* run, in the order of their commits.                                      *)
THEOREM QueueStaysOrdered == Spec => []QueueOrdered
  <1>1. IInv => QueueOrdered BY DEF IInv
  <1> QED BY <1>1, Invariance, PTL

(* Upstream commits are tested in upstream order: no run starts on a commit *)
(* older than one that was started before.                                  *)
THEOREM CommitsTestedInOrder == Spec => TestedInOrder
  <1>1. IInv /\ [Next]_vars => [latest' >= latest]_vars
    <2> SUFFICES ASSUME IInv, Next PROVE latest' >= latest
      OBVIOUS
    <2> USE SyncAssumption DEF IInv, TypeOK, Commits
    <2>1. CASE SyncPush
      BY <2>1 DEF SyncPush, Enqueue, QueueOrdered, SeenOrdered
    <2>2. CASE Retrigger
      BY <2>2 DEF Retrigger, Enqueue, QueueOrdered
    <2>3. CASE FinishRun
      BY <2>3 DEF FinishRun, QueueOrdered
    <2>4. CASE UpstreamCommit \/ SyncCheck \/ OtherPush \/ PushRejected
      BY <2>4 DEF UpstreamCommit, SyncCheck, OtherPush, PushRejected, ci
    <2> QED BY <2>1, <2>2, <2>3, <2>4 DEF Next
  <1> QED BY <1>1, Invariance, PTL DEF Spec, TestedInOrder

=============================================================================
