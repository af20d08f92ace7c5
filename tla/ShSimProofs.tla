----------------------------- MODULE ShSimProofs -----------------------------
(***************************************************************************)
(* Proofs about ShSim, for every list of ISAs, every finite suite, every   *)
(* list of known gaps and every number of runs and faults.                 *)
(*                                                                         *)
(* The invariant: whatever name a sum is stored under, it holds what truly *)
(* failed on the board it came from.  With a sum of its own for every      *)
(* board, what is extracted is exactly what fails, and the delta of two    *)
(* such runs is exactly what is new.  The badge counts the same sums: when *)
(* it says pass, nothing is extracted from them.                           *)
(***************************************************************************)
EXTENDS ShSim, SequenceTheorems, FiniteSetTheorems, TLAPS

-----------------------------------------------------------------------------
(* Types *)

(* The list of boards and the ISAs. *)
LEMMA IsasType ==
    /\ Isas \in Seq(STRING) /\ Len(Isas) \in Nat
    /\ DOMAIN Isas = 1..Len(Isas)
  BY ShSimAssumption, LenProperties

(* Every position of the loop is a board. *)
LEMMA BoardAtType ==
    ASSUME NEW k \in 1..(2 * Len(Isas))
    PROVE  BoardAt(k) \in Boards
  <1>1. (k + 1) \div 2 \in 1..Len(Isas)
    BY IsasType
  <1>2. Isas[(k + 1) \div 2] \in IsaSet
    BY <1>1, IsasType DEF IsaSet
  <1> QED BY <1>2 DEF BoardAt, Boards, Suites

(* A board is a suite and an ISA, and no board is that of NoSum.            *)
LEMMA BoardType ==
    ASSUME NEW b \in Boards
    PROVE  /\ b[1] \in Suites /\ b[2] \in IsaSet /\ b = <<b[1], b[2]>>
           /\ b # NoSum.board
  BY DEF Boards, Suites, NoSum

(* There are finitely many tests to count. *)
LEMMA TestsFinite == IsFiniteSet(Boards \X Names)
  <1>1. Tests["execute"] \cup Tests["ieee"] = Names
    BY DEF Names, Suites
  <1>2. IsFiniteSet(Names)
    BY <1>1, ShSimAssumption, FS_Union DEF Suites
  <1>3. IsFiniteSet(IsaSet)
    <2> DEFINE f == [i \in 1..Len(Isas) |-> Isas[i]]
    <2>1. f \in Surjection(1..Len(Isas), IsaSet)
      BY IsasType DEF Surjection, IsaSet
    <2>2. IsFiniteSet(1..Len(Isas))
      BY IsasType, FS_Interval
    <2> QED BY <2>1, <2>2, FS_Surjection
  <1>4. IsFiniteSet(Suites)
    <2>1. Suites = {"execute"} \cup {"ieee"}
      BY DEF Suites
    <2> QED BY <2>1, FS_Singleton, FS_Union
  <1> QED BY <1>2, <1>3, <1>4, FS_Product DEF Boards

(* The counts of a run are numbers. *)
LEMMA CountType ==
    ASSUME NEW sums
    PROVE  Count(sums) \in [pass: Nat, fail: Nat]
  <1>1. Ran(sums) \ Failed(sums) \subseteq Boards \X Names
    BY DEF Ran
  <1>2. {x \in Failed(sums) : x[2] \notin BadgeGaps} \subseteq Boards \X Names
    BY DEF Failed, Ran
  <1> QED BY <1>1, <1>2, TestsFinite, FS_Subset, FS_CardinalityType DEF Count

(* What is extracted names an ISA, a suite and a test that is no known gap. *)
LEMMA ExtractType ==
    ASSUME NEW sums \in [Boards -> Sum]
    PROVE  Extract(sums) \subseteq IsaSet \X Suites \X (Names \ Known)
  <1> SUFFICES ASSUME NEW x \in Failed(sums), x[2] \notin Known
               PROVE  <<x[1][2], sums[x[1]].board[1], x[2]>>
                         \in IsaSet \X Suites \X (Names \ Known)
    BY DEF Extract
  <1>1. x[1] \in Boards /\ x[2] \in Names /\ sums[x[1]] # NoSum
    BY DEF Failed, Ran
  <1>2. sums[x[1]] \in [board: Boards, fails: SUBSET Names]
    BY <1>1 DEF Sum
  <1> QED BY <1>1, <1>2, BoardType

-----------------------------------------------------------------------------
(* The invariant *)

(* A sum holds what failed on the board it comes from. *)
Honest(sum, truth) == sum # NoSum => /\ sum.board \in Boards
                                     /\ sum.fails = truth[sum.board]

Faithful(r) == \A b \in Boards : Honest(r.sums[b], r.truth)

(* An answer is the delta with an earlier run. *)
Answered(r, rs) ==
    r.base # 0 =>
        /\ r.base \in DOMAIN rs
        /\ r.new = Delta(Extract(r.sums), Extract(rs[r.base].sums))

(* The run in progress has its place in the history. *)
Room == pc # "idle" => Len(runs) < MaxRuns

SimInv ==
    /\ TypeOK /\ Room
    /\ Honest(tree, cur.truth) /\ Faithful(cur) /\ cur.base = 0
    /\ \A i \in DOMAIN runs : Faithful(runs[i]) /\ Answered(runs[i], runs)

(* The blank record of a run. *)
LEMMA NoRunType ==
    /\ NoRun \in Run /\ NoSum \in Sum /\ NoRun.base = 0
    /\ \A b \in Boards : NoRun.sums[b] = NoSum
  <1>1. [b \in Boards |-> {}] \in Truths
    BY DEF Truths
  <1> QED BY <1>1, ShSimAssumption DEF NoRun, Run, Sum

(* Before the first run. *)
LEMMA SimInit == Init => SimInv
  <1> SUFFICES ASSUME Init PROVE SimInv
    OBVIOUS
  <1>1. 1 \in 1..(2 * Len(Isas) + 1)
    BY IsasType
  <1>2. runs = <<>> /\ runs \in Seq(Run) /\ Len(runs) = 0 /\ DOMAIN runs = {}
    BY DEF Init
  <1> QED BY <1>1, <1>2, NoRunType, ShSimAssumption 
     DEF Init, SimInv, TypeOK, Room, Honest, Faithful

(* A step that leaves the history, and the sums with their truth, alone.    *)
LEMMA KeepSums ==
    ASSUME SimInv, TypeOK', UNCHANGED runs, tree' \in {tree, NoSum},
           cur'.sums = cur.sums, cur'.truth = cur.truth, cur'.base = cur.base,
           pc # "idle"
    PROVE  SimInv'
  BY DEF SimInv, Room, Honest, Faithful, Answered, Sum

(* A run starts with empty sums. *)
LEMMA NewRunStep == ASSUME SimInv, NewRun PROVE SimInv'
  <1>1. PICK t \in Truths : cur' = [NoRun EXCEPT !.truth = t]
    BY DEF NewRun
  <1>2. /\ cur' \in Run /\ cur'.base = 0 /\ cur'.sums = NoRun.sums
    BY <1>1, NoRunType DEF Run
  <1>3. TypeOK'
    BY <1>2, NoRunType, IsasType DEF NewRun, SimInv, TypeOK
  <1>4. tree' = NoSum /\ runs' = runs /\ Len(runs) < MaxRuns
    BY DEF NewRun
  <1> QED BY <1>2, <1>3, <1>4, NoRunType DEF SimInv, Room, Honest, Faithful, Answered

(* A board's own sum, or the sum of an earlier board, goes under its name.  *)
LEMMA RunBoardStep == ASSUME SimInv, RunBoard PROVE SimInv'
  <1> DEFINE b == BoardAt(next)
             own == [board |-> b, fails |-> cur.truth[b]]
  <1>1. b \in Boards
    BY BoardAtType, IsasType DEF RunBoard, SimInv, TypeOK
  <1>2. cur \in Run /\ tree \in Sum /\ cur.truth \in Truths /\ cur.sums \in [Boards -> Sum]
    BY DEF SimInv, TypeOK, Run
  <1>3. /\ tree' = own \/ tree' = tree
        /\ cur' = [cur EXCEPT !.sums = [cur.sums EXCEPT ![b] = tree']]
        /\ next' = next + 1 /\ next <= 2 * Len(Isas) /\ UNCHANGED <<pc, runs>>
    BY DEF RunBoard
  <1>4. own \in Sum /\ Honest(own, cur.truth)
    BY <1>1, <1>2 DEF Sum, Truths, Honest
  <1> HIDE DEF b, own
  <1>5. tree' \in Sum /\ Honest(tree', cur.truth)
    BY <1>2, <1>3, <1>4 DEF SimInv
  <1> DEFINE sums == [cur.sums EXCEPT ![b] = tree']
  <1>6. sums \in [Boards -> Sum] /\ \A c \in Boards : Honest(sums[c], cur.truth)
    BY <1>1, <1>2, <1>5 DEF SimInv, Faithful
  <1>7. cur' = [cur EXCEPT !.sums = sums]
    BY <1>3
  <1> HIDE DEF sums
  <1>8. /\ cur' \in Run /\ cur'.sums = sums /\ cur'.truth = cur.truth
        /\ cur'.base = cur.base
    BY <1>2, <1>6, <1>7 DEF Run
  <1>9. TypeOK'
    <2>1. next' \in 1..(2 * Len(Isas) + 1)
      BY <1>3, IsasType DEF SimInv, TypeOK
    <2> QED BY <1>3, <1>5, <1>8, <2>1 DEF SimInv, TypeOK
  <1> QED BY <1>3, <1>5, <1>6, <1>8, <1>9 DEF SimInv, Room, Faithful, Answered

(* The other steps of the job fill in the rest of the record. *)
LEMMA OtherStep == ASSUME SimInv, BuildShElf \/ BoardsEnd \/ ParseShSim \/ UploadSums PROVE SimInv'
  <1>1. UNCHANGED <<next, tree, runs>>
    BY DEF BuildShElf, BoardsEnd, ParseShSim, UploadSums
  <1>2. cur \in Run
    BY DEF SimInv, TypeOK
  <1>3. /\ cur' \in Run /\ cur'.sums = cur.sums /\ cur'.truth = cur.truth
        /\ cur'.base = cur.base
    <2>1. CASE BuildShElf
      BY <1>2, <2>1 DEF BuildShElf, Run
    <2>2. CASE BoardsEnd
      BY <1>2, <2>2 DEF BoardsEnd
    <2>3. CASE ParseShSim
      <3>1. PICK n \in [pass: Nat, fail: Nat] : cur' = [cur EXCEPT !.counts = n]
        BY <2>3, CountType DEF ParseShSim
      <3> QED BY <1>2, <3>1 DEF Run
    <2>4. CASE UploadSums
      <3>1. PICK g \in BOOLEAN : cur' = [cur EXCEPT !.green = g]
        BY <2>4 DEF UploadSums
      <3> QED BY <1>2, <3>1 DEF Run
    <2> QED BY <2>1, <2>2, <2>3, <2>4
  <1>4. TypeOK'
    BY <1>1, <1>3 DEF SimInv, TypeOK, BuildShElf, BoardsEnd, ParseShSim, UploadSums
  <1>5. pc # "idle"
    BY DEF BuildShElf, BoardsEnd, ParseShSim, UploadSums
  <1> QED BY <1>1, <1>3, <1>4, <1>5, KeepSums

(* The run joins the history with its answer. *)
LEMMA DetectStep == ASSUME SimInv, Detect PROVE SimInv'
  <1>1. PICK g \in 0..Len(runs) :
          runs' = Append(runs,
              IF cur.green /\ g # 0 /\ HasSums(runs[g])
              THEN [cur EXCEPT !.base = g,
                               !.new = Delta(Extract(cur.sums), Extract(runs[g].sums))]
              ELSE cur)
    BY DEF Detect
  <1> DEFINE r == IF cur.green /\ g # 0 /\ HasSums(runs[g])
                  THEN [cur EXCEPT !.base = g,
                                   !.new = Delta(Extract(cur.sums), Extract(runs[g].sums))]
                  ELSE cur
             n == Len(runs) + 1
  <1>2. /\ runs \in Seq(Run) /\ Len(runs) \in Nat /\ DOMAIN runs = 1..Len(runs)
        /\ cur \in Run /\ cur.sums \in [Boards -> Sum] /\ cur.base = 0
    BY LenProperties DEF SimInv, TypeOK, Run
  <1>3. /\ r \in Run /\ r.sums = cur.sums /\ r.truth = cur.truth
        /\ r.base # 0 => /\ r.base \in DOMAIN runs
                         /\ r.new = Delta(Extract(r.sums), Extract(runs[r.base].sums))
    <2>1. CASE ~ (cur.green /\ g # 0 /\ HasSums(runs[g]))
      <3>1. r = cur
        BY <2>1
      <3> QED BY <1>2, <3>1
    <2>2. CASE cur.green /\ g # 0 /\ HasSums(runs[g])
      <3> DEFINE d == Delta(Extract(cur.sums), Extract(runs[g].sums))
      <3>1. r = [cur EXCEPT !.base = g, !.new = d]
        BY <2>2
      <3>2. d \in SUBSET (IsaSet \X Suites \X (Names \ Known))
        BY <1>2, ExtractType DEF Delta
      <3>3. g \in DOMAIN runs /\ g \in 0..MaxRuns
        <4>1. Len(runs) <= MaxRuns /\ MaxRuns \in Nat
          BY ShSimAssumption DEF SimInv, TypeOK
        <4> QED BY <1>2, <2>2, <4>1
      <3> HIDE DEF d, r
      <3>4. r \in Run /\ r.sums = cur.sums /\ r.truth = cur.truth /\ r.base = g /\ r.new = d
        BY <1>2, <3>1, <3>2, <3>3 DEF Run
      <3> QED BY <3>3, <3>4 DEF d
    <2> QED BY <2>1, <2>2
  <1>4. runs' = Append(runs, r)
    BY <1>1
  <1> HIDE DEF r
  <1>5. /\ runs' \in Seq(Run) /\ Len(runs') = n /\ runs'[n] = r
        /\ \A i \in 1..Len(runs) : runs'[i] = runs[i]
    BY <1>2, <1>3, <1>4
  <1>6. DOMAIN runs' = 1..n /\ DOMAIN runs' = DOMAIN runs \cup {n}
    <2>1. DOMAIN runs' = 1..n
      BY <1>5, LenProperties
    <2> QED BY <1>2, <2>1
  <1>7. cur' = NoRun /\ tree' = NoSum /\ next' = 1 /\ pc' = "idle"
    BY DEF Detect
  <1>8. n <= MaxRuns
    BY <1>2, ShSimAssumption DEF SimInv, Room, Detect
  <1>9. TypeOK'
    BY <1>5, <1>7, <1>8, NoRunType, IsasType DEF TypeOK
  <1>10. \A i \in DOMAIN runs' : Faithful(runs'[i]) /\ Answered(runs'[i], runs')
    <2>1. ASSUME NEW i \in DOMAIN runs
          PROVE  Faithful(runs'[i]) /\ Answered(runs'[i], runs')
      BY <1>2, <1>5, <1>6, <2>1 DEF SimInv, Answered
    <2>2. Faithful(r)
      BY <1>3 DEF SimInv, Faithful
    <2>3. Answered(r, runs')
      BY <1>2, <1>3, <1>5, <1>6 DEF Answered
    <2> QED BY <1>5, <1>6, <2>1, <2>2, <2>3
  <1> QED BY <1>7, <1>9, <1>10, NoRunType DEF SimInv, Room, Honest, Faithful

(* Every step keeps it. *)
LEMMA SimStep == SimInv /\ [Next]_vars => SimInv'
  <1> SUFFICES ASSUME SimInv, [Next]_vars PROVE SimInv'
    OBVIOUS
  <1>1. CASE UNCHANGED vars
    BY <1>1 DEF vars, SimInv, TypeOK, Room, Honest, Faithful, Answered
  <1> QED BY <1>1, NewRunStep, RunBoardStep, OtherStep, DetectStep DEF Next

-----------------------------------------------------------------------------
(* What the invariant says of the answers *)

(* What is extracted from own sums fails. *)
LEMMA OwnSumsFail ==
    ASSUME NEW r \in Run, Faithful(r), Own(r)
    PROVE  Extract(r.sums) \subseteq Failing(r)
  <1> SUFFICES ASSUME NEW x \in Failed(r.sums), x[2] \notin Known
               PROVE  <<x[1][2], r.sums[x[1]].board[1], x[2]>> \in Failing(r)
    BY DEF Extract
  <1>1. x[1] \in Boards /\ x[2] \in Names /\ x[2] \in r.sums[x[1]].fails
        /\ r.sums[x[1]] # NoSum
    BY DEF Failed, Ran
  <1>2. r.sums[x[1]].board = x[1] /\ r.sums[x[1]].fails = r.truth[x[1]]
    BY <1>1 DEF Own, Faithful, Honest
  <1>3. x[1][1] \in Suites /\ x[1][2] \in IsaSet /\ x[1] = <<x[1][1], x[1][2]>>
    BY <1>1, BoardType
  <1> DEFINE y == <<x[1][2], x[1][1], x[2]>>
  <1>4. y \in IsaSet \X Suites \X (Names \ Known) /\ x[2] \in r.truth[<<y[2], y[1]>>]
        /\ y[3] = x[2]
    BY <1>1, <1>2, <1>3
  <1> HIDE DEF y
  <1>5. y \in Failing(r)
    BY <1>4 DEF Failing
  <1> QED BY <1>2, <1>5 DEF y

(* What fails is extracted when every board has its sum. *)
LEMMA WholeSumsTell ==
    ASSUME NEW r \in Run, Faithful(r), Whole(r)
    PROVE  Failing(r) \subseteq Extract(r.sums)
  <1> SUFFICES ASSUME NEW y \in Failing(r) PROVE y \in Extract(r.sums)
    OBVIOUS
  <1> DEFINE b == <<y[2], y[1]>>
             x == <<b, y[3]>>
  <1>1. /\ y[1] \in IsaSet /\ y[2] \in Suites /\ y[3] \in Names /\ y[3] \notin Known
        /\ y[3] \in r.truth[b] /\ y = <<y[1], y[2], y[3]>>
    BY DEF Failing
  <1>2. b \in Boards /\ b[1] = y[2] /\ b[2] = y[1]
    BY <1>1 DEF Boards
  <1>3. r.sums[b].board = b /\ r.sums[b] # NoSum
    BY <1>2, BoardType DEF Whole
  <1>4. r.sums[b].fails = r.truth[b]
    BY <1>2, <1>3 DEF Faithful, Honest
  <1>5. y[3] \in Tests[b[1]]
    BY <1>1, <1>2 DEF Run, Truths
  <1>6. x \in Boards \X Names /\ x[1] = b /\ x[2] = y[3]
    BY <1>1, <1>2
  <1> HIDE DEF x, b
  <1>7. x \in Failed(r.sums)
    BY <1>1, <1>3, <1>4, <1>5, <1>6 DEF Failed, Ran
  <1>8. <<x[1][2], r.sums[x[1]].board[1], x[2]>> = y
    BY <1>1, <1>2, <1>3, <1>6
  <1>9. x \in {z \in Failed(r.sums) : z[2] \notin Known}
    BY <1>1, <1>6, <1>7
  <1> QED BY <1>8, <1>9 DEF Extract

(* A run of the history, and the run its answer is relative to.             *)
LEMMA HistoryType ==
    ASSUME SimInv, NEW i \in DOMAIN runs, runs[i].base # 0
    PROVE  /\ runs[i] \in Run /\ runs[runs[i].base] \in Run
           /\ Faithful(runs[i]) /\ Faithful(runs[runs[i].base])
           /\ runs[i].new = Extract(runs[i].sums) \ Extract(runs[runs[i].base].sums)
  BY LenProperties, ElementOfSeq DEF SimInv, TypeOK, Answered, Delta

(* Every field of the lane's records keeps its type; in particular the      *)
(* watchdog is never told of a known gap of the simulator.                  *)
THEOREM ShSimTypeOK == Spec => []TypeOK
  <1>1. SimInv => TypeOK
    BY DEF SimInv
  <1> QED BY <1>1, SimInit, SimStep, PTL DEF Spec

(* What sh-dejagnu-delta.py calls new is new, however many boards the run   *)
(* itself has lost, provided the last-green run lost none and no sum of an  *)
(* earlier board stands in for this run's: the two holes of the lane are    *)
(* the copy in run-sh-sim.sh:66 and the baseline accepted on any sum        *)
(* (sh-regression.yml:142).                                                 *)
THEOREM ReportedFailuresAreNew == Spec => []ReportedIsNew
  <1>1. SimInv => ReportedIsNew
    <2> SUFFICES ASSUME SimInv, NEW i \in DOMAIN runs, runs[i].base # 0,
                        Whole(runs[runs[i].base]), Own(runs[i])
                 PROVE  runs[i].new \subseteq Failing(runs[i]) \ Failing(runs[runs[i].base])
      BY DEF ReportedIsNew
    <2>1. Extract(runs[i].sums) \subseteq Failing(runs[i])
      BY HistoryType, OwnSumsFail
    <2>2. Failing(runs[runs[i].base]) \subseteq Extract(runs[runs[i].base].sums)
      BY HistoryType, WholeSumsTell
    <2> QED BY <2>1, <2>2, HistoryType
  <1> QED BY <1>1, SimInit, SimStep, PTL DEF Spec

(* And nothing new escapes it when the run has all its boards, whatever the *)
(* last-green run lost.                                                     *)
THEOREM NoNewFailureMissed == Spec => []NoneMissed
  <1>1. SimInv => NoneMissed
    <2> SUFFICES ASSUME SimInv, NEW i \in DOMAIN runs, runs[i].base # 0,
                        Whole(runs[i]), Own(runs[runs[i].base])
                 PROVE  Failing(runs[i]) \ Failing(runs[runs[i].base]) \subseteq runs[i].new
      BY DEF NoneMissed
    <2>1. Failing(runs[i]) \subseteq Extract(runs[i].sums)
      BY HistoryType, WholeSumsTell
    <2>2. Extract(runs[runs[i].base].sums) \subseteq Failing(runs[runs[i].base])
      BY HistoryType, OwnSumsFail
    <2> QED BY <2>1, <2>2, HistoryType
  <1> QED BY <1>1, SimInit, SimStep, PTL DEF Spec
-----------------------------------------------------------------------------
(* The badge *)

Blank(r) == \A b \in Boards : r.sums[b] = NoSum

(* Without a compiler there are no sums, and nothing is new before Detect.  *)
LaneInv ==
    /\ cur.new = {}
    /\ pc = "build" => Blank(cur)
    /\ pc = "boards" => cur.elf
    /\ ~ cur.elf => Blank(cur)
    /\ pc \in {"upload", "detect"} => cur.counts = Count(cur.sums)

(* The counts and the new failures of a run come from the same sums.        *)
Settled(r) == /\ r.counts = Count(r.sums) /\ r.new \subseteq Extract(r.sums)
              /\ ~ r.elf => Blank(r)

BadgeInv == LaneInv /\ \A i \in DOMAIN runs : Settled(runs[i])

(* Before the first run. *)
LEMMA BadgeInit == Init => BadgeInv
  <1>1. NoRun.new = {} /\ Blank(NoRun)
    BY NoRunType DEF Blank, NoRun
  <1>2. Init => DOMAIN runs = {} /\ cur = NoRun /\ pc = "idle"
    BY DEF Init
  <1> QED BY <1>1, <1>2 DEF BadgeInv, LaneInv

(* The steps of the lane build up its sums and then count them.             *)
LEMMA LaneStep ==
    ASSUME SimInv, BadgeInv, NewRun \/ BuildShElf \/ RunBoard \/ BoardsEnd \/ ParseShSim \/ UploadSums
    PROVE  BadgeInv'
  <1>1. runs' = runs /\ cur \in Run
    BY DEF NewRun, BuildShElf, RunBoard, BoardsEnd, ParseShSim, UploadSums, SimInv, TypeOK
  <1>2. LaneInv
    BY DEF BadgeInv
  <1>3. CASE NewRun
    <2>1. PICK t \in Truths : cur' = [NoRun EXCEPT !.truth = t]
      BY <1>3 DEF NewRun
    <2>2. cur'.new = {} /\ cur'.sums = NoRun.sums
      BY <2>1 DEF NoRun
    <2> QED BY <1>1, <1>3, <2>2, NoRunType DEF NewRun, BadgeInv, LaneInv, Blank
  <1>4. CASE BuildShElf
    <2>1. PICK e \in BOOLEAN : /\ cur' = [cur EXCEPT !.elf = e]
                               /\ pc' = IF e THEN "boards" ELSE "parse"
      BY <1>4 DEF BuildShElf
    <2>2. cur'.new = cur.new /\ cur'.sums = cur.sums /\ cur'.elf = e /\ pc = "build"
      BY <1>1, <1>4, <2>1 DEF Run, BuildShElf
    <2> QED BY <1>1, <1>2, <2>1, <2>2 DEF BadgeInv, LaneInv, Blank
  <1>5. CASE RunBoard
    <2>1. PICK s : cur' = [cur EXCEPT !.sums = s]
      BY <1>5 DEF RunBoard
    <2>2. cur'.new = cur.new /\ cur'.elf = cur.elf /\ pc = "boards" /\ pc' = pc
      BY <1>1, <1>5, <2>1 DEF Run, RunBoard
    <2> QED BY <1>1, <1>2, <2>2 DEF BadgeInv, LaneInv
  <1>6. CASE BoardsEnd
    BY <1>1, <1>2, <1>6 DEF BoardsEnd, BadgeInv, LaneInv, Blank
  <1>7. CASE ParseShSim
    <2>1. PICK n : cur' = [cur EXCEPT !.counts = n] /\ n = Count(cur.sums)
      BY <1>7 DEF ParseShSim
    <2>2. /\ cur'.new = cur.new /\ cur'.elf = cur.elf /\ cur'.sums = cur.sums
          /\ cur'.counts = n /\ pc' = "upload"
      BY <1>1, <1>7, <2>1 DEF Run, ParseShSim
    <2> QED BY <1>1, <1>2, <2>1, <2>2 DEF BadgeInv, LaneInv, Blank
  <1>8. CASE UploadSums
    <2>1. PICK g \in BOOLEAN : cur' = [cur EXCEPT !.green = g]
      BY <1>8 DEF UploadSums
    <2>2. /\ cur'.new = cur.new /\ cur'.elf = cur.elf /\ cur'.sums = cur.sums
          /\ cur'.counts = cur.counts /\ pc = "upload" /\ pc' = "detect"
      BY <1>1, <1>8, <2>1 DEF Run, UploadSums
    <2> QED BY <1>1, <1>2, <2>2 DEF BadgeInv, LaneInv, Blank
  <1> QED BY <1>3, <1>4, <1>5, <1>6, <1>7, <1>8

(* The answer Detect adds is taken from the sums that were counted.         *)
LEMMA SettleStep == ASSUME SimInv, BadgeInv, Detect PROVE BadgeInv'
  <1>1. PICK g \in 0..Len(runs) :
          runs' = Append(runs,
              IF cur.green /\ g # 0 /\ HasSums(runs[g])
              THEN [cur EXCEPT !.base = g,
                               !.new = Delta(Extract(cur.sums), Extract(runs[g].sums))]
              ELSE cur)
    BY DEF Detect
  <1>2. /\ runs \in Seq(Run) /\ Len(runs) \in Nat /\ DOMAIN runs = 1..Len(runs)
        /\ cur \in Run /\ pc = "detect" /\ LaneInv
    BY LenProperties DEF SimInv, TypeOK, Detect, BadgeInv
  <1>3. PICK r : r = IF cur.green /\ g # 0 /\ HasSums(runs[g])
                     THEN [cur EXCEPT !.base = g,
                                      !.new = Delta(Extract(cur.sums), Extract(runs[g].sums))]
                     ELSE cur
    OBVIOUS
  <1>4. runs' = Append(runs, r)
    BY <1>1, <1>3
  <1>5. Settled(r)
    <2>1. CASE r = cur
      BY <1>2, <2>1 DEF LaneInv, Settled
    <2>2. CASE r = [cur EXCEPT !.base = g,
                               !.new = Delta(Extract(cur.sums), Extract(runs[g].sums))]
      <3>1. PICK d : d = Delta(Extract(cur.sums), Extract(runs[g].sums))
        OBVIOUS
      <3>2. r = [cur EXCEPT !.base = g, !.new = d]
        BY <2>2, <3>1
      <3>3. r.counts = cur.counts /\ r.sums = cur.sums /\ r.elf = cur.elf /\ r.new = d
        BY <1>2, <3>2 DEF Run
      <3>4. d \subseteq Extract(cur.sums)
        BY <3>1 DEF Delta
      <3> QED BY <1>2, <3>3, <3>4 DEF LaneInv, Settled, Blank
    <2> QED BY <1>3, <2>1, <2>2
  <1>6. \A i \in DOMAIN runs' : (i \in DOMAIN runs /\ runs'[i] = runs[i]) \/ runs'[i] = r
    BY <1>2, <1>4
  <1>7. \A i \in DOMAIN runs' : Settled(runs'[i])
    BY <1>5, <1>6 DEF BadgeInv
  <1>8. cur' = NoRun /\ pc' = "idle" /\ NoRun.new = {} /\ Blank(NoRun)
    BY NoRunType DEF Detect, NoRun, Blank
  <1>9. LaneInv'
    BY <1>8 DEF LaneInv, Blank
  <1> QED BY <1>7, <1>9 DEF BadgeInv

LEMMA BadgeStep == SimInv /\ BadgeInv /\ [Next]_vars => BadgeInv'
  <1>1. ASSUME BadgeInv, UNCHANGED vars PROVE BadgeInv'
    BY <1>1 DEF vars, BadgeInv, LaneInv, Blank
  <1> QED BY <1>1, LaneStep, SettleStep DEF Next

(* A badge that says pass counted something and no failure but its gaps.    *)
LEMMA PassingSums ==
    ASSUME NEW r, Settled(r), Badge(r) = "pass"
    PROVE  Ran(r.sums) # {} /\ \A x \in Failed(r.sums) : x[2] \in BadgeGaps
  <1> DEFINE ok == Ran(r.sums) \ Failed(r.sums)
             bad == {x \in Failed(r.sums) : x[2] \notin BadgeGaps}
  <1>1. ok \subseteq Boards \X Names /\ bad \subseteq Boards \X Names
    BY DEF Failed, Ran
  <1>2. IsFiniteSet(ok) /\ IsFiniteSet(bad)
    BY <1>1, TestsFinite, FS_Subset
  <1>3. r.counts.pass = Cardinality(ok) /\ r.counts.fail = Cardinality(bad)
    BY DEF Settled, Count
  <1> HIDE DEF ok, bad
  <1>4. r.counts.pass \in Nat /\ r.counts.fail \in Nat
    BY <1>2, <1>3, FS_CardinalityType
  <1>5. r.counts.pass # 0 /\ r.counts.fail = 0
    <2>1. r.counts.pass = 0 => Badge(r) = "build failing"
      BY DEF Badge
    <2>2. r.counts.pass > 0 /\ r.counts.fail > 0 => Badge(r) = "fail"
      BY DEF Badge
    <2>3. r.counts.pass = 0 \/ r.counts.pass > 0
      BY <1>4
    <2>4. r.counts.fail = 0 \/ r.counts.fail > 0
      BY <1>4
    <2> QED BY <2>1, <2>2, <2>3, <2>4
  <1>6. ok # {} /\ bad = {}
    BY <1>2, <1>3, <1>5, FS_EmptySet
  <1> QED BY <1>6 DEF ok, bad

(* As long as every gap on the list of parse-sh-sim.py is on that of        *)
(* extract-sh-sim-failures.py: where the one makes the badge say pass, the  *)
(* failures the other finds in the same files are all known gaps, so the    *)
(* watchdog is told of nothing new; and there was a compiler, for without   *)
(* one there are no files to count.                                         *)
THEOREM PassingBadgeAgrees ==
    ASSUME BadgeGaps \subseteq Known
    PROVE  Spec => []BadgeAgrees
  <1>1. BadgeInv => BadgeAgrees
    <2> SUFFICES ASSUME BadgeInv, NEW i \in DOMAIN runs, Badge(runs[i]) = "pass"
                 PROVE  runs[i].new = {} /\ runs[i].elf
      BY DEF BadgeAgrees
    <2>1. Settled(runs[i])
      BY DEF BadgeInv
    <2>2. Ran(runs[i].sums) # {} /\ \A x \in Failed(runs[i].sums) : x[2] \in BadgeGaps
      BY <2>1, PassingSums
    <2>3. Extract(runs[i].sums) = {}
      BY <2>2 DEF Extract
    <2>4. ~ Blank(runs[i])
      BY <2>2 DEF Ran, Blank
    <2>5. runs[i].elf
      BY <2>1, <2>4 DEF Settled
    <2> QED BY <2>1, <2>3, <2>5 DEF Settled
  <1> QED BY <1>1, SimInit, SimStep, BadgeInit, BadgeStep, PTL DEF Spec

=============================================================================
