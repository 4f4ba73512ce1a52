-------------------------- MODULE Commands_proofs --------------------------
(***************************************************************************)
(* Proofs about Commands for every number of locks, every fixture and      *)
(* every list of cases its assumptions admit.                              *)
(***************************************************************************)
EXTENDS Commands, ProofLock_proofs, FiniteSetTheorems, WellFoundedInduction

LEMMA InvocationTypes ==
  ASSUME NEW i \in Invocations
  PROVE  /\ i.command \in {"compile", "integration", "conformance"}
         /\ i.fixture \in [Positions -> Profile]
         /\ i.cases \in Seq(Case) /\ i.ordered \in BOOLEAN
BY CommandsAssumption DEF Invocation

-----------------------------------------------------------------------------
(* The pure parts *)

IsSlice(e) == e \in [Positions -> Evidence]

LEMMA SlicesAreTyped ==
  ASSUME fixture \in [Positions -> Profile], NEW e \in Slices
  PROVE  /\ IsSlice(e) /\ e # NoSlice
         /\ \A k \in Positions : e[k] \in Admissible(fixture[k])
<1>1. \A k \in Positions : e[k] \in Admissible(fixture[k]) /\ e[k] \in Evidence
  BY AdmissibleType DEF Slices
<1>2. DOMAIN e = Positions /\ e = [k \in Positions |-> e[k]]
  BY DEF Slices
<1>3. 1 \in Positions
  BY CommandsAssumption DEF Positions
<1>4. 1 \notin DOMAIN NoSlice
  BY DEF NoSlice
<1>. QED
  BY <1>1, <1>2, <1>3, <1>4 DEF IsSlice

\* Equal slices are exact in every field, and the root alone tells others apart.
LEMMA ExactIsEqual ==
  ASSUME NEW left, NEW right
  PROVE  Exact(left, right) = AllExact <=> left = right
<1>1. "root" \in Exact(left, right) <=> left = right
  BY DEF Exact, SemanticRoot
<1>2. left = right => Exact(left, right) = AllExact
  BY DEF Exact, AllExact, SemanticRoot
<1>. QED
  BY <1>1, <1>2 DEF AllExact

\* aggregateEvidence never falls outside the three statuses and weighs them.
LEMMA FinalVerdictIs ==
  ASSUME NEW e, IsSlice(e)
  PROVE  FinalVerdict(e) =
           IF \E k \in Positions : e[k].status = "REFUTED" THEN "REFUTED"
           ELSE IF \E k \in Positions : e[k].status = "UNKNOWN" THEN "UNKNOWN"
           ELSE "CLOSED"
<1>. DEFINE statuses == {"CLOSED"} \cup {e[k].status : k \in Positions}
            Heaviest(s) == \A t \in statuses : precedence(t) <= precedence(s)
            v == IF "REFUTED" \in statuses THEN "REFUTED"
                 ELSE IF "UNKNOWN" \in statuses THEN "UNKNOWN" ELSE "CLOSED"
<1>1. statuses \subseteq Statuses
  BY DEF IsSlice, Evidence, Statuses
<1>2. /\ precedence("CLOSED") = 1 /\ precedence("UNKNOWN") = 2
      /\ precedence("REFUTED") = 3
  BY DEF precedence
<1>3. "CLOSED" \in statuses
  OBVIOUS
<1>. HIDE DEF statuses
<1>4. \A s \in statuses : Heaviest(s) <=> s = v
  BY <1>1, <1>2, <1>3 DEF Statuses
<1>5. v \in statuses
  BY <1>3
<1>6. FinalVerdict(e) = CHOOSE s \in statuses : Heaviest(s)
  BY DEF FinalVerdict, statuses
<1>7. FinalVerdict(e) = v
  BY <1>4, <1>5, <1>6, Zenon
<1>8. \A s \in {"REFUTED", "UNKNOWN"} :
        s \in statuses <=> \E k \in Positions : e[k].status = s
  BY DEF statuses
<1>. QED
  BY <1>7, <1>8

\* Among locks that differ there is a first one.
LEMMA FirstExists ==
  ASSUME NEW D, D \subseteq Positions, D # {}
  PROVE  \E k \in D : Shown(k, D)
<1>. DEFINE T == {1..k : k \in D}
<1>1. D \subseteq Nat \ {0}
  BY CommandsAssumption DEF Positions
<1>2. T \subseteq FiniteSubsetsOf(Nat) /\ T # {}
  <2>1. \A k \in D : 1..k \subseteq Nat /\ IsFiniteSet(1..k)
    BY <1>1, FS_Interval
  <2>. QED
    BY <2>1 DEF FiniteSubsetsOf
<1>3. PICK m \in T : \A n \in T : ~(<<n, m>> \in StrictSubsetOrdering(Nat))
  <2>. HIDE DEF T
  <2>. QED
    BY <1>2, FS_StrictSubsetOrderingWellFounded, WFMin
<1>4. PICK k \in D : m = 1..k
  OBVIOUS
<1>5. ASSUME NEW j \in D PROVE k <= j
  <2>1. ~(1..j \subseteq 1..k /\ 1..j # 1..k)
    <3>1. 1..j \in T /\ 1..j \in SUBSET Nat /\ 1..k \in SUBSET Nat
      BY <1>1
    <3>. QED
      BY <1>3, <1>4, <3>1 DEF StrictSubsetOrdering
  <2>2. ASSUME j < k PROVE FALSE
    <3>1. k \in 1..k /\ k \notin 1..j /\ 1..j \subseteq 1..k
      BY <1>1, <2>2
    <3>. QED
      BY <2>1, <3>1
  <2>. QED
    BY <1>1, <2>2
<1>. QED
  BY <1>5 DEF Shown

LEMMA DifferenceShown ==
  ASSUME NEW left, NEW right, IsSlice(left), IsSlice(right), left # right
  PROVE  LET c == FirstDifference(left, right)
             Same(k) == /\ left[k].status = right[k].status
                        /\ left[k].digest = right[k].digest
         IN  /\ c.kind # None /\ c.expected # c.observed
             /\ IF c.kind = "SEMANTIC_ROOT_MISMATCH"
                  THEN \A k \in Positions : Same(k)
                  ELSE \E k \in Positions :
                         /\ \A j \in 1..(k - 1) : Same(j)
                         /\ <<c.expected, c.observed>> \in
                              {<<left[k].status, right[k].status>>,
                               <<left[k].digest, right[k].digest>>}
<1>. DEFINE D == {k \in Positions : \/ left[k].status # right[k].status
                                    \/ left[k].digest # right[k].digest}
            Same(k) == /\ left[k].status = right[k].status
                       /\ left[k].digest = right[k].digest
            c == FirstDifference(left, right)
<1>1. \A k \in Positions : Same(k) <=> k \notin D
  OBVIOUS
<1>2. CASE D = {}
  <2>1. c = Difference("SEMANTIC_ROOT_MISMATCH", left, right)
    BY <1>2 DEF FirstDifference
  <2>. QED
    BY <1>1, <1>2, <2>1 DEF Difference, None
<1>3. CASE D # {}
  <2>. DEFINE k == CHOOSE i \in D : Shown(i, D)
  <2>1. k \in D /\ Shown(k, D)
    BY <1>3, FirstExists
  <2>2. \A j \in 1..(k - 1) : Same(j)
    <3>1. k \in Positions /\ \A j \in D : k <= j
      BY <2>1 DEF Shown
    <3>2. ASSUME NEW j \in 1..(k - 1)
          PROVE  j \in Positions /\ j \notin D
      <4>. HIDE DEF k, D
      <4>. QED
        BY <3>1, CommandsAssumption DEF Positions
    <3>. QED
      BY <1>1, <3>2
  <2>3. c = IF left[k].status # right[k].status
              THEN Difference("PER_LOCK_STATUS_DIFFERENCE",
                              left[k].status, right[k].status)
              ELSE Difference("PER_LOCK_DIGEST_DIFFERENCE",
                              left[k].digest, right[k].digest)
    BY <1>3 DEF FirstDifference
  <2>4. left[k].status # right[k].status \/ left[k].digest # right[k].digest
    BY <2>1
  <2>5. k \in Positions
    BY <2>1
  <2>. HIDE DEF k, D
  <2>6. /\ c.kind \in {"PER_LOCK_STATUS_DIFFERENCE", "PER_LOCK_DIGEST_DIFFERENCE"}
        /\ c.expected # c.observed
        /\ <<c.expected, c.observed>> \in
             {<<left[k].status, right[k].status>>,
              <<left[k].digest, right[k].digest>>}
    BY <2>3, <2>4 DEF Difference
  <2>. QED
    BY <2>2, <2>5, <2>6 DEF None
<1>. QED
  BY <1>2, <1>3

-----------------------------------------------------------------------------
(* The invariant *)

InputInv ==
  /\ fixture \in [Positions -> Profile] /\ cases \in Seq(Case)
  /\ ordered \in BOOLEAN
  /\ command \in {"compile", "integration", "conformance"}
  /\ at \in {"load", "baseline", "candidate", "first replay", "second replay",
             "cases", "metrics", "write", "done", "failed"}

\* A comparison is of the two slices that are there, which never change again.
PairInv ==
  /\ baseline = NoSlice \/ baseline \in Slices
  /\ candidate = NoSlice \/ candidate \in Slices
  /\ at \in {"load", "baseline", "candidate"} => comparison = NoComparison
  /\ at = "candidate" => baseline \in Slices
  /\ \/ comparison = NoComparison
     \/ /\ baseline \in Slices /\ candidate \in Slices
        /\ \E faster \in BOOLEAN :
             comparison = ComparePair(baseline, candidate, faster)

ReplayOf(e) ==
  [second |-> e, deterministic |-> first = e,
   decision |-> IF first = e THEN "CLOSED" ELSE "UNKNOWN"]

ReplayInv ==
  /\ first = NoSlice \/ first \in Slices
  /\ at \in {"load", "baseline", "candidate", "first replay", "second replay"} =>
       replay = NoReplay
  /\ at = "second replay" => first \in Slices
  /\ \/ replay = NoReplay
     \/ first \in Slices /\ \E e \in Slices : replay = ReplayOf(e)

\* The decision is made last, by a conformance run only over declared cases.
DecisionInv ==
  /\ at = "metrics" => CasesAsDeclared
  /\ command = "conformance" /\ at \in {"write", "done"} => CasesAsDeclared
  /\ at # "done" => decision = None
  /\ at = "done" => decision \in Statuses \cup {None}
  /\ at = "done" /\ command = "conformance" => decision = ReportDecision

CommandInv == InputInv /\ PairInv /\ ReplayInv /\ DecisionInv

LEMMA InitCommand == Init => CommandInv
<1>. SUFFICES ASSUME Init PROVE CommandInv
  OBVIOUS
<1>1. InputInv
  BY InvocationTypes DEF Init, InputInv
<1>2. PairInv /\ ReplayInv /\ DecisionInv
  BY DEF Init, PairInv, ReplayInv, DecisionInv
<1>. QED
  BY <1>1, <1>2 DEF CommandInv

LEMMA ComparisonType ==
  ASSUME CommandInv
  PROVE  comparison.verdict \in Statuses \cup {None}
<1>1. CASE comparison = NoComparison
  BY <1>1 DEF NoComparison
<1>2. ASSUME NEW faster \in BOOLEAN,
             comparison = ComparePair(baseline, candidate, faster)
      PROVE  comparison.verdict \in Statuses
  BY <1>2 DEF ComparePair, Statuses
<1>. QED
  BY <1>1, <1>2 DEF CommandInv, PairInv

LEMMA InputsStay == [Next]_vars => UNCHANGED inputs
BY DEF Next, vars, inputs, Load, Fail, RunBaseline, RefuseOrder, RunCandidate,
       ReplayFirst, ReplaySecond, EvaluateCases, ReadMetrics, Write, Exited

LEMMA NextCommand == CommandInv /\ [Next]_vars => CommandInv'
<1>. SUFFICES ASSUME CommandInv, [Next]_vars PROVE CommandInv'
  OBVIOUS
<1>. USE DEF CommandInv, pair
<1>0. /\ UNCHANGED <<fixture, cases, ordered, command>>
      /\ Slices' = Slices /\ CasesAsDeclared' = CasesAsDeclared
  BY InputsStay DEF inputs, Slices, CasesAsDeclared
<1>1. InputInv'
  BY <1>0
     DEF InputInv, Next, vars, Load, Fail, RunBaseline, RefuseOrder,
         RunCandidate, ReplayFirst, ReplaySecond, EvaluateCases, ReadMetrics,
         Write, Exited
<1>2. PairInv'
  <2>1. CASE UNCHANGED pair /\ (UNCHANGED at \/ at' # "candidate")
        /\ (at \in {"load", "baseline", "candidate"}
              \/ at' \notin {"load", "baseline", "candidate"})
    BY <1>0, <2>1 DEF PairInv
  <2>2. CASE RunBaseline
    BY <1>0, <2>2 DEF RunBaseline, PairInv
  <2>3. CASE RunCandidate
    BY <1>0, <2>3 DEF RunCandidate, PairInv
  <2>. QED
    BY <2>1, <2>2, <2>3
       DEF InputInv, Next, vars, Load, Fail, RefuseOrder, ReplayFirst,
           ReplaySecond, EvaluateCases, ReadMetrics, Write, Exited
<1>3. ReplayInv'
  <2>. DEFINE Early == {"load", "baseline", "candidate", "first replay",
                        "second replay"}
  <2>1. CASE /\ UNCHANGED <<first, replay>>
             /\ UNCHANGED at \/ at' # "second replay"
             /\ at \in Early \/ at' \notin Early
    BY <1>0, <2>1 DEF ReplayInv, ReplayOf
  <2>2. CASE ReplayFirst
    BY <1>0, <2>2 DEF ReplayFirst, ReplayInv
  <2>3. CASE ReplaySecond
    <3>1. /\ at = "second replay" /\ at' = "cases" /\ first' = first
          /\ first \in Slices
          /\ \E e \in Slices : replay' = ReplayOf(e)
      BY <2>3 DEF ReplaySecond, ReplayInv, ReplayOf, SemanticRoot
    <3>. QED
      BY <1>0, <3>1 DEF ReplayInv, ReplayOf
  <2>. QED
    BY <2>1, <2>2, <2>3
       DEF InputInv, Next, vars, Load, Fail, RunBaseline, RefuseOrder,
           RunCandidate, EvaluateCases, ReadMetrics, Write, Exited
<1>4. DecisionInv'
  <2>1. CASE Write
    <3>1. /\ at = "write" /\ at' = "done"
          /\ decision' = CASE command = "compile"     -> "CLOSED"
                           [] command = "integration" -> comparison.verdict
                           [] command = "conformance" -> ReportDecision
          /\ ReportDecision' = ReportDecision
          /\ ReportDecision \in Statuses
      BY <1>0, <2>1
         DEF Write, pair, ReportDecision, Distribution, Statuses
    <3>2. decision' \in Statuses \cup {None}
      BY <3>1, ComparisonType DEF InputInv, Statuses
    <3>. QED
      BY <1>0, <3>1, <3>2 DEF DecisionInv
  <2>2. CASE EvaluateCases
    BY <1>0, <2>2 DEF EvaluateCases, DecisionInv
  <2>3. CASE /\ UNCHANGED <<at, pair, replay, decision>>
    BY <1>0, <2>3 DEF DecisionInv, ReportDecision, Distribution
  <2>4. CASE Load \/ Fail \/ RunBaseline \/ RefuseOrder \/ RunCandidate
             \/ ReplayFirst \/ ReplaySecond \/ ReadMetrics
    BY <1>0, <2>4
       DEF Load, Fail, RunBaseline, RefuseOrder, RunCandidate, ReplayFirst,
           ReplaySecond, ReadMetrics, DecisionInv
  <2>. QED
    BY <2>1, <2>2, <2>3, <2>4 DEF Next, vars, Exited
<1>. QED
  BY <1>1, <1>2, <1>3, <1>4

LEMMA CommandInvariant == Spec => []CommandInv
BY InitCommand, NextCommand, PTL DEF Spec

-----------------------------------------------------------------------------
(* The theorems *)

\* What is known of a replay that was made.
LEMMA ReplayedPair ==
  ASSUME CommandInv
  PROVE  \/ replay = NoReplay
         \/ /\ first \in Slices /\ replay.second \in Slices
            /\ replay.deterministic <=> first = replay.second
            /\ replay.decision \in Statuses
<1>1. ASSUME NEW e \in Slices, first \in Slices, replay = ReplayOf(e)
      PROVE  /\ first \in Slices /\ replay.second \in Slices
             /\ replay.deterministic <=> first = replay.second
             /\ replay.decision \in Statuses
  <2>1. replay.second = e
    BY <1>1 DEF ReplayOf
  <2>2. replay.deterministic = (first = e)
    BY <1>1, Zenon DEF ReplayOf
  <2>3. replay.decision \in {"CLOSED", "UNKNOWN"}
    BY <1>1 DEF ReplayOf
  <2>. QED
    BY <1>1, <2>1, <2>2, <2>3 DEF Statuses
<1>. QED
  BY <1>1 DEF CommandInv, ReplayInv

LEMMA NoReplayFields ==
  /\ NoReplay.second = NoSlice /\ NoReplay.decision = None
  /\ ~NoReplay.deterministic
BY DEF NoReplay

\* Every variable keeps its type; every slice a command holds has evidence in
\* every slot.
THEOREM CommandTypes == Spec => []TypeOK
<1>1. CommandInv => TypeOK
  <2>. SUFFICES ASSUME CommandInv PROVE TypeOK
    OBVIOUS
  <2>1. \A e \in Slices : IsSlice(e)
    BY SlicesAreTyped DEF CommandInv, InputInv
  <2>2. comparison.verdict \in Statuses \cup {None}
    BY ComparisonType
  <2>3. /\ replay.decision \in Statuses \cup {None}
        /\ replay.second = NoSlice \/ replay.second \in Slices
    BY ReplayedPair, NoReplayFields
  <2>4. decision \in Statuses \cup {None}
    BY DEF CommandInv, DecisionInv
  <2>. DEFINE Held(e) == e = NoSlice \/ e \in [Positions -> Evidence]
  <2>5. Held(baseline) /\ Held(candidate) /\ Held(first) /\ Held(replay.second)
    BY <2>1, <2>3 DEF CommandInv, PairInv, ReplayInv, IsSlice
  <2>. QED
    <3>1. \A slice \in {baseline, candidate, first, replay.second} : Held(slice)
      BY <2>5
    <3>. HIDE DEF Held
    <3>2. {comparison.verdict, replay.decision} \subseteq Statuses \cup {None}
      BY <2>2, <2>3
    <3>. QED
      BY <2>4, <3>1, <3>2 DEF CommandInv, InputInv, TypeOK, Held
<1>. QED
  BY <1>1, CommandInvariant, PTL

\* What is known of a comparison that was made.
LEMMA ComparedPair ==
  ASSUME CommandInv, Compared
  PROVE  /\ baseline \in Slices /\ candidate \in Slices
         /\ comparison.verdict # "REFUTED" <=> baseline = candidate
         /\ comparison.verdict = "REFUTED" =>
              comparison.counterexample = FirstDifference(baseline, candidate)
         /\ comparison.verdicts
              = <<FinalVerdict(baseline), FinalVerdict(candidate)>>
<1>1. comparison # NoComparison
  BY DEF Compared, NoComparison
<1>2. PICK faster \in BOOLEAN :
        comparison = ComparePair(baseline, candidate, faster)
  BY <1>1 DEF CommandInv, PairInv
<1>3. baseline \in Slices /\ candidate \in Slices
  BY <1>1 DEF CommandInv, PairInv
<1>4. comparison.verdict # "REFUTED" <=> baseline = candidate
  BY <1>2, ExactIsEqual DEF ComparePair
<1>5. comparison.verdict = "REFUTED" =>
        comparison.counterexample = FirstDifference(baseline, candidate)
  BY <1>2, <1>4, ExactIsEqual DEF ComparePair
<1>6. comparison.verdicts = <<FinalVerdict(baseline), FinalVerdict(candidate)>>
  BY <1>2 DEF ComparePair
<1>. QED
  BY <1>3, <1>4, <1>5, <1>6

\* README.md:17, for any number of locks: ComparePair misses no difference
\* between the two slices and invents none.
THEOREM PairsCompared == Spec => []PairVerdictExact
<1>1. CommandInv => PairVerdictExact
  BY ComparedPair DEF PairVerdictExact
<1>. QED
  BY <1>1, CommandInvariant, PTL

\* "a counterexample is required": a refuted pair shows a difference it has, of
\* the first lock whose status or digest differs.
THEOREM CounterexamplesHold == Spec => []CounterexampleShown
<1>1. CommandInv => CounterexampleShown
  <2>. SUFFICES ASSUME CommandInv, comparison.verdict = "REFUTED"
                PROVE  CounterexampleShown
    BY DEF CounterexampleShown
  <2>1. Compared
    BY DEF Compared, None
  <2>2. /\ IsSlice(baseline) /\ IsSlice(candidate) /\ baseline # candidate
        /\ comparison.counterexample = FirstDifference(baseline, candidate)
    BY <2>1, ComparedPair, SlicesAreTyped DEF CommandInv, InputInv
  <2>. QED
    BY <2>2, DifferenceShown DEF CounterexampleShown
<1>. QED
  BY <1>1, CommandInvariant, PTL

\* REFUTED > UNKNOWN > CLOSED over the locks of each run, for any number.
THEOREM PrecedenceHolds == Spec => []VerdictPrecedence
<1>1. CommandInv => VerdictPrecedence
  <2>. SUFFICES ASSUME CommandInv, Compared PROVE VerdictPrecedence
    BY DEF VerdictPrecedence
  <2>1. IsSlice(baseline) /\ IsSlice(candidate)
    BY ComparedPair, SlicesAreTyped DEF CommandInv, InputInv
  <2>2. /\ comparison.verdicts[1] = FinalVerdict(baseline)
        /\ comparison.verdicts[2] = FinalVerdict(candidate)
    BY ComparedPair
  <2>3. ASSUME NEW side \in {<<baseline, comparison.verdicts[1]>>,
                             <<candidate, comparison.verdicts[2]>>}
        PROVE  side[2] =
                 IF \E k \in Positions : side[1][k].status = "REFUTED"
                   THEN "REFUTED"
                 ELSE IF \E k \in Positions : side[1][k].status = "UNKNOWN"
                   THEN "UNKNOWN"
                 ELSE "CLOSED"
    <3>1. IsSlice(side[1]) /\ side[2] = FinalVerdict(side[1])
      BY <2>1, <2>2, <2>3
    <3>. QED
      BY <3>1, FinalVerdictIs
  <2>. QED
    BY <2>3 DEF VerdictPrecedence
<1>. QED
  BY <1>1, CommandInvariant, PTL

\* Slices of locks whose answers do not race the deadline are equal.
LEMMA DeterminateSlices ==
  ASSUME fixture \in [Positions -> Profile],
         \A k \in Positions : Determinate(fixture[k]),
         NEW e \in Slices, NEW f \in Slices
  PROVE  e = f
<1>1. \A k \in Positions : e[k] = f[k]
  BY SlicesAreTyped, DeterminateIsUnique
<1>2. e \in [Positions -> Evidence] /\ f \in [Positions -> Evidence]
  BY SlicesAreTyped DEF IsSlice
<1>. QED
  BY <1>1, <1>2

\* "a pair can be CLOSED as an exact safe scheduling equivalence": where no
\* answer races the deadline, timing refutes no pair and breaks no replay.
THEOREM TimingIsHarmless == Spec => []TimingCannotRefute
<1>1. CommandInv => TimingCannotRefute
  <2>. SUFFICES ASSUME CommandInv, \A k \in Positions : Determinate(fixture[k])
                PROVE  /\ comparison.verdict # "REFUTED"
                       /\ Replayed => replay.deterministic
    BY DEF TimingCannotRefute
  <2>1. \A e, f \in Slices : e = f
    BY DeterminateSlices DEF CommandInv, InputInv
  <2>2. comparison.verdict # "REFUTED"
    <3>1. CASE Compared
      BY <2>1, <3>1, ComparedPair
    <3>2. CASE ~Compared
      BY <3>2 DEF Compared, None
    <3>. QED
      BY <3>1, <3>2
  <2>3. Replayed => replay.deterministic
    BY <2>1, ReplayedPair, NoReplayFields DEF Replayed
  <2>. QED
    BY <2>2, <2>3
<1>. QED
  BY <1>1, CommandInvariant, PTL

\* The denominators of the three statuses account for every case.
LEMMA CasesCounted ==
  ASSUME cases \in Seq(Case), NEW n \in Nat,
         \A s \in Statuses : Distribution[s] = n
  PROVE  Len(cases) = 3 * n
<1>. DEFINE Decided(s) == {k \in DOMAIN cases : CaseDecision(cases[k]) = s}
<1>1. DOMAIN cases = 1..Len(cases) /\ Len(cases) \in Nat
  OBVIOUS
<1>2. /\ IsFiniteSet(DOMAIN cases) /\ Cardinality(DOMAIN cases) = Len(cases)
  BY <1>1, FS_Interval
<1>3. \A s \in Statuses : IsFiniteSet(Decided(s)) /\ Cardinality(Decided(s)) = n
  <2>1. \A s : Decided(s) \in SUBSET DOMAIN cases
    OBVIOUS
  <2>2. \A s : IsFiniteSet(Decided(s))
    BY <1>2, <2>1, FS_Subset
  <2>. QED
    BY <2>2 DEF Distribution
<1>4. DOMAIN cases = (Decided("CLOSED") \cup Decided("UNKNOWN"))
                       \cup Decided("REFUTED")
  <2>1. \A k \in DOMAIN cases : CaseDecision(cases[k]) \in Statuses
    BY DEF CaseDecision, Statuses
  <2>. QED
    BY <2>1 DEF Statuses
<1>5. /\ Decided("CLOSED") \cap Decided("UNKNOWN") = {}
      /\ (Decided("CLOSED") \cup Decided("UNKNOWN")) \cap Decided("REFUTED") = {}
  OBVIOUS
<1>. HIDE DEF Decided
<1>6. /\ IsFiniteSet(Decided("CLOSED") \cup Decided("UNKNOWN"))
      /\ Cardinality(Decided("CLOSED") \cup Decided("UNKNOWN")) = n + n
  BY <1>3, <1>5, DisjointUnion DEF Statuses
<1>7. Cardinality(DOMAIN cases) = n + n + n
  BY <1>3, <1>4, <1>5, <1>6, DisjointUnion DEF Statuses
<1>. QED
  BY <1>2, <1>7

\* A conformance report is CLOSED only over two exact pairs of runs and the
\* declared decision of each of the nine cases.
THEOREM ReportsClosed == Spec => []ClosedReport
<1>1. CommandInv => ClosedReport
  <2>. SUFFICES ASSUME CommandInv, command = "conformance", decision = "CLOSED"
                PROVE  /\ baseline = candidate /\ first = replay.second
                       /\ CasesAsDeclared /\ Len(cases) = 3 * CasesPerStatus
    BY DEF ClosedReport
  <2>1. at = "done" /\ ReportDecision = "CLOSED" /\ CasesAsDeclared
    BY DEF CommandInv, DecisionInv, None
  <2>2. /\ comparison.verdict = "CLOSED" /\ replay.deterministic
        /\ \A s \in Statuses : Distribution[s] = CasesPerStatus
    BY <2>1 DEF ReportDecision
  <2>3. baseline = candidate
    BY <2>2, ComparedPair DEF Compared, None
  <2>4. first = replay.second
    BY <2>2, ReplayedPair, NoReplayFields
  <2>5. Len(cases) = 3 * CasesPerStatus
    BY <2>2, CasesCounted, CommandsAssumption DEF CommandInv, InputInv
  <2>. QED
    BY <2>1, <2>3, <2>4, <2>5
<1>. QED
  BY <1>1, CommandInvariant, PTL

=============================================================================
