------------------------------ MODULE Commands ------------------------------
(***************************************************************************)
(* The three commands of cmd/.../main.go over validated inputs, with what  *)
(* they call in internal/scheduler/runner.go: RunPair, ReplayPair,         *)
(* ComparePair and EvaluateCanonicalCases, and the decision of WriteOutputs.*)
(*                                                                         *)
(* A run is what EvidenceLedger says of it: a complete slice with evidence *)
(* the profile of each lock accounts for, and nothing about when.  So the  *)
(* runs of one command differ as far as timing can make them differ.       *)
(***************************************************************************)
EXTENDS ProofLock, Sequences, FiniteSets

CONSTANTS
  LockCount,      \* the number of locks, named by their canonical position
  Invocations,    \* the commands considered, with their inputs
  CasesPerStatus  \* the fixed denominator of each status, 3 in the code

Positions == 1..LockCount
Statuses  == {"CLOSED", "UNKNOWN", "REFUTED"}

\* A declared case with its fixture: the kind, whether its status is 200, and
\* whether the observed fields are there and are the expected ones.
Case ==
  [expected : Statuses,
   kind : {"exact", "missing", "timeout", "rate-limit", "ambiguous",
           "race-divergence"},
   answered : BOOLEAN, coordinateExact : BOOLEAN, digestExact : BOOLEAN]

Invocation ==
  [command : {"compile", "integration", "conformance"},
   fixture : [Positions -> Profile], cases : Seq(Case), ordered : BOOLEAN]

ASSUME CommandsAssumption ==
  /\ LockCount \in Nat \ {0} /\ CasesPerStatus \in Nat
  /\ Invocations \subseteq Invocation

VARIABLES
  fixture,     \* the profile of every lock
  cases,       \* the canonical cases with their fixtures
  ordered,     \* the canonical order respects the dependencies
  command,     \* os.Args[1]
  at,          \* the step the command is at
  baseline,    \* evidence of the sequential run
  candidate,   \* evidence of the bounded-parallel run
  comparison,  \* what ComparePair returned
  first,       \* evidence of the first replay run
  replay,      \* what ReplayPair returned
  decision     \* the decision printed

inputs == <<fixture, cases, ordered, command>>
pair   == <<baseline, candidate, comparison>>
vars   == <<inputs, at, pair, first, replay, decision>>

-----------------------------------------------------------------------------
(* The pure parts *)

\* Fault: unknown evidence outweighs refuted evidence.
FaultyPrecedence(status) ==
  CASE status = "REFUTED" -> 2
    [] status = "UNKNOWN" -> 3
    [] status = "CLOSED"  -> 1
    [] OTHER              -> 4

precedence(status) ==
  CASE status = "REFUTED" -> 3
    [] status = "UNKNOWN" -> 2
    [] status = "CLOSED"  -> 1
    [] OTHER              -> 4

\* aggregateEvidence: CLOSED, unless some status precedes it.
FinalVerdict(evidence) ==
  LET statuses == {"CLOSED"} \cup {evidence[k].status : k \in Positions}
  IN  CHOOSE s \in statuses : \A t \in statuses : precedence(t) <= precedence(s)

\* Fault: the root covers the mode of the run.
FaultySemanticRoot(mode, evidence) == <<mode, evidence>>

\* The digest of the canonical evidence: equal only for equal slices.
SemanticRoot(mode, evidence) == evidence

\* Fault: the attempts are left out of what is compared.
FaultyExact(left, right) ==
  {"status", "digest", "unknown", "counterexample", "verdict", "root"} \
    {f \in {"status", "digest", "unknown", "counterexample"} :
       \E k \in Positions : left[k][f] # right[k][f]}

\* The critical fields ComparePair finds exact.
Exact(left, right) ==
  {f \in {"status", "digest", "unknown", "counterexample"} :
     \A k \in Positions : left[k][f] = right[k][f]}
  \cup {f \in {"verdict"} : FinalVerdict(left) = FinalVerdict(right)}
  \cup {f \in {"root"} : SemanticRoot("sequential", left)
                           = SemanticRoot("bounded-parallel", right)}

AllExact == {"status", "digest", "unknown", "counterexample", "verdict", "root"}

Difference(kind, expected, observed) ==
  [kind |-> kind, expected |-> expected, observed |-> observed]

\* Fault: the difference shown is that of the last lock that differs.
FaultyShown(k, differing) == \A j \in differing : j <= k

Shown(k, differing) == \A j \in differing : k <= j

\* firstEvidenceDifference, or the roots when it finds none.
FirstDifference(left, right) ==
  LET differing == {k \in Positions : \/ left[k].status # right[k].status
                                      \/ left[k].digest # right[k].digest}
      k == CHOOSE i \in differing : Shown(i, differing)
  IN  IF differing = {}
        THEN Difference("SEMANTIC_ROOT_MISMATCH", left, right)
      ELSE IF left[k].status # right[k].status
        THEN Difference("PER_LOCK_STATUS_DIFFERENCE", left[k].status, right[k].status)
        ELSE Difference("PER_LOCK_DIGEST_DIFFERENCE", left[k].digest, right[k].digest)

\* ComparePair; faster says that the candidate's wall time is strictly lower.
ComparePair(left, right, faster) ==
  LET exact == Exact(left, right) = AllExact
  IN  [verdict |-> CASE ~exact           -> "REFUTED"
                     [] exact /\ ~faster -> "UNKNOWN"
                     [] exact /\ faster  -> "CLOSED",
       verdicts |-> <<FinalVerdict(left), FinalVerdict(right)>>,
       unknown |-> exact /\ ~faster,
       counterexample |-> IF exact THEN Difference(None, None, None)
                                   ELSE FirstDifference(left, right)]

\* The zero values of what has not been computed.
NoSlice == <<>>
NoComparison ==
  [verdict |-> None, verdicts |-> <<None, None>>, unknown |-> FALSE,
   counterexample |-> Difference(None, None, None)]
NoReplay == [second |-> NoSlice, deterministic |-> FALSE, decision |-> None]

\* evaluateCase
CaseDecision(case) ==
  CASE case.kind = "race-divergence" -> "REFUTED"
    [] case.kind # "race-divergence" /\ (~case.answered \/ case.kind # "exact") ->
         "UNKNOWN"
    [] OTHER -> IF case.coordinateExact /\ case.digestExact
                  THEN "CLOSED" ELSE "REFUTED"

Distribution ==
  [s \in Statuses |->
     Cardinality({k \in DOMAIN cases : CaseDecision(cases[k]) = s})]

-----------------------------------------------------------------------------

Init ==
  /\ \E i \in Invocations :
       /\ fixture = i.fixture /\ cases = i.cases
       /\ ordered = i.ordered /\ command = i.command
  /\ at = "load"
  /\ baseline = NoSlice /\ candidate = NoSlice /\ comparison = NoComparison
  /\ first = NoSlice /\ replay = NoReplay
  /\ decision = None

\* Flags, files and Validate; only some commands run anything after them.
Load ==
  /\ at = "load"
  /\ at' = IF command = "compile" THEN "write" ELSE "baseline"
  /\ UNCHANGED <<inputs, pair, first, replay, decision>>

\* The steps that touch files fail for reasons of their own.
Fail ==
  /\ at \in {"load", "metrics", "write"}
  /\ at' = "failed"
  /\ UNCHANGED <<inputs, pair, first, replay, decision>>

\* Fault: a slice may come back with a slot nothing was written to.
FaultySlices ==
  [Positions -> {ZeroEvidence} \cup UNION {Admissible(fixture[k]) : k \in Positions}]

\* The slices a run of the fixture may return.
Slices ==
  {e \in [Positions -> UNION {Admissible(fixture[k]) : k \in Positions}] :
     \A k \in Positions : e[k] \in Admissible(fixture[k])}

\* The sequential run asks for one slot and cannot be refused.
RunBaseline ==
  /\ at = "baseline"
  /\ baseline' \in Slices
  /\ at' = "candidate"
  /\ UNCHANGED <<inputs, candidate, comparison, first, replay, decision>>

\* buildWaves refuses the order, after the whole baseline was fetched.
RefuseOrder ==
  /\ at \in {"candidate", "first replay", "second replay"}
  /\ ~ordered
  /\ at' = "failed"
  /\ UNCHANGED <<inputs, pair, first, replay, decision>>

\* RunPair ends: the candidate, compared with the baseline.
RunCandidate ==
  /\ at = "candidate"
  /\ ordered
  /\ candidate' \in Slices
  /\ \E faster \in BOOLEAN :
       comparison' = ComparePair(baseline, candidate', faster)
  /\ at' = IF command = "integration" THEN "write" ELSE "first replay"
  /\ UNCHANGED <<inputs, baseline, first, replay, decision>>

ReplayFirst ==
  /\ at = "first replay"
  /\ ordered
  /\ first' \in Slices
  /\ at' = "second replay"
  /\ UNCHANGED <<inputs, pair, replay, decision>>

\* ReplayPair ends: both runs are parallel, only their roots are compared.
ReplaySecond ==
  /\ at = "second replay"
  /\ ordered
  /\ \E second \in Slices :
       LET deterministic == SemanticRoot("bounded-parallel", first)
                              = SemanticRoot("bounded-parallel", second)
       IN  replay' = [second |-> second, deterministic |-> deterministic,
                      decision |-> IF deterministic THEN "CLOSED" ELSE "UNKNOWN"]
  /\ at' = "cases"
  /\ UNCHANGED <<inputs, pair, first, decision>>

CasesAsDeclared ==
  \A k \in DOMAIN cases : CaseDecision(cases[k]) = cases[k].expected

\* EvaluateCanonicalCases returns an error at the first undeclared decision.
EvaluateCases ==
  /\ at = "cases"
  /\ at' = IF CasesAsDeclared THEN "metrics" ELSE "failed"
  /\ UNCHANGED <<inputs, pair, first, replay, decision>>

ReadMetrics ==
  /\ at = "metrics"
  /\ at' = "write"
  /\ UNCHANGED <<inputs, pair, first, replay, decision>>

\* Fault: the replay does not count.
FaultyReportDecision ==
  IF comparison.verdict = "CLOSED"
       /\ \A s \in Statuses : Distribution[s] = CasesPerStatus
    THEN "CLOSED" ELSE "UNKNOWN"

\* The decision of the conformance report.
ReportDecision ==
  IF /\ comparison.verdict = "CLOSED"
     /\ replay.deterministic
     /\ \A s \in Statuses : Distribution[s] = CasesPerStatus
    THEN "CLOSED" ELSE "UNKNOWN"

\* The results are written and the decision printed.
Write ==
  /\ at = "write"
  /\ decision' = CASE command = "compile"     -> "CLOSED"
                   [] command = "integration" -> comparison.verdict
                   [] command = "conformance" -> ReportDecision
  /\ at' = "done"
  /\ UNCHANGED <<inputs, pair, first, replay>>

\* The process has exited.
Exited == at \in {"done", "failed"} /\ UNCHANGED vars

Next ==
  \/ Load \/ Fail \/ RunBaseline \/ RefuseOrder \/ RunCandidate
  \/ ReplayFirst \/ ReplaySecond \/ EvaluateCases \/ ReadMetrics \/ Write
  \/ Exited

Spec == Init /\ [][Next]_vars

-----------------------------------------------------------------------------
(* Properties *)

\* The type of every variable; a slice holds evidence in every slot.
TypeOK ==
  /\ fixture \in [Positions -> Profile] /\ cases \in Seq(Case)
  /\ ordered \in BOOLEAN
  /\ command \in {"compile", "integration", "conformance"}
  /\ at \in {"load", "baseline", "candidate", "first replay", "second replay",
             "cases", "metrics", "write", "done", "failed"}
  /\ \A slice \in {baseline, candidate, first, replay.second} :
       slice = NoSlice \/ slice \in [Positions -> Evidence]
  /\ {comparison.verdict, replay.decision} \subseteq Statuses \cup {None}
  /\ decision \in Statuses \cup {None}

Compared == comparison.verdict # None
Replayed == replay.decision # None

\* README.md:17: a pair is closed or lacks only speed exactly when both runs
\* hold the same evidence for every lock, down to the attempts; the six flags
\* of the comparison miss no difference and invent none.
PairVerdictExact ==
  Compared => (comparison.verdict # "REFUTED" <=> baseline = candidate)

\* "a counterexample is required": the one shown is a difference the pair has,
\* of the first lock whose status or digest differs.
CounterexampleShown ==
  comparison.verdict = "REFUTED" =>
    LET c == comparison.counterexample
        Same(k) == /\ baseline[k].status = candidate[k].status
                   /\ baseline[k].digest = candidate[k].digest
    IN  /\ c.kind # None /\ c.expected # c.observed
        /\ IF c.kind = "SEMANTIC_ROOT_MISMATCH"
             THEN \A k \in Positions : Same(k)
             ELSE \E k \in Positions :
                    /\ \A j \in 1..(k - 1) : Same(j)
                    /\ <<c.expected, c.observed>> \in
                         {<<baseline[k].status, candidate[k].status>>,
                          <<baseline[k].digest, candidate[k].digest>>}

\* "a pair can be CLOSED as an exact safe scheduling equivalence": timing alone
\* refutes no pair and breaks no replay of locks whose answers do not race the
\* client's deadline.
TimingCannotRefute ==
  (\A k \in Positions : Determinate(fixture[k])) =>
    /\ comparison.verdict # "REFUTED"
    /\ Replayed => replay.deterministic

\* "REFUTED > UNKNOWN > CLOSED" in the verdicts over the locks.
VerdictPrecedence ==
  Compared =>
    \A side \in {<<baseline, comparison.verdicts[1]>>,
                 <<candidate, comparison.verdicts[2]>>} :
      LET Has(s) == \E k \in Positions : side[1][k].status = s
      IN  side[2] = CASE Has("REFUTED") -> "REFUTED"
                      [] Has("UNKNOWN") /\ ~Has("REFUTED") -> "UNKNOWN"
                      [] OTHER -> "CLOSED"

\* A conformance report is CLOSED only over two exact pairs of runs and the
\* declared decision of each case.
ClosedReport ==
  command = "conformance" /\ decision = "CLOSED" =>
    /\ baseline = candidate /\ first = replay.second
    /\ CasesAsDeclared /\ Len(cases) = 3 * CasesPerStatus

\* README.md:20: "A race or semantic difference is `REFUTED`", in a replay too.
RaceIsRefuted ==
  Replayed /\ first # replay.second => replay.decision = "REFUTED"

=============================================================================
