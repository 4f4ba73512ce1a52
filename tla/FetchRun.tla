------------------------------ MODULE FetchRun ------------------------------
(***************************************************************************)
(* run() of internal/scheduler/runner.go with everything it calls:         *)
(* buildWaves, the wave loop with its WaitGroup and semaphore, one         *)
(* goroutine per lock of a wave, fetchLock with its retry loop, and the    *)
(* in-flight meter.  The main goroutine and the fetch goroutines           *)
(* interleave arbitrarily; whether an answer beats the client's deadline   *)
(* is decided by the profile of the lock.                                  *)
(*                                                                         *)
(* A goroutine is named by the position of its lock in the canonical       *)
(* order.  Sleeping before a retry is not a step of its own: a goroutine   *)
(* may rest at "attempt" for as long as it likes.                          *)
(***************************************************************************)
EXTENDS ProofLock, Sequences, FiniteSets, Functions

CONSTANTS
  Locks,             \* the declared lock IDs
  Order,             \* canonical order: a sequence of declared IDs
  Graphs,            \* the dependency lists considered, each a set per lock
  ConcurrencyBound,  \* concurrency bound of the source
  Requested,         \* the concurrencies callers may ask for
  Fixtures           \* the fixtures considered, each a profile per lock

Positions == 1..Len(Order)

\* Validate admits any dependency lists over the declared IDs that are free of
\* cycles; cyclic ones are harmless here, buildWaves refuses them.
ASSUME SourceAssumption ==
  /\ Order \in Seq(Locks) /\ Order # <<>>
  /\ Graphs \subseteq [Locks -> SUBSET Locks]
  /\ ConcurrencyBound \in Nat \ {0}
  /\ Requested \subseteq Int
  /\ Fixtures \subseteq [Locks -> Profile]

\* Every lock is in the canonical order exactly once.
ASSUME OrderAssumption ==
  /\ IsInjective(Order)
  /\ Range(Order) = Locks

VARIABLES
  fixture,      \* the profile of every lock
  deps,         \* deps[l]: the dependency list of l, as a set
  mode,         \* runOptions.mode
  concurrency,  \* runOptions.concurrency, the capacity of each semaphore
  main,         \* control of the main goroutine
  cursor,       \* positions the main goroutine's current loop has passed
  waveByID,     \* waveByID of buildWaves; NoWave where the map has no entry
  maxWave,      \* maxWave of buildWaves
  wave,         \* the wave being run
  group,        \* counter of the wave's WaitGroup
  slots,        \* tokens in the wave's semaphore channel
  pc,           \* control of the goroutine of each position
  attempt,      \* attempt of each fetchLock call
  inflight,     \* inflightMeter.current
  peak,         \* inflightMeter.peak
  evidence      \* the evidence slice

options  == <<fixture, deps, mode, concurrency>>
waveVars == <<waveByID, maxWave>>
mainVars == <<main, cursor, wave>>
meter    == <<inflight, peak>>
fetching == <<pc, attempt, meter, evidence>>
vars     == <<options, waveVars, mainVars, group, slots, fetching>>

NoWave == -1

Profiled(i) == fixture[Order[i]]

\* Positions whose ID is in the wave being run.
WavePositions == {i \in Positions : waveByID[Order[i]] = wave}

\* indices[id]
IndexOf(id) == CHOOSE k \in Positions : Order[k] = id

Slot(i) == IF mode = "sequential" THEN i ELSE IndexOf(Order[i])

-----------------------------------------------------------------------------

Init ==
  /\ fixture \in Fixtures /\ deps \in Graphs
  /\ mode \in {"sequential", "bounded-parallel"}
  /\ concurrency \in Requested
  /\ main = "start" /\ cursor = 0 /\ wave = 0
  /\ waveByID = [l \in Locks |-> NoWave] /\ maxWave = 0
  /\ group = 0 /\ slots = 0
  /\ pc = [i \in Positions |-> "idle"]
  /\ attempt = [i \in Positions |-> 0]
  /\ inflight = 0 /\ peak = 0
  /\ evidence = [i \in Positions |-> ZeroEvidence]

(* The main goroutine *)

\* The guard on options.concurrency returns an error before anything starts.
RefuseOptions ==
  /\ main = "start"
  /\ concurrency \notin 1..ConcurrencyBound
  /\ main' = "failed"
  /\ UNCHANGED <<options, waveVars, cursor, wave, group, slots, fetching>>

Start ==
  /\ main = "start"
  /\ concurrency \in 1..ConcurrencyBound
  /\ main' = IF mode = "sequential" THEN "loop" ELSE "build"
  /\ UNCHANGED <<options, waveVars, cursor, wave, group, slots, fetching>>

\* The sequential loop calls fetchLock for one position after the other.
SequentialNext ==
  /\ main = "loop"
  /\ cursor < Len(Order)
  /\ cursor > 0 => pc[cursor] = "done"
  /\ cursor' = cursor + 1
  /\ pc' = [pc EXCEPT ![cursor + 1] = "attempt"]
  /\ UNCHANGED <<options, waveVars, main, wave, group, slots,
                 attempt, meter, evidence>>

SequentialEnd ==
  /\ main = "loop"
  /\ cursor = Len(Order)
  /\ pc[cursor] = "done"
  /\ main' = "done"
  /\ UNCHANGED <<options, waveVars, cursor, wave, group, slots, fetching>>

\* Fault: a lock may share the wave of its dependency.
FaultyIsWaveOf(w, id) ==
  /\ \A d \in deps[id] : waveByID[d] <= w
  /\ w = 0 \/ \E d \in deps[id] : w = waveByID[d]

\* w is the wave the dependency loop of buildWaves computes for the lock.
IsWaveOf(w, id) ==
  /\ \A d \in deps[id] : waveByID[d] + 1 <= w
  /\ w = 0 \/ \E d \in deps[id] : w = waveByID[d] + 1

\* buildWaves, one ID of the canonical order.
AssignWave ==
  /\ main = "build"
  /\ cursor < Len(Order)
  /\ LET id == Order[cursor + 1] IN
       /\ \A d \in deps[id] : waveByID[d] # NoWave
       /\ \E w \in 0..Len(Order) :
            /\ IsWaveOf(w, id)
            /\ waveByID' = [waveByID EXCEPT ![id] = w]
            /\ maxWave' = IF w > maxWave THEN w ELSE maxWave
  /\ cursor' = cursor + 1
  /\ UNCHANGED <<options, main, wave, group, slots, fetching>>

\* "canonical order is not dependency-respecting"
RefuseOrder ==
  /\ main = "build"
  /\ cursor < Len(Order)
  /\ \E d \in deps[Order[cursor + 1]] : waveByID[d] = NoWave
  /\ main' = "failed"
  /\ UNCHANGED <<options, waveVars, cursor, wave, group, slots, fetching>>

BeginWaves ==
  /\ main = "build"
  /\ cursor = Len(Order)
  /\ main' = "spawn"
  /\ UNCHANGED <<options, waveVars, cursor, wave, group, slots, fetching>>

\* group.Add(1) and the go statement, in the wave's sorted order.
Spawn(i) ==
  /\ main = "spawn"
  /\ i \in WavePositions
  /\ pc[i] = "idle"
  /\ \A j \in WavePositions : j < i => pc[j] # "idle"
  /\ group' = group + 1
  /\ pc' = [pc EXCEPT ![i] = "queued"]
  /\ UNCHANGED <<options, waveVars, mainVars, slots, attempt, meter, evidence>>

\* The loop over the wave is over: the main goroutine calls group.Wait.
AwaitWave ==
  /\ main = "spawn"
  /\ \A i \in WavePositions : pc[i] # "idle"
  /\ main' = "wait"
  /\ UNCHANGED <<options, waveVars, cursor, wave, group, slots, fetching>>

\* Fault: the counter is raised by the goroutines themselves, so Wait may
\* return while the last of them has yet to finish.
FaultyWaveOver == group <= 1

\* What group.Wait waits for.
WaveOver == group = 0

\* Wait returns; the next wave has a fresh semaphore.
NextWave ==
  /\ main = "wait"
  /\ WaveOver
  /\ wave < maxWave
  /\ wave' = wave + 1
  /\ slots' = 0
  /\ main' = "spawn"
  /\ UNCHANGED <<options, waveVars, cursor, group, fetching>>

FinishWaves ==
  /\ main = "wait"
  /\ WaveOver
  /\ wave = maxWave
  /\ main' = "done"
  /\ UNCHANGED <<options, waveVars, cursor, wave, group, slots, fetching>>

Main ==
  \/ RefuseOptions \/ Start
  \/ SequentialNext \/ SequentialEnd
  \/ AssignWave \/ RefuseOrder \/ BeginWaves
  \/ (\E i \in Positions : Spawn(i)) \/ AwaitWave \/ NextWave \/ FinishWaves

-----------------------------------------------------------------------------
(* fetchLock and the goroutine around it *)

\* Fault: the semaphore is one larger than the requested concurrency.
FaultySlotFree == slots <= concurrency

\* The send on the semaphore channel does not block.
SlotFree == slots < concurrency

Acquire(i) ==
  /\ pc[i] = "queued"
  /\ SlotFree
  /\ slots' = slots + 1
  /\ pc' = [pc EXCEPT ![i] = "attempt"]
  /\ UNCHANGED <<options, waveVars, mainVars, group, attempt, meter, evidence>>

\* fetchLock returns e and its caller stores it in the slice; the sequential
\* loop then goes on, a goroutine runs its deferred calls.
Record(i, e) ==
  /\ evidence' = [evidence EXCEPT ![Slot(i)] = e]
  /\ pc' = [pc EXCEPT ![i] = IF mode = "sequential" THEN "done" ELSE "release"]

\* A reused lock is closed without a request.
Reuse(i) ==
  /\ pc[i] = "attempt"
  /\ Profiled(i).behavior = "reused"
  /\ Record(i, ReusedEvidence)
  /\ UNCHANGED <<options, waveVars, mainVars, group, slots, attempt, meter>>

\* meter.begin and the request.
Send(i) ==
  /\ pc[i] = "attempt"
  /\ Profiled(i).behavior # "reused"
  /\ attempt' = [attempt EXCEPT ![i] = @ + 1]
  /\ inflight' = inflight + 1
  /\ peak' = IF inflight + 1 > peak THEN inflight + 1 ELSE peak
  /\ pc' = [pc EXCEPT ![i] = "get"]
  /\ UNCHANGED <<options, waveVars, mainVars, group, slots, evidence>>

\* Fault: an attempt too many.
FaultyAttemptsLeft(i) == attempt[i] <= MaxAttempts

AttemptsLeft(i) == attempt[i] < MaxAttempts

\* Get returns an error, by the deadline or because the connection dropped:
\* meter.end, then another attempt or UNKNOWN evidence.
GetFails(i) ==
  /\ pc[i] = "get"
  /\ CanFail(Profiled(i))
  /\ inflight' = inflight - 1
  /\ \/ /\ AttemptsLeft(i)
        /\ pc' = [pc EXCEPT ![i] = "attempt"]
        /\ UNCHANGED evidence
     \/ /\ ~AttemptsLeft(i)
        /\ Record(i, UnknownEvidence("HTTP_TIMEOUT", attempt[i]))
  /\ UNCHANGED <<options, waveVars, mainVars, group, slots, attempt, peak>>

\* Get returns an answer: meter.end before the body is read.
GetAnswers(i) ==
  /\ pc[i] = "get"
  /\ CanAnswer(Profiled(i))
  /\ inflight' = inflight - 1
  /\ pc' = [pc EXCEPT ![i] = "body"]
  /\ UNCHANGED <<options, waveVars, mainVars, group, slots, attempt, peak,
                 evidence>>

\* The deadline also covers the body; only a 200 answer of the fixture server
\* has one.  A failed read is not retried.
BodyFails(i) ==
  /\ pc[i] = "body"
  /\ Profiled(i).deadline = "either"
  /\ ReplyStatus(Profiled(i)) = 200
  /\ Record(i, UnknownEvidence("HTTP_BODY_READ_FAILED", attempt[i]))
  /\ UNCHANGED <<options, waveVars, mainVars, group, slots, attempt, meter>>

\* Fault: every status other than 200 is retried.
FaultyRetriesAnswer(i) ==
  ReplyStatus(Profiled(i)) # 200 /\ AttemptsLeft(i)

\* A retryable answer with attempts left goes back to the loop's head.
RetriesAnswer(i) ==
  /\ ReplyStatus(Profiled(i)) # 200
  /\ IsRetryable(ReplyStatus(Profiled(i)))
  /\ AttemptsLeft(i)

RetryStatus(i) ==
  /\ pc[i] = "body"
  /\ RetriesAnswer(i)
  /\ pc' = [pc EXCEPT ![i] = "attempt"]
  /\ UNCHANGED <<options, waveVars, mainVars, group, slots, attempt, meter,
                 evidence>>

\* Every other answer ends the fetch.
Conclude(i) ==
  /\ pc[i] = "body"
  /\ ~RetriesAnswer(i)
  /\ Record(i, AnswerEvidence(Profiled(i), attempt[i]))
  /\ UNCHANGED <<options, waveVars, mainVars, group, slots, attempt, meter>>

\* Fault: the slot is never given back.
FaultyRelease(i) ==
  /\ pc[i] = "release"
  /\ pc' = [pc EXCEPT ![i] = "signal"]
  /\ UNCHANGED <<options, waveVars, mainVars, group, slots, attempt, meter,
                 evidence>>

\* The deferred calls run last-in first-out: the slot, then group.Done.
Release(i) ==
  /\ pc[i] = "release"
  /\ slots' = slots - 1
  /\ pc' = [pc EXCEPT ![i] = "signal"]
  /\ UNCHANGED <<options, waveVars, mainVars, group, attempt, meter, evidence>>

Signal(i) ==
  /\ pc[i] = "signal"
  /\ group' = group - 1
  /\ pc' = [pc EXCEPT ![i] = "done"]
  /\ UNCHANGED <<options, waveVars, mainVars, slots, attempt, meter, evidence>>

Goroutine(i) ==
  \/ Acquire(i) \/ Reuse(i) \/ Send(i) \/ GetFails(i) \/ GetAnswers(i)
  \/ BodyFails(i) \/ RetryStatus(i) \/ Conclude(i) \/ Release(i) \/ Signal(i)

-----------------------------------------------------------------------------

\* run has returned; nothing else happens.
Returned == main \in {"done", "failed"} /\ UNCHANGED vars

Next == Main \/ (\E i \in Positions : Goroutine(i)) \/ Returned

\* The Go scheduler runs every runnable goroutine, and the client's deadline
\* makes every Get return.
Fairness == WF_vars(Main) /\ \A i \in Positions : WF_vars(Goroutine(i))

Spec == Init /\ [][Next]_vars /\ Fairness

Having(P(_)) == Cardinality({i \in Positions : P(evidence[i])})

RequestsReported == SumFunction([i \in Positions |-> evidence[i].attempts])

\* Fault: a reused lock is counted as completed too.
FaultyMetrics ==
  [requests    |-> RequestsReported,
   maxInFlight |-> peak,
   completed   |-> Having(LAMBDA e : e.status = "CLOSED"),
   reused      |-> Having(LAMBDA e : e.reused),
   unknown     |-> Having(LAMBDA e : e.status = "UNKNOWN"),
   refuted     |-> Having(LAMBDA e : e.status = "REFUTED")]

\* summarizeMetrics, without the measured times and memory.
Metrics ==
  [requests    |-> RequestsReported,
   maxInFlight |-> peak,
   completed   |-> Having(LAMBDA e : e.status = "CLOSED" /\ ~e.reused),
   reused      |-> Having(LAMBDA e : e.reused),
   unknown     |-> Having(LAMBDA e : e.status = "UNKNOWN"),
   refuted     |-> Having(LAMBDA e : e.status = "REFUTED")]

-----------------------------------------------------------------------------
(* Properties *)

\* The type of every variable.
TypeOK ==
  /\ fixture \in Fixtures /\ deps \in Graphs
  /\ mode \in {"sequential", "bounded-parallel"}
  /\ concurrency \in Requested
  /\ main \in {"start", "loop", "build", "spawn", "wait", "done", "failed"}
  /\ cursor \in 0..Len(Order)
  /\ waveByID \in [Locks -> Nat \cup {NoWave}]
  /\ maxWave \in Nat /\ wave \in Nat
  /\ group \in Int /\ slots \in Int
  /\ pc \in [Positions -> {"idle", "queued", "attempt", "get", "body",
                           "release", "signal", "done"}]
  /\ attempt \in [Positions -> 0..MaxAttempts]
  /\ inflight \in Int /\ peak \in Nat
  /\ evidence \in [Positions -> Evidence \cup {ZeroEvidence}]

\* README.md: "at most eight in-flight local HTTP requests".  The requests
\* outstanding never exceed what the meter reports, and the meter never
\* reports more than the mode allows, however goroutines, timeouts and
\* retries interleave and across the semaphores of successive waves.
Outstanding == {i \in Positions : pc[i] = "get"}
Limit       == IF mode = "sequential" THEN 1 ELSE concurrency

InFlightBounded ==
  /\ Cardinality(Outstanding) <= peak
  /\ peak > 0 => peak <= Limit /\ Limit <= ConcurrencyBound

\* The wave barrier: a goroutine of the parallel mode exists only when the
\* evidence of every lock its own lock depends on is in the slice.
Recorded(id) == \E k \in Positions : Order[k] = id /\ evidence[k] # ZeroEvidence

DependenciesFirst ==
  mode = "bounded-parallel" =>
    \A i \in Positions :
      pc[i] # "idle" => \A d \in deps[Order[i]] : Recorded(d)

\* docs/protocol-v1.md:8: canonical order "is used only for emission and
\* comparison"; for a graph without cycles a run is then refused only for the
\* concurrency asked of it.
OrderOnlyForEmission ==
  main = "failed" => concurrency \notin 1..ConcurrencyBound

\* When run returns evidence, no goroutine of it is left, nothing is in
\* flight, and no slot of the slice still holds the zero value; when it
\* returns an error, no request was sent and no slot was written.
AllOrNothing ==
  /\ main = "done" =>
       /\ \A i \in Positions : pc[i] = "done" /\ evidence[i] # ZeroEvidence
       /\ group = 0 /\ slots = 0 /\ inflight = 0
  /\ main = "failed" =>
       \A i \in Positions : attempt[i] = 0 /\ evidence[i] = ZeroEvidence

\* The counters of the emitted metrics account for every lock once and for
\* every request that was sent.
MetricsAccount ==
  main = "done" =>
    /\ Metrics.completed + Metrics.reused + Metrics.unknown + Metrics.refuted
         = Len(Order)
    /\ Metrics.requests = SumFunction(attempt)

\* run returns, whatever the interleaving and whatever times out.
Termination == <>(main \in {"done", "failed"})

\* docs/protocol-v1.md: CLOSED needs evidence of the declared coordinate and
\* digest, REFUTED a contradiction of one that was really answered, and a lock
\* without safely interpretable evidence is UNKNOWN with a null digest.  Evidence
\* that is reused is not fetched and has no answer to be judged by.
VerdictSound ==
  \A i \in Positions :
    LET p == Profiled(i)
        Known == ReplyStatus(p) = 200 /\ p.deadline # "missed"
                   /\ "empty" \notin {p.coordinate, p.digest}
    IN  evidence[i] # ZeroEvidence /\ ~evidence[i].reused =>
          CASE evidence[i].status = "CLOSED" ->
                 Known /\ "other" \notin {p.coordinate, p.digest}
            [] evidence[i].status = "REFUTED" ->
                 /\ Known /\ "other" \in {p.coordinate, p.digest}
                 /\ evidence[i].counterexample # None
            [] OTHER ->
                 /\ Known => p.deadline = "either"
                 /\ evidence[i].unknown # None /\ evidence[i].digest = None

-----------------------------------------------------------------------------
(* The ledger a run implements *)

Ledger == INSTANCE EvidenceLedger WITH
  ledger <- [l \in Locks |-> evidence[IndexOf(l)]],
  phase  <- CASE main = "done"   -> "emitted"
              [] main = "failed" -> "refused"
              [] OTHER           -> "open"

\* Each mode enters every lock once, in the order it promises, with evidence
\* the lock's profile accounts for, and returns only a complete ledger.
ImplementsLedger == Ledger!LedgerSpec

\* "evidence in fixed order regardless of completion order": where no answer
\* races the deadline, the evidence in each slot is the one its profile
\* determines, in every mode and every interleaving.
EvidenceDetermined ==
  main = "done" =>
    \A i \in Positions :
      Determinate(Profiled(i)) =>
        Admissible(Profiled(i)) = {evidence[i]}

=============================================================================
