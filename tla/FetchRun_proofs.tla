-------------------------- MODULE FetchRun_proofs --------------------------
(***************************************************************************)
(* Proofs about FetchRun for every source, graph, fixture, concurrency     *)
(* bound and retry policy its assumptions admit.                           *)
(***************************************************************************)
EXTENDS FetchRun, ProofLock_proofs

\* The canonical order has no duplicates, so indices[id] is the one position of
\* the lock and every mode writes each lock's own slot.
LEMMA IndexOfPosition ==
  ASSUME NEW i \in Positions
  PROVE  IndexOf(Order[i]) = i
<1>1. \A k \in Positions : Order[k] = Order[i] => k = i
  BY SourceAssumption, OrderAssumption DEF IsInjective, Positions
<1>. QED
  BY <1>1 DEF IndexOf

LEMMA SlotIsPosition ==
  ASSUME NEW i \in Positions
  PROVE  Slot(i) = i
BY IndexOfPosition DEF Slot

LEMMA LocksOfPositions ==
  /\ Len(Order) \in Nat \ {0}
  /\ \A i \in Positions : Order[i] \in Locks
  /\ \A l \in Locks : \E i \in Positions : Order[i] = l
<1>1. DOMAIN Order = Positions
  BY SourceAssumption DEF Positions
<1>. QED
  BY <1>1, SourceAssumption, OrderAssumption DEF Positions, Range

LEMMA PositionRange ==
  /\ \A i \in Positions : i \in Nat \ {0} /\ i <= Len(Order)
  /\ \A k \in Nat : k < Len(Order) => k + 1 \in Positions
BY LocksOfPositions DEF Positions

-----------------------------------------------------------------------------
(* Type correctness *)

\* A goroutine that may send a request has an attempt left.
AttemptInv ==
  \A i \in Positions :
    pc[i] \in {"idle", "queued", "attempt"} => attempt[i] < MaxAttempts

\* What the control of the main goroutine says about the fetches: none before
\* the run starts or after a refusal, one at a time in the sequential loop.
ControlInv ==
  /\ main \in {"start", "build", "failed"} =>
       \A i \in Positions : pc[i] = "idle"
  /\ main = "start" => cursor = 0
  /\ main = "loop" =>
       /\ mode = "sequential"
       /\ \A i \in Positions : i < cursor => pc[i] = "done"
       /\ \A i \in Positions : i > cursor => pc[i] = "idle"
  /\ main \in {"build", "spawn", "wait"} => mode = "bounded-parallel"
  /\ mode = "sequential" =>
       /\ main = "done" => \A i \in Positions : pc[i] = "done"
       /\ \A i \in Positions : pc[i] \notin {"queued", "release", "signal"}

TypeInv == TypeOK /\ AttemptInv /\ ControlInv

LEMMA InitTypeInv == Init => TypeInv
<1>. SUFFICES ASSUME Init PROVE TypeInv
  OBVIOUS
<1>. USE LocksOfPositions, SourceAssumption, RetryAssumption DEF Init
<1>1. TypeOK
  BY DEF TypeOK, NoWave
<1>2. AttemptInv
  BY DEF AttemptInv
<1>3. ControlInv
  BY DEF ControlInv
<1>. QED
  BY <1>1, <1>2, <1>3 DEF TypeInv

LEMMA NextTypeOK == TypeOK /\ AttemptInv /\ [Next]_vars => TypeOK'
<1>. SUFFICES ASSUME TypeOK, AttemptInv, [Next]_vars PROVE TypeOK'
  OBVIOUS
<1>. USE LocksOfPositions, SlotIsPosition, SourceAssumption, RetryAssumption
<1>. USE DEF TypeOK, AttemptInv, options, waveVars, mainVars, meter, fetching
<1>1. CASE RefuseOptions
  BY <1>1 DEF RefuseOptions
<1>2. CASE Start
  BY <1>2 DEF Start
<1>3. CASE SequentialNext
  BY <1>3, PositionRange DEF SequentialNext
<1>4. CASE SequentialEnd
  BY <1>4 DEF SequentialEnd
<1>5. CASE AssignWave
  BY <1>5 DEF AssignWave
<1>6. CASE RefuseOrder
  BY <1>6 DEF RefuseOrder
<1>7. CASE BeginWaves
  BY <1>7 DEF BeginWaves
<1>8. ASSUME NEW i \in Positions, Spawn(i) PROVE TypeOK'
  BY <1>8 DEF Spawn
<1>9. CASE AwaitWave
  BY <1>9 DEF AwaitWave
<1>10. CASE NextWave
  BY <1>10 DEF NextWave
<1>11. CASE FinishWaves
  BY <1>11 DEF FinishWaves
<1>12. ASSUME NEW i \in Positions, Acquire(i) PROVE TypeOK'
  BY <1>12 DEF Acquire
<1>13. ASSUME NEW i \in Positions, Reuse(i) PROVE TypeOK'
  BY <1>13 DEF Reuse, Record, ReusedEvidence, Evidence, None
<1>14. ASSUME NEW i \in Positions, Send(i) PROVE TypeOK'
  BY <1>14 DEF Send
<1>15. ASSUME NEW i \in Positions, GetFails(i) PROVE TypeOK'
  <2>1. UnknownEvidence("HTTP_TIMEOUT", attempt[i]) \in Evidence
    BY DEF UnknownEvidence, Evidence, UnknownReasons, None
  <2>. QED
    <3>1. CASE UNCHANGED evidence /\ pc' = [pc EXCEPT ![i] = "attempt"]
      BY <1>15, <3>1 DEF GetFails
    <3>2. CASE Record(i, UnknownEvidence("HTTP_TIMEOUT", attempt[i]))
      BY <1>15, <2>1, <3>2 DEF GetFails, Record
    <3>. QED
      BY <1>15, <3>1, <3>2 DEF GetFails
<1>16. ASSUME NEW i \in Positions, GetAnswers(i) PROVE TypeOK'
  BY <1>16 DEF GetAnswers
<1>17. ASSUME NEW i \in Positions, BodyFails(i) PROVE TypeOK'
  <2>1. UnknownEvidence("HTTP_BODY_READ_FAILED", attempt[i]) \in Evidence
    BY DEF UnknownEvidence, Evidence, UnknownReasons, None
  <2>. QED
    BY <1>17, <2>1 DEF BodyFails, Record
<1>18. ASSUME NEW i \in Positions, RetryStatus(i) PROVE TypeOK'
  BY <1>18 DEF RetryStatus
<1>19. ASSUME NEW i \in Positions, Conclude(i) PROVE TypeOK'
  <2>1. Profiled(i) \in Profile
    BY DEF Profiled
  <2>2. AnswerEvidence(Profiled(i), attempt[i]) \in Evidence
    BY <2>1, AnswerType
  <2>. QED
    BY <1>19, <2>2 DEF Conclude, Record
<1>20. ASSUME NEW i \in Positions, Release(i) PROVE TypeOK'
  BY <1>20 DEF Release
<1>21. ASSUME NEW i \in Positions, Signal(i) PROVE TypeOK'
  BY <1>21 DEF Signal
<1>22. CASE UNCHANGED vars
  BY <1>22 DEF vars
<1>. QED
  BY <1>1, <1>2, <1>3, <1>4, <1>5, <1>6, <1>7, <1>8, <1>9, <1>10, <1>11,
     <1>12, <1>13, <1>14, <1>15, <1>16, <1>17, <1>18, <1>19, <1>20, <1>21,
     <1>22
     DEF Next, Main, Goroutine, Returned

-----------------------------------------------------------------------------
(* The steps of a fetch, seen from the main goroutine *)

\* A fetch moves only its own control, never back to "idle", and its own slot
\* of the evidence slice, which it never resets; it ends only once.
FetchStep(i) ==
  /\ pc[i] \notin {"idle", "done"}
  /\ pc' = [pc EXCEPT ![i] = pc'[i]]
  /\ pc'[i] \in {"attempt", "get", "body", "release", "signal", "done"}
  /\ mode = "sequential" =>
       \/ pc'[i] \in {"attempt", "get", "body", "done"}
       \/ pc[i] \in {"queued", "release", "signal"}
  /\ pc'[i] = "attempt" =>
       \/ pc[i] = "queued" /\ attempt'[i] = attempt[i]
       \/ attempt'[i] < MaxAttempts
  /\ attempt' = [attempt EXCEPT ![i] = attempt'[i]]
  /\ UNCHANGED <<options, waveVars, mainVars>>

LEMMA GoroutineSteps ==
  ASSUME TypeOK, NEW i \in Positions, Goroutine(i)
  PROVE  FetchStep(i)
<1>. USE DEF TypeOK, options, waveVars, mainVars, meter, fetching, FetchStep
<1>1. CASE Acquire(i)
  BY <1>1 DEF Acquire
<1>2. CASE Reuse(i)
  BY <1>2 DEF Reuse, Record
<1>3. CASE Send(i)
  BY <1>3 DEF Send
<1>4. CASE GetFails(i)
  BY <1>4 DEF GetFails, Record, AttemptsLeft
<1>5. CASE GetAnswers(i)
  BY <1>5 DEF GetAnswers
<1>6. CASE BodyFails(i)
  BY <1>6 DEF BodyFails, Record
<1>7. CASE RetryStatus(i)
  BY <1>7 DEF RetryStatus, RetriesAnswer, AttemptsLeft
<1>8. CASE Conclude(i)
  BY <1>8 DEF Conclude, Record
<1>9. CASE Release(i)
  BY <1>9 DEF Release
<1>10. CASE Signal(i)
  BY <1>10 DEF Signal
<1>. QED
  BY <1>1, <1>2, <1>3, <1>4, <1>5, <1>6, <1>7, <1>8, <1>9, <1>10
     DEF Goroutine

LEMMA NextControlInv == TypeInv /\ [Next]_vars => ControlInv'
<1>. SUFFICES ASSUME TypeOK, ControlInv, [Next]_vars PROVE ControlInv'
  BY DEF TypeInv
<1>. USE DEF options, waveVars, mainVars, meter, fetching
<1>1. CASE RefuseOptions
  BY <1>1 DEF RefuseOptions, ControlInv
<1>2. CASE Start
  BY <1>2, PositionRange DEF Start, TypeOK, ControlInv
<1>3. CASE SequentialNext
  <2>1. /\ main' = "loop" /\ mode' = mode /\ mode = "sequential"
        /\ cursor \in Nat /\ cursor' = cursor + 1
        /\ cursor > 0 => pc[cursor] = "done"
        /\ pc' = [pc EXCEPT ![cursor'] = "attempt"]
    BY <1>3 DEF SequentialNext, TypeOK, ControlInv
  <2>2. /\ \A k \in Positions : k < cursor => pc[k] = "done"
        /\ \A k \in Positions : k > cursor => pc[k] = "idle"
    BY <1>3 DEF SequentialNext, ControlInv
  <2>3. ASSUME NEW k \in Positions
        PROVE  /\ k < cursor' => pc'[k] = "done"
               /\ k > cursor' => pc'[k] = "idle"
    <3>1. k \in Nat \ {0}
      BY PositionRange
    <3>2. CASE k = cursor'
      BY <2>1, <3>2
    <3>3. CASE k # cursor'
      <4>1. pc'[k] = pc[k]
        BY <2>1, <3>3 DEF TypeOK
      <4>. QED
        BY <2>1, <2>2, <3>1, <3>3, <4>1
    <3>. QED
      BY <3>2, <3>3
  <2>4. \A k \in Positions : pc'[k] \notin {"queued", "release", "signal"}
    BY <2>1 DEF TypeOK, ControlInv
  <2>. QED
    BY <2>1, <2>3, <2>4 DEF ControlInv
<1>4. CASE SequentialEnd
  <2>1. /\ main' = "done" /\ cursor = Len(Order) /\ pc[cursor] = "done"
        /\ UNCHANGED <<mode, pc>> /\ mode = "sequential"
    BY <1>4 DEF SequentialEnd, ControlInv
  <2>2. \A k \in Positions : k < cursor => pc[k] = "done"
    BY <1>4 DEF SequentialEnd, ControlInv
  <2>3. \A k \in Positions : k < cursor \/ k = cursor
    BY <2>1, PositionRange, LocksOfPositions
  <2>4. \A k \in Positions : pc[k] = "done"
    BY <2>1, <2>2, <2>3
  <2>. QED
    BY <2>1, <2>4 DEF ControlInv
<1>5. CASE AssignWave
  BY <1>5 DEF AssignWave, ControlInv
<1>6. CASE RefuseOrder
  BY <1>6 DEF RefuseOrder, ControlInv
<1>7. CASE BeginWaves
  BY <1>7 DEF BeginWaves, ControlInv
<1>8. ASSUME NEW i \in Positions, Spawn(i) PROVE ControlInv'
  BY <1>8 DEF Spawn, ControlInv
<1>9. CASE AwaitWave
  BY <1>9 DEF AwaitWave, ControlInv
<1>10. CASE NextWave
  BY <1>10 DEF NextWave, ControlInv
<1>11. CASE FinishWaves
  BY <1>11 DEF FinishWaves, ControlInv
<1>12. ASSUME NEW i \in Positions, Goroutine(i) PROVE ControlInv'
  <2>1. FetchStep(i)
    BY <1>12, GoroutineSteps
  <2>2. \A k \in Positions : k # i => pc'[k] = pc[k]
    BY <2>1 DEF FetchStep, TypeOK
  <2>3. /\ pc[i] \notin {"idle", "done"}
        /\ main \notin {"start", "build", "failed"}
        /\ mode = "sequential" => main # "done"
        /\ mode = "sequential" => pc'[i] \notin {"queued", "release", "signal"}
        /\ UNCHANGED <<main, mode, cursor>>
    BY <2>1 DEF FetchStep, ControlInv
  <2>4. main = "loop" => ~(i < cursor) /\ ~(i > cursor)
    BY <2>3 DEF ControlInv
  <2>. QED
    BY <2>2, <2>3, <2>4 DEF ControlInv
<1>13. CASE UNCHANGED vars
  BY <1>13 DEF vars, ControlInv
<1>. QED
  BY <1>1, <1>2, <1>3, <1>4, <1>5, <1>6, <1>7, <1>8, <1>9, <1>10, <1>11,
     <1>12, <1>13
     DEF Next, Main, Returned

LEMMA NextAttemptInv == TypeInv /\ [Next]_vars => AttemptInv'
<1>. SUFFICES ASSUME TypeInv, [Next]_vars PROVE AttemptInv'
  OBVIOUS
<1>. USE LocksOfPositions DEF TypeInv, AttemptInv
<1>. USE DEF options, waveVars, mainVars, meter, fetching
<1>1. CASE SequentialNext
  BY <1>1, PositionRange DEF SequentialNext, TypeOK, ControlInv
<1>2. ASSUME NEW i \in Positions, Spawn(i) PROVE AttemptInv'
  BY <1>2 DEF Spawn, TypeOK
<1>3. ASSUME NEW i \in Positions, Goroutine(i) PROVE AttemptInv'
  <2>1. FetchStep(i)
    BY <1>3, GoroutineSteps
  <2>. QED
    BY <2>1 DEF FetchStep, TypeOK
<1>4. CASE UNCHANGED <<pc, attempt>>
  BY <1>4
<1>. QED
  BY <1>1, <1>2, <1>3, <1>4
     DEF Next, Main, Returned, RefuseOptions, Start, SequentialEnd, AssignWave,
         RefuseOrder, BeginWaves, AwaitWave, NextWave, FinishWaves, vars

LEMMA TypeInvariant == Spec => []TypeInv
<1>1. TypeInv /\ [Next]_vars => TypeInv'
  BY NextTypeOK, NextControlInv, NextAttemptInv DEF TypeInv
<1>. QED
  BY InitTypeInv, <1>1, PTL DEF Spec

\* Every variable keeps its type; in particular no fetch sends more requests
\* than the retry policy allows.
THEOREM TypeCorrect == Spec => []TypeOK
<1>1. TypeInv => TypeOK
  BY DEF TypeInv
<1>. QED
  BY <1>1, TypeInvariant, PTL

-----------------------------------------------------------------------------
(* Counting: what the meter, the semaphore and the WaitGroup stand for *)

HoldingStates == {"attempt", "get", "body", "release"}
LiveStates    == HoldingStates \cup {"queued", "signal"}

Holding == At(pc, HoldingStates)
Live    == At(pc, LiveStates)

LEMMA PositionsFinite == IsFiniteSet(Positions)
BY LocksOfPositions, FS_Interval DEF Positions

\* Only the control of goroutine i changes, to v.
Moves(i, v) == pc' = [pc EXCEPT ![i] = v]

LEMMA PcDomain ==
  ASSUME TypeOK
  PROVE  /\ DOMAIN pc = Positions /\ IsFiniteSet(DOMAIN pc)
         /\ \A i, v : Moves(i, v) => DOMAIN pc' = Positions
BY PositionsFinite DEF TypeOK, Moves

LEMMA PcMove ==
  ASSUME TypeOK, NEW i \in Positions, NEW v, Moves(i, v)
  PROVE  /\ Cardinality(Outstanding')
              = Cardinality(Outstanding) + One(v = "get") - One(pc[i] = "get")
         /\ Cardinality(Holding') = Cardinality(Holding)
              + One(v \in HoldingStates) - One(pc[i] \in HoldingStates)
         /\ Cardinality(Live') = Cardinality(Live)
              + One(v \in LiveStates) - One(pc[i] \in LiveStates)
<1>1. \A S : Cardinality(At(pc', S))
               = Cardinality(At(pc, S)) + One(v \in S) - One(pc[i] \in S)
  <2>1. PICK T : pc \in [Positions -> T]
    BY DEF TypeOK
  <2>2. Moved(pc, pc', i, v)
    BY DEF Moves, Moved
  <2>3. ASSUME NEW S
        PROVE  Cardinality(At(pc', S))
                 = Cardinality(At(pc, S)) + One(v \in S) - One(pc[i] \in S)
    BY <2>1, <2>2, PositionsFinite, AtMove, SMTT(60)
  <2>. QED
    BY <2>3
<1>2. Outstanding = At(pc, {"get"}) /\ Outstanding' = At(pc', {"get"})
  BY DEF Outstanding, At, TypeOK, Moves
<1>3. Holding' = At(pc', HoldingStates) /\ Live' = At(pc', LiveStates)
  BY DEF Holding, Live, At
<1>4. /\ One(v \in {"get"}) = One(v = "get")
      /\ One(pc[i] \in {"get"}) = One(pc[i] = "get")
  BY DEF One
<1>. QED
  BY <1>1, <1>2, <1>3, <1>4 DEF Holding, Live

LEMMA CountTypes ==
  ASSUME TypeOK
  PROVE  /\ Cardinality(Outstanding) \in Nat
         /\ Cardinality(Holding) \in Nat
         /\ Cardinality(Live) \in Nat
         /\ Cardinality(Outstanding) <= Cardinality(Holding)
         /\ Cardinality(Holding) <= Cardinality(Live)
<1>1. Outstanding = At(pc, {"get"})
  BY DEF Outstanding, At, TypeOK
<1>2. IsFiniteSet(DOMAIN pc)
  BY PositionsFinite DEF TypeOK
<1>. QED
  BY <1>1, <1>2, AtFinite, AtMonotone DEF Holding, Live, HoldingStates, LiveStates

-----------------------------------------------------------------------------
(* The in-flight bound *)

\* The meter counts the requests outstanding; in the parallel mode the
\* semaphore counts the goroutines between its send and its receive and the
\* WaitGroup those that have not called Done.
CountInv ==
  /\ inflight = Cardinality(Outstanding)
  /\ mode = "bounded-parallel" =>
       /\ slots = Cardinality(Holding)
       /\ group = Cardinality(Live)
  /\ slots > 0 => slots <= concurrency

\* A run that goes beyond its guard has a legal concurrency, and the meter's
\* peak stays within what the mode allows.
PeakInv ==
  /\ main \notin {"start", "failed"} => concurrency \in 1..ConcurrencyBound
  /\ main \in {"start", "build", "failed"} => peak = 0
  /\ inflight <= peak
  /\ peak > 0 => peak <= Limit

BoundInv == TypeInv /\ CountInv /\ PeakInv

LEMMA InitBound == Init => CountInv /\ PeakInv
<1>. SUFFICES ASSUME Init PROVE CountInv /\ PeakInv
  OBVIOUS
<1>1. Outstanding = {} /\ Holding = {} /\ Live = {}
  BY DEF Init, Outstanding, Holding, Live, At, HoldingStates, LiveStates
<1>2. Cardinality(Outstanding) = 0 /\ Cardinality(Holding) = 0
      /\ Cardinality(Live) = 0
  BY <1>1, FS_EmptySet, Zenon
<1>. QED
  BY <1>2 DEF Init, CountInv, PeakInv

LEMMA NextCount == BoundInv /\ [Next]_vars => CountInv'
<1>. SUFFICES ASSUME TypeOK, ControlInv, CountInv, [Next]_vars PROVE CountInv'
  BY DEF BoundInv, TypeInv
<1>. USE CountTypes
<1>. USE DEF options, waveVars, mainVars, meter, fetching
<1>1. CASE UNCHANGED <<mode, concurrency, pc, inflight, slots, group>>
  BY <1>1 DEF CountInv, Outstanding, Holding, Live, At
<1>2. CASE NextWave
  <2>1. /\ group = 0 /\ slots' = 0 /\ mode = "bounded-parallel"
        /\ UNCHANGED <<mode, concurrency, pc, inflight, group>>
    BY <1>2 DEF NextWave, WaveOver, ControlInv
  <2>2. /\ Outstanding' = Outstanding /\ Holding' = Holding /\ Live' = Live
    BY <2>1 DEF Outstanding, Holding, Live, At
  <2>3. Cardinality(Holding) = 0
    BY <2>1 DEF CountInv
  <2>. QED
    BY <2>1, <2>2, <2>3 DEF CountInv
<1>3. CASE SequentialNext
  <2>1. /\ cursor + 1 \in Positions
        /\ Moves(cursor + 1, "attempt")
        /\ mode = "sequential"
        /\ pc[cursor + 1] = "idle"
        /\ UNCHANGED <<mode, concurrency, inflight, slots, group>>
    BY <1>3, PositionRange DEF SequentialNext, ControlInv, TypeOK, Moves
  <2>2. Cardinality(Outstanding') = Cardinality(Outstanding)
    BY <2>1, PcMove DEF One
  <2>. QED
    BY <2>1, <2>2 DEF CountInv
<1>4. ASSUME NEW i \in Positions, Spawn(i) PROVE CountInv'
  <2>1. /\ pc[i] = "idle" /\ Moves(i, "queued")
        /\ group' = group + 1
        /\ UNCHANGED <<mode, concurrency, inflight, slots>>
    BY <1>4 DEF Spawn, Moves
  <2>2. /\ Cardinality(Outstanding') = Cardinality(Outstanding)
        /\ Cardinality(Holding') = Cardinality(Holding)
        /\ Cardinality(Live') = Cardinality(Live) + 1
    BY <2>1, PcMove DEF One, HoldingStates, LiveStates
  <2>. QED
    BY <2>1, <2>2 DEF CountInv
<1>5. ASSUME NEW i \in Positions, Acquire(i) PROVE CountInv'
  <2>1. /\ pc[i] = "queued" /\ Moves(i, "attempt")
        /\ slots < concurrency /\ slots' = slots + 1
        /\ UNCHANGED <<mode, concurrency, inflight, group>>
    BY <1>5 DEF Acquire, SlotFree, Moves
  <2>2. /\ Cardinality(Outstanding') = Cardinality(Outstanding)
        /\ Cardinality(Holding') = Cardinality(Holding) + 1
        /\ Cardinality(Live') = Cardinality(Live)
    BY <2>1, PcMove DEF One, HoldingStates, LiveStates
  <2>. QED
    BY <2>1, <2>2, SourceAssumption DEF CountInv, TypeOK
<1>6. ASSUME NEW i \in Positions, Send(i) PROVE CountInv'
  <2>1. /\ pc[i] = "attempt" /\ Moves(i, "get")
        /\ inflight' = inflight + 1
        /\ UNCHANGED <<mode, concurrency, slots, group>>
    BY <1>6 DEF Send, Moves
  <2>2. /\ Cardinality(Outstanding') = Cardinality(Outstanding) + 1
        /\ Cardinality(Holding') = Cardinality(Holding)
        /\ Cardinality(Live') = Cardinality(Live)
    BY <2>1, PcMove DEF One, HoldingStates, LiveStates
  <2>. QED
    BY <2>1, <2>2 DEF CountInv
<1>7. ASSUME NEW i \in Positions, GetFails(i) \/ GetAnswers(i) PROVE CountInv'
  <2>1. /\ pc[i] = "get" /\ inflight' = inflight - 1
        /\ UNCHANGED <<mode, concurrency, slots, group>>
    BY <1>7 DEF GetFails, GetAnswers, Record, Moves
  <2>2. PICK v \in {"attempt", "body", "done", "release"} :
          /\ Moves(i, v)
          /\ mode = "bounded-parallel" => v # "done"
    BY <1>7 DEF GetFails, GetAnswers, Record, Moves
  <2>3. Cardinality(Outstanding') = Cardinality(Outstanding) - 1
    BY <2>1, <2>2, PcMove DEF One
  <2>4. mode = "bounded-parallel" =>
          /\ Cardinality(Holding') = Cardinality(Holding)
          /\ Cardinality(Live') = Cardinality(Live)
    BY <2>1, <2>2, PcMove DEF One, HoldingStates, LiveStates
  <2>. QED
    BY <2>1, <2>3, <2>4 DEF CountInv
<1>8. ASSUME NEW i \in Positions,
             Reuse(i) \/ BodyFails(i) \/ RetryStatus(i) \/ Conclude(i)
      PROVE  CountInv'
  <2>1. /\ pc[i] \in {"attempt", "body"}
        /\ UNCHANGED <<mode, concurrency, slots, group, inflight>>
    BY <1>8 DEF Reuse, BodyFails, RetryStatus, Conclude
  <2>2. PICK v \in {"attempt", "done", "release"} :
          /\ Moves(i, v)
          /\ mode = "bounded-parallel" => v # "done"
    BY <1>8 DEF Reuse, BodyFails, RetryStatus, Conclude, Record, Moves
  <2>3. Cardinality(Outstanding') = Cardinality(Outstanding)
    BY <2>1, <2>2, PcMove DEF One
  <2>4. mode = "bounded-parallel" =>
          /\ Cardinality(Holding') = Cardinality(Holding)
          /\ Cardinality(Live') = Cardinality(Live)
    BY <2>1, <2>2, PcMove DEF One, HoldingStates, LiveStates
  <2>. QED
    BY <2>1, <2>3, <2>4 DEF CountInv
<1>9. ASSUME NEW i \in Positions, Release(i) PROVE CountInv'
  <2>1. /\ pc[i] = "release" /\ Moves(i, "signal")
        /\ slots' = slots - 1
        /\ UNCHANGED <<mode, concurrency, inflight, group>>
    BY <1>9 DEF Release, Moves
  <2>2. /\ Cardinality(Outstanding') = Cardinality(Outstanding)
        /\ Cardinality(Holding') = Cardinality(Holding) - 1
        /\ Cardinality(Live') = Cardinality(Live)
    BY <2>1, PcMove DEF One, HoldingStates, LiveStates
  <2>. QED
    BY <2>1, <2>2, SourceAssumption DEF CountInv, TypeOK
<1>10. ASSUME NEW i \in Positions, Signal(i) PROVE CountInv'
  <2>1. /\ pc[i] = "signal" /\ Moves(i, "done")
        /\ group' = group - 1
        /\ UNCHANGED <<mode, concurrency, inflight, slots>>
    BY <1>10 DEF Signal, Moves
  <2>2. /\ Cardinality(Outstanding') = Cardinality(Outstanding)
        /\ Cardinality(Holding') = Cardinality(Holding)
        /\ Cardinality(Live') = Cardinality(Live) - 1
    BY <2>1, PcMove DEF One, HoldingStates, LiveStates
  <2>. QED
    BY <2>1, <2>2 DEF CountInv
<1>11. CASE \/ RefuseOptions \/ Start \/ SequentialEnd \/ AssignWave
            \/ RefuseOrder \/ BeginWaves \/ AwaitWave \/ FinishWaves
            \/ UNCHANGED vars
  BY <1>1, <1>11
     DEF RefuseOptions, Start, SequentialEnd, AssignWave, RefuseOrder,
         BeginWaves, AwaitWave, FinishWaves, vars
<1>. QED
  BY <1>2, <1>3, <1>4, <1>5, <1>6, <1>7, <1>8, <1>9, <1>10, <1>11
     DEF Next, Main, Goroutine, Returned

LEMMA NextPeak == BoundInv /\ [Next]_vars => PeakInv'
<1>. SUFFICES ASSUME TypeInv, CountInv, PeakInv, [Next]_vars PROVE PeakInv'
  BY DEF BoundInv
<1>. USE DEF options, waveVars, mainVars, meter, fetching
<1>1. CASE RefuseOptions \/ Start \/ SequentialNext \/ SequentialEnd
           \/ AssignWave \/ RefuseOrder \/ BeginWaves
  BY <1>1
     DEF RefuseOptions, Start, SequentialNext, SequentialEnd, AssignWave,
         RefuseOrder, BeginWaves, PeakInv, Limit
<1>2. CASE (\E i \in Positions : Spawn(i)) \/ AwaitWave \/ NextWave
           \/ FinishWaves \/ UNCHANGED vars
  BY <1>2
     DEF Spawn, AwaitWave, NextWave, FinishWaves, vars, PeakInv, Limit
<1>3. ASSUME NEW i \in Positions, Send(i) PROVE PeakInv'
  <2>1. /\ pc[i] = "attempt" /\ Moves(i, "get")
        /\ inflight' = inflight + 1
        /\ peak' = IF inflight + 1 > peak THEN inflight + 1 ELSE peak
        /\ UNCHANGED <<mode, concurrency, main, cursor>>
    BY <1>3 DEF Send, Moves
  <2>2. main \notin {"start", "build", "failed"}
    BY <2>1 DEF TypeInv, ControlInv
  <2>3. Limit' = Limit /\ Limit \in Int
    BY <2>1, SourceAssumption DEF Limit, TypeInv, TypeOK
  <2>4. inflight + 1 <= Limit
    <3>1. CASE mode = "sequential"
      <4>1. ASSUME NEW k \in Positions PROVE pc[k] # "get"
        <5>1. /\ main = "loop"
              /\ \A j \in Positions : j < cursor => pc[j] = "done"
              /\ \A j \in Positions : j > cursor => pc[j] = "idle"
              /\ cursor \in Nat
          BY <2>1, <2>2, <3>1 DEF TypeInv, TypeOK, ControlInv
        <5>2. i = cursor
          BY <2>1, <5>1, PositionRange
        <5>3. k \in Nat
          BY PositionRange
        <5>. QED
          BY <2>1, <5>1, <5>2, <5>3
      <4>2. Outstanding = {}
        BY <4>1 DEF Outstanding
      <4>3. Cardinality(Outstanding) = 0
        BY <4>2, FS_EmptySet, Zenon
      <4>. QED
        BY <3>1, <4>3 DEF CountInv, Limit
    <3>2. CASE mode = "bounded-parallel"
      <4>1. inflight = Cardinality(Outstanding) /\ slots = Cardinality(Holding)
        BY <3>2 DEF CountInv
      <4>2. Cardinality(Outstanding') = Cardinality(Outstanding) + 1
        BY <2>1, PcMove DEF One, TypeInv
      <4>3. Cardinality(Holding') = Cardinality(Holding)
        BY <2>1, PcMove, CountTypes DEF One, TypeInv, HoldingStates
      <4>4. Cardinality(Outstanding') <= Cardinality(Holding')
        <5>1. Outstanding' = At(pc', {"get"}) /\ Holding' = At(pc', HoldingStates)
          BY <2>1, PcDomain DEF Outstanding, Holding, At, TypeInv
        <5>2. IsFiniteSet(DOMAIN pc')
          BY <2>1, PcDomain, PositionsFinite DEF TypeInv
        <5>3. {"get"} \subseteq HoldingStates
          BY DEF HoldingStates
        <5>. QED
          BY <5>1, <5>2, <5>3, AtMonotone
      <4>5. Cardinality(Outstanding) \in Nat /\ Cardinality(Holding) \in Nat
        BY CountTypes DEF TypeInv
      <4>6. inflight + 1 <= slots
        BY <3>2, <4>1, <4>2, <4>3, <4>4, <4>5 DEF CountInv
      <4>. QED
        BY <3>2, <4>1, <4>5, <4>6, SourceAssumption
           DEF CountInv, Limit, TypeInv, TypeOK
    <3>. QED
      BY <3>1, <3>2 DEF TypeInv, TypeOK
  <2>. QED
    BY <2>1, <2>2, <2>3, <2>4 DEF PeakInv, TypeInv, TypeOK
<1>4. ASSUME NEW i \in Positions,
             \/ Acquire(i) \/ Reuse(i) \/ GetFails(i) \/ GetAnswers(i)
             \/ BodyFails(i) \/ RetryStatus(i) \/ Conclude(i)
             \/ Release(i) \/ Signal(i)
      PROVE  PeakInv'
  <2>1. /\ UNCHANGED <<mode, concurrency, main, peak>>
        /\ inflight' = inflight \/ inflight' = inflight - 1
    BY <1>4
       DEF Acquire, Reuse, GetFails, GetAnswers, BodyFails, RetryStatus,
           Conclude, Release, Signal, Record
  <2>. QED
    BY <2>1 DEF PeakInv, Limit, TypeInv, TypeOK
<1>. QED
  BY <1>1, <1>2, <1>3, <1>4 DEF Next, Main, Goroutine, Returned

LEMMA BoundInvariant == Spec => []BoundInv
<1>1. Init => BoundInv
  BY InitTypeInv, InitBound DEF BoundInv
<1>2. BoundInv /\ [Next]_vars => BoundInv'
  BY NextTypeOK, NextControlInv, NextAttemptInv, NextCount, NextPeak
     DEF BoundInv, TypeInv
<1>. QED
  BY <1>1, <1>2, PTL DEF Spec

\* README.md: "at most eight in-flight local HTTP requests", for every bound,
\* graph, fixture and retry policy: the requests outstanding never exceed the
\* reported peak, and the peak never exceeds what the mode allows.
THEOREM InFlightCorrect == Spec => []InFlightBounded
<1>1. BoundInv => InFlightBounded
  <2>. SUFFICES ASSUME BoundInv PROVE InFlightBounded
    OBVIOUS
  <2>1. Cardinality(Outstanding) <= peak
    BY DEF BoundInv, CountInv, PeakInv
  <2>2. peak > 0 => Limit <= ConcurrencyBound
    BY SourceAssumption DEF BoundInv, PeakInv, Limit
  <2>. QED
    BY <2>1, <2>2 DEF BoundInv, PeakInv, InFlightBounded
<1>. QED
  BY <1>1, BoundInvariant, PTL

-----------------------------------------------------------------------------
(* Dependencies first, all or nothing *)

\* A slot is written exactly when its fetch leaves the loop.
RecordInv ==
  \A i \in Positions :
    /\ pc[i] = "idle" => attempt[i] = 0 /\ evidence[i] = ZeroEvidence
    /\ pc[i] \in {"release", "signal", "done"} => evidence[i] # ZeroEvidence

\* buildWaves numbers every lock above the locks it depends on.
BuildInv ==
  /\ main = "start" => \A l \in Locks : waveByID[l] = NoWave
  /\ main = "build" =>
       \A i \in Positions : waveByID[Order[i]] # NoWave <=> i <= cursor
  /\ main \in {"spawn", "wait"} => \A l \in Locks : waveByID[l] # NoWave
  /\ \A l \in Locks :
       waveByID[l] # NoWave =>
         /\ waveByID[l] <= maxWave
         /\ \A d \in deps[l] :
              waveByID[d] # NoWave /\ waveByID[d] < waveByID[l]

\* Lower waves are over, higher ones have not begun.
WaveInv ==
  /\ mode = "sequential" => group = 0 /\ slots = 0
  /\ main \in {"start", "build"} => wave = 0
  /\ main \in {"spawn", "wait"} =>
       /\ \A i \in Positions : waveByID[Order[i]] < wave => pc[i] = "done"
       /\ \A i \in Positions : waveByID[Order[i]] > wave => pc[i] = "idle"
  /\ main = "wait" =>
       \A i \in Positions : waveByID[Order[i]] = wave => pc[i] # "idle"
  /\ main = "done" => \A i \in Positions : pc[i] = "done"

RunInv == BoundInv /\ RecordInv /\ BuildInv /\ WaveInv

\* A fetch writes its own slot, and only as it leaves its loop.
RecordStep(i) ==
  \/ /\ UNCHANGED evidence
     /\ \/ pc'[i] \in {"attempt", "get", "body"}
        \/ pc[i] = "release" /\ pc'[i] = "signal"
        \/ pc[i] = "signal" /\ pc'[i] = "done"
  \/ \E e \in Evidence : evidence' = [evidence EXCEPT ![i] = e]

LEMMA RecordSteps ==
  ASSUME TypeOK, NEW i \in Positions, Goroutine(i)
  PROVE  RecordStep(i)
<1>1. \A n \in 0..MaxAttempts :
        /\ UnknownEvidence("HTTP_TIMEOUT", n) \in Evidence
        /\ UnknownEvidence("HTTP_BODY_READ_FAILED", n) \in Evidence
  BY DEF UnknownEvidence, Evidence, UnknownReasons, None
<1>2. ReusedEvidence \in Evidence
  BY RetryAssumption DEF ReusedEvidence, Evidence, None
<1>3. attempt[i] \in 0..MaxAttempts /\ Profiled(i) \in Profile
  BY LocksOfPositions, SourceAssumption DEF TypeOK, Profiled
<1>4. AnswerEvidence(Profiled(i), attempt[i]) \in Evidence
  BY <1>3, AnswerType
<1>5. ASSUME NEW e \in Evidence, Record(i, e) PROVE RecordStep(i)
  BY <1>5, SlotIsPosition DEF Record, RecordStep
<1>6. CASE \/ Acquire(i) \/ Send(i) \/ GetAnswers(i) \/ RetryStatus(i)
           \/ Release(i) \/ Signal(i)
  BY <1>6
     DEF TypeOK, Acquire, Send, GetAnswers, RetryStatus, Release, Signal,
         RecordStep
<1>7. CASE GetFails(i)
  BY <1>1, <1>3, <1>5, <1>7 DEF TypeOK, GetFails, RecordStep
<1>8. CASE Reuse(i)
  BY <1>2, <1>5, <1>8 DEF Reuse
<1>9. CASE BodyFails(i)
  BY <1>1, <1>3, <1>5, <1>9 DEF BodyFails
<1>10. CASE Conclude(i)
  BY <1>4, <1>5, <1>10 DEF Conclude
<1>. QED
  BY <1>6, <1>7, <1>8, <1>9, <1>10 DEF Goroutine

LEMMA InitRun == Init => RecordInv /\ BuildInv /\ WaveInv
<1>. SUFFICES ASSUME Init PROVE RecordInv /\ BuildInv /\ WaveInv
  OBVIOUS
<1>1. RecordInv
  BY DEF Init, RecordInv
<1>2. BuildInv
  BY LocksOfPositions DEF Init, BuildInv
<1>3. WaveInv
  BY DEF Init, WaveInv
<1>. QED
  BY <1>1, <1>2, <1>3

LEMMA NextRecord == RunInv /\ [Next]_vars => RecordInv'
<1>. SUFFICES ASSUME TypeInv, RecordInv, [Next]_vars PROVE RecordInv'
  BY DEF RunInv, BoundInv
<1>. USE DEF options, waveVars, mainVars, meter, fetching
<1>1. CASE SequentialNext
  BY <1>1 DEF SequentialNext, RecordInv, TypeInv, TypeOK
<1>2. ASSUME NEW i \in Positions, Spawn(i) PROVE RecordInv'
  BY <1>2 DEF Spawn, RecordInv, TypeInv, TypeOK
<1>3. ASSUME NEW i \in Positions, Goroutine(i) PROVE RecordInv'
  <2>1. FetchStep(i) /\ RecordStep(i)
    BY <1>3, GoroutineSteps, RecordSteps DEF TypeInv
  <2>2. ASSUME NEW k \in Positions, k # i
        PROVE  pc'[k] = pc[k] /\ attempt'[k] = attempt[k]
               /\ evidence'[k] = evidence[k]
    BY <2>1, <2>2 DEF FetchStep, RecordStep, TypeInv, TypeOK
  <2>3. pc'[i] # "idle"
    BY <2>1 DEF FetchStep
  <2>4. pc'[i] \in {"release", "signal", "done"} => evidence'[i] # ZeroEvidence
    <3>1. CASE UNCHANGED evidence
      BY <2>1, <3>1, EvidenceNotZero
         DEF RecordStep, RecordInv, TypeInv, TypeOK
    <3>2. ASSUME NEW e \in Evidence, evidence' = [evidence EXCEPT ![i] = e]
          PROVE  evidence'[i] # ZeroEvidence
      BY <3>2, EvidenceNotZero DEF TypeInv, TypeOK
    <3>. QED
      BY <2>1, <3>1, <3>2 DEF RecordStep
  <2>. QED
    BY <2>2, <2>3, <2>4 DEF RecordInv
<1>4. CASE UNCHANGED <<pc, attempt, evidence>>
  BY <1>4 DEF RecordInv
<1>. QED
  BY <1>1, <1>2, <1>3, <1>4
     DEF Next, Main, Returned, RefuseOptions, Start, SequentialEnd, AssignWave,
         RefuseOrder, BeginWaves, AwaitWave, NextWave, FinishWaves, vars

LEMMA NextBuild == RunInv /\ [Next]_vars => BuildInv'
<1>. SUFFICES ASSUME TypeInv, BuildInv, [Next]_vars PROVE BuildInv'
  BY DEF RunInv, BoundInv
<1>. USE DEF options, waveVars, mainVars, meter, fetching
<1>1. CASE RefuseOptions \/ SequentialNext \/ SequentialEnd \/ RefuseOrder
           \/ AwaitWave \/ NextWave \/ FinishWaves \/ UNCHANGED vars
  BY <1>1
     DEF RefuseOptions, SequentialNext, SequentialEnd, RefuseOrder, AwaitWave,
         NextWave, FinishWaves, vars, BuildInv
<1>2. CASE Start
  <2>1. /\ main = "start" /\ main' \in {"loop", "build"} /\ cursor = 0
        /\ UNCHANGED <<cursor, waveByID, maxWave, deps>>
    BY <1>2 DEF Start, TypeInv, ControlInv
  <2>2. \A i \in Positions : waveByID[Order[i]] = NoWave /\ ~(i <= cursor)
    BY <2>1, LocksOfPositions, PositionRange DEF BuildInv
  <2>. QED
    BY <2>1, <2>2 DEF BuildInv
<1>3. CASE BeginWaves
  <2>1. /\ main = "build" /\ main' = "spawn" /\ cursor = Len(Order)
        /\ UNCHANGED <<waveByID, maxWave, deps>>
    BY <1>3 DEF BeginWaves
  <2>2. \A i \in Positions : waveByID[Order[i]] # NoWave
    BY <2>1, PositionRange DEF BuildInv
  <2>3. \A l \in Locks : waveByID[l] # NoWave
    BY <2>2, LocksOfPositions
  <2>. QED
    BY <2>1, <2>3 DEF BuildInv
<1>4. CASE AssignWave
  <2>. DEFINE id == Order[cursor + 1]
  <2>1. /\ main = "build" /\ main' = "build" /\ deps' = deps
        /\ cursor' = cursor + 1 /\ cursor < Len(Order)
        /\ cursor \in Nat
        /\ \A d \in deps[id] : waveByID[d] # NoWave
    BY <1>4 DEF AssignWave, TypeInv, TypeOK
  <2>2. PICK w \in 0..Len(Order) :
          /\ IsWaveOf(w, id)
          /\ waveByID' = [waveByID EXCEPT ![id] = w]
          /\ maxWave' = IF w > maxWave THEN w ELSE maxWave
    BY <1>4 DEF AssignWave
  <2>3. cursor + 1 \in Positions /\ id \in Locks
    BY <2>1, PositionRange, LocksOfPositions
  <2>4. waveByID[id] = NoWave
    BY <2>1, <2>3 DEF BuildInv
  <2>5. /\ waveByID \in [Locks -> Nat \cup {NoWave}]
        /\ maxWave \in Nat /\ maxWave' \in Nat
        /\ maxWave <= maxWave' /\ w <= maxWave' /\ w # NoWave /\ w \in Nat
        /\ \A l \in Locks : deps[l] \subseteq Locks
    BY <2>2, LocksOfPositions, SourceAssumption DEF TypeInv, TypeOK, NoWave
  <2>6. \A l \in Locks : waveByID'[l] = IF l = id THEN w ELSE waveByID[l]
    BY <2>2, <2>5
  <2>7. ASSUME NEW i \in Positions
        PROVE  waveByID'[Order[i]] # NoWave <=> i <= cursor'
    <3>1. CASE i = cursor + 1
      BY <2>1, <2>3, <2>5, <2>6, <3>1
    <3>2. CASE i # cursor + 1
      <4>1. Order[i] \in Locks /\ Order[i] # id
        <5>1. IndexOf(Order[i]) = i /\ IndexOf(id) = cursor + 1
          BY <2>3, IndexOfPosition
        <5>. QED
          BY <3>2, <5>1, LocksOfPositions
      <4>2. i <= cursor' <=> i <= cursor
        BY <2>1, <3>2, PositionRange
      <4>. QED
        BY <2>1, <2>6, <4>1, <4>2 DEF BuildInv
    <3>. QED
      BY <3>1, <3>2
  <2>8. ASSUME NEW l \in Locks, waveByID'[l] # NoWave
        PROVE  /\ waveByID'[l] <= maxWave'
               /\ \A d \in deps[l] :
                    waveByID'[d] # NoWave /\ waveByID'[d] < waveByID'[l]
    <3>1. CASE l = id
      <4>1. \A d \in deps[id] : /\ d # id /\ d \in Locks
                                /\ waveByID[d] \in Nat
                                /\ waveByID[d] + 1 <= w
        BY <2>1, <2>2, <2>3, <2>4, <2>5 DEF IsWaveOf
      <4>. QED
        BY <2>3, <2>5, <2>6, <3>1, <4>1 DEF NoWave
    <3>2. CASE l # id
      <4>1. /\ waveByID[l] # NoWave /\ waveByID'[l] = waveByID[l]
            /\ waveByID[l] \in Nat
        BY <2>5, <2>6, <2>8, <3>2
      <4>2. waveByID[l] <= maxWave
        BY <4>1 DEF BuildInv
      <4>3. ASSUME NEW d \in deps[l]
            PROVE  /\ d \in Locks /\ d # id
                   /\ waveByID[d] # NoWave /\ waveByID[d] < waveByID[l]
        BY <2>4, <2>5, <4>1 DEF BuildInv
      <4>. QED
        BY <2>5, <2>6, <4>1, <4>2, <4>3
    <3>. QED
      BY <3>1, <3>2
  <2>. HIDE DEF id
  <2>. QED
    BY <2>1, <2>7, <2>8 DEF BuildInv
<1>5. ASSUME NEW i \in Positions, Spawn(i) PROVE BuildInv'
  BY <1>5 DEF Spawn, BuildInv
<1>6. ASSUME NEW i \in Positions, Goroutine(i) PROVE BuildInv'
  <2>1. FetchStep(i)
    BY <1>6, GoroutineSteps DEF TypeInv
  <2>. QED
    BY <2>1 DEF FetchStep, BuildInv
<1>. QED
  BY <1>1, <1>2, <1>3, <1>4, <1>5, <1>6 DEF Next, Main, Returned

\* When Wait returns, every goroutine is idle or done.
LEMMA Settled ==
  ASSUME TypeOK, CountInv, mode = "bounded-parallel", group = 0,
         NEW i \in Positions
  PROVE  pc[i] \in {"idle", "done"}
<1>1. Cardinality(Live) = 0 /\ IsFiniteSet(Live)
  BY AtFinite, PcDomain DEF CountInv, Live
<1>2. Live = {}
  BY <1>1, FS_EmptySet
<1>3. pc[i] \notin LiveStates
  BY <1>2, PcDomain DEF Live, At
<1>. QED
  BY <1>3 DEF LiveStates, HoldingStates, TypeOK

LEMMA NextWaveInv == RunInv /\ [Next]_vars => WaveInv'
<1>. SUFFICES ASSUME TypeOK, AttemptInv, ControlInv, CountInv, BuildInv,
                     WaveInv, [Next]_vars
              PROVE  WaveInv'
  BY DEF RunInv, BoundInv, TypeInv
<1>. USE DEF options, waveVars, mainVars, meter, fetching
<1>1. /\ \A i \in Positions : waveByID[Order[i]] \in Nat \cup {NoWave}
      /\ wave \in Nat /\ maxWave \in Nat
  BY LocksOfPositions DEF TypeOK
<1>2. CASE RefuseOptions \/ Start \/ AssignWave \/ RefuseOrder \/ UNCHANGED vars
  BY <1>2 DEF RefuseOptions, Start, AssignWave, RefuseOrder, vars, WaveInv
<1>3. CASE SequentialNext
  BY <1>3 DEF SequentialNext, WaveInv, ControlInv
<1>4. CASE SequentialEnd
  <2>1. main' = "done" /\ mode' = "sequential" /\ UNCHANGED <<pc, group, slots>>
    BY <1>4 DEF SequentialEnd, ControlInv
  <2>2. ControlInv'
    BY NextControlInv DEF TypeInv
  <2>. QED
    BY <1>4, <2>1, <2>2 DEF SequentialEnd, WaveInv, ControlInv
<1>5. CASE BeginWaves
  <2>1. /\ main = "build" /\ main' = "spawn" /\ wave = 0
        /\ UNCHANGED <<mode, wave, waveByID, pc>> /\ mode = "bounded-parallel"
    BY <1>5 DEF BeginWaves, WaveInv, ControlInv
  <2>2. \A i \in Positions : waveByID[Order[i]] # NoWave
    BY <1>5, PositionRange DEF BeginWaves, BuildInv
  <2>3. \A i \in Positions : ~(waveByID[Order[i]] < wave) /\ pc[i] = "idle"
    BY <1>1, <2>1, <2>2 DEF ControlInv
  <2>. QED
    BY <2>1, <2>3 DEF WaveInv
<1>6. ASSUME NEW i \in Positions, Spawn(i) PROVE WaveInv'
  <2>1. /\ main = "spawn" /\ mode = "bounded-parallel"
        /\ waveByID[Order[i]] = wave
        /\ UNCHANGED <<main, mode, wave, waveByID>>
        /\ \A k \in Positions : k # i => pc'[k] = pc[k]
    BY <1>6 DEF Spawn, WavePositions, ControlInv, TypeOK
  <2>2. \A k \in Positions :
          waveByID[Order[k]] < wave \/ waveByID[Order[k]] > wave => k # i
    BY <1>1, <2>1
  <2>. QED
    BY <2>1, <2>2 DEF WaveInv
<1>7. CASE AwaitWave
  BY <1>7 DEF AwaitWave, WavePositions, WaveInv, ControlInv
<1>8. CASE NextWave
  <2>1. /\ main = "wait" /\ main' = "spawn" /\ wave' = wave + 1
        /\ mode = "bounded-parallel" /\ group = 0
        /\ UNCHANGED <<mode, waveByID, pc>>
    BY <1>8 DEF NextWave, WaveOver, ControlInv
  <2>2. ASSUME NEW i \in Positions
        PROVE  /\ waveByID[Order[i]] < wave' => pc[i] = "done"
               /\ waveByID[Order[i]] > wave' => pc[i] = "idle"
    <3>1. waveByID[Order[i]] \in Nat
      BY <1>1, <2>1, LocksOfPositions DEF BuildInv
    <3>2. CASE waveByID[Order[i]] < wave
      BY <1>1, <2>1, <3>1, <3>2 DEF WaveInv
    <3>3. CASE waveByID[Order[i]] = wave
      BY <1>1, <2>1, <3>1, <3>3, Settled DEF WaveInv
    <3>4. CASE waveByID[Order[i]] > wave
      BY <1>1, <2>1, <3>1, <3>4 DEF WaveInv
    <3>. QED
      BY <1>1, <3>1, <3>2, <3>3, <3>4
  <2>. QED
    BY <2>1, <2>2 DEF WaveInv
<1>9. CASE FinishWaves
  <2>1. /\ main = "wait" /\ main' = "done" /\ wave = maxWave
        /\ mode = "bounded-parallel" /\ group = 0
        /\ UNCHANGED <<mode, pc>>
    BY <1>9 DEF FinishWaves, WaveOver, ControlInv
  <2>2. ASSUME NEW i \in Positions PROVE pc[i] = "done"
    <3>1. waveByID[Order[i]] \in Nat /\ waveByID[Order[i]] <= maxWave
      BY <1>1, <2>1, LocksOfPositions DEF BuildInv
    <3>2. CASE waveByID[Order[i]] < wave
      BY <2>1, <3>2 DEF WaveInv
    <3>3. CASE waveByID[Order[i]] = wave
      BY <2>1, <3>3, Settled DEF WaveInv
    <3>. QED
      BY <1>1, <2>1, <3>1, <3>2, <3>3
  <2>. QED
    BY <2>1, <2>2 DEF WaveInv
<1>10. ASSUME NEW i \in Positions, Goroutine(i) PROVE WaveInv'
  <2>1. FetchStep(i)
    BY <1>10, GoroutineSteps
  <2>2. /\ pc[i] \notin {"idle", "done"} /\ pc'[i] # "idle"
        /\ \A k \in Positions : k # i => pc'[k] = pc[k]
        /\ UNCHANGED <<mode, main, wave, waveByID>>
    BY <2>1 DEF FetchStep, TypeOK
  <2>3. mode = "sequential" => UNCHANGED <<group, slots>>
    <3>1. mode = "sequential" => pc[i] \notin {"queued", "release", "signal"}
      BY DEF ControlInv
    <3>. QED
      BY <1>10, <3>1
         DEF Goroutine, Acquire, Reuse, Send, GetFails, GetAnswers, BodyFails,
             RetryStatus, Conclude, Release, Signal
  <2>. QED
    BY <2>2, <2>3 DEF WaveInv
<1>. QED
  BY <1>2, <1>3, <1>4, <1>5, <1>6, <1>7, <1>8, <1>9, <1>10
     DEF Next, Main, Returned

LEMMA RunInvariant == Spec => []RunInv
<1>1. Init => RunInv
  BY InitTypeInv, InitBound, InitRun DEF RunInv, BoundInv
<1>2. RunInv /\ [Next]_vars => RunInv'
  BY NextTypeOK, NextControlInv, NextAttemptInv, NextCount, NextPeak,
     NextRecord, NextBuild, NextWaveInv
     DEF RunInv, BoundInv, TypeInv
<1>. QED
  BY <1>1, <1>2, PTL DEF Spec

LEMMA BarrierHolds == RunInv => DependenciesFirst
<1>. SUFFICES ASSUME RunInv, mode = "bounded-parallel",
                     NEW i \in Positions, pc[i] # "idle",
                     NEW d \in deps[Order[i]]
              PROVE  Recorded(d)
  BY DEF DependenciesFirst
<1>. USE DEF RunInv, BoundInv, TypeInv
<1>1. Order[i] \in Locks /\ d \in Locks
  BY LocksOfPositions, SourceAssumption DEF TypeOK
<1>2. PICK k \in Positions : Order[k] = d
  BY <1>1, LocksOfPositions
<1>3. pc[k] = "done"
  <2>1. main \in {"spawn", "wait", "done"}
    BY DEF TypeOK, ControlInv
  <2>2. CASE main = "done"
    BY <2>2 DEF WaveInv
  <2>3. CASE main \in {"spawn", "wait"}
    <3>1. /\ waveByID[Order[i]] \in Nat /\ waveByID[d] \in Nat
          /\ wave \in Nat /\ waveByID[d] < waveByID[Order[i]]
      BY <1>1, <2>3 DEF BuildInv, TypeOK
    <3>2. ~(waveByID[Order[i]] > wave)
      BY <2>3 DEF WaveInv
    <3>. QED
      BY <1>2, <2>3, <3>1, <3>2 DEF WaveInv
  <2>. QED
    BY <2>1, <2>2, <2>3
<1>. QED
  BY <1>2, <1>3 DEF Recorded, RecordInv

\* The wave barrier, for every graph and order: a goroutine runs only after the
\* evidence of every lock its own lock depends on has been recorded.
THEOREM BarrierCorrect == Spec => []DependenciesFirst
BY BarrierHolds, RunInvariant, PTL

\* run hands out either a complete slice with nothing left running, or an error
\* with nothing sent and nothing written.
THEOREM ReturnCorrect == Spec => []AllOrNothing
<1>1. RunInv => AllOrNothing
  <2>. SUFFICES ASSUME RunInv PROVE AllOrNothing
    OBVIOUS
  <2>. USE DEF RunInv, BoundInv, TypeInv
  <2>1. ASSUME main = "done"
        PROVE  /\ \A i \in Positions : pc[i] = "done" /\ evidence[i] # ZeroEvidence
               /\ group = 0 /\ slots = 0 /\ inflight = 0
    <3>1. \A i \in Positions : pc[i] = "done"
      BY <2>1 DEF WaveInv
    <3>2. Outstanding = {} /\ Holding = {} /\ Live = {}
      BY <3>1, PcDomain
         DEF Outstanding, Holding, Live, At, HoldingStates, LiveStates
    <3>3. /\ Cardinality(Outstanding) = 0 /\ Cardinality(Holding) = 0
          /\ Cardinality(Live) = 0
      BY <3>2, FS_EmptySet, Zenon
    <3>4. group = 0 /\ slots = 0 /\ inflight = 0
      BY <3>3 DEF CountInv, WaveInv, TypeOK
    <3>. QED
      BY <3>1, <3>4 DEF RecordInv
  <2>2. ASSUME main = "failed"
        PROVE  \A i \in Positions : attempt[i] = 0 /\ evidence[i] = ZeroEvidence
    BY <2>2 DEF ControlInv, RecordInv
  <2>. QED
    BY <2>1, <2>2 DEF AllOrNothing
<1>. QED
  BY <1>1, RunInvariant, PTL

-----------------------------------------------------------------------------
(* What the attempts of a fetch say about its profile *)

\* A fetch under way has written nothing; it has made as many attempts as its
\* profile allows.  What a fetch has written, its profile accounts for.
FetchInv(i) ==
  /\ pc[i] \in {"idle", "queued", "attempt", "get", "body"} =>
       evidence[i] = ZeroEvidence
  /\ pc[i] = "queued" => attempt[i] = 0
  /\ pc[i] = "attempt" => attempt[i] = 0 \/ MayRetry(Profiled(i))
  /\ pc[i] \in {"get", "body"} =>
       /\ Profiled(i).behavior # "reused"
       /\ attempt[i] = 1 \/ (attempt[i] > 1 /\ MayRetry(Profiled(i)))
  /\ pc[i] = "body" => CanAnswer(Profiled(i))
  /\ evidence[i] # ZeroEvidence => evidence[i] \in Admissible(Profiled(i))

EntryInv == \A i \in Positions : FetchInv(i)

\* A fetch under way ends, with evidence its profile accounts for.
Ends(i) ==
  \E e \in Admissible(Profiled(i)) :
    Record(i, e) /\ pc[i] \in {"attempt", "get", "body"}

LEMMA FetchEnds ==
  ASSUME TypeOK, NEW i \in Positions, FetchInv(i),
         \/ Reuse(i) \/ BodyFails(i) \/ Conclude(i)
         \/ GetFails(i) /\ ~AttemptsLeft(i)
  PROVE  Ends(i)
<1>1. attempt[i] \in 0..MaxAttempts /\ MaxAttempts \in Nat
  BY RetryAssumption DEF TypeOK
<1>2. CASE Reuse(i)
  BY <1>2, ReusedAdmissible DEF Reuse, Ends
<1>3. CASE BodyFails(i)
  BY <1>1, <1>3, BodyReadAdmissible DEF BodyFails, FetchInv, Ends
<1>4. CASE Conclude(i)
  <2>1. /\ ReplyStatus(Profiled(i)) = 200
           \/ ~IsRetryable(ReplyStatus(Profiled(i)))
           \/ attempt[i] = MaxAttempts
        /\ attempt[i] \in 1..MaxAttempts
        /\ attempt[i] = 1 \/ MayRetry(Profiled(i))
        /\ CanAnswer(Profiled(i)) /\ Profiled(i).behavior # "reused"
    BY <1>1, <1>4 DEF Conclude, RetriesAnswer, AttemptsLeft, FetchInv
  <2>2. AnswerEvidence(Profiled(i), attempt[i]) \in Admissible(Profiled(i))
    BY <2>1, AnswerAdmissible
  <2>. QED
    BY <1>4, <2>2 DEF Conclude, Ends
<1>5. CASE GetFails(i) /\ ~AttemptsLeft(i)
  <2>1. attempt[i] = MaxAttempts
    BY <1>1, <1>5 DEF AttemptsLeft
  <2>. QED
    BY <1>5, <2>1, TimeoutAdmissible DEF GetFails, FetchInv, Ends
<1>. QED
  BY <1>2, <1>3, <1>4, <1>5

LEMMA InitEntry == Init => EntryInv
<1>. SUFFICES ASSUME Init, NEW i \in Positions PROVE FetchInv(i)
  BY DEF EntryInv
<1>. QED
  BY DEF Init, FetchInv

LEMMA NextEntry == RunInv /\ EntryInv /\ [Next]_vars => EntryInv'
<1>. SUFFICES ASSUME TypeOK, ControlInv, RecordInv, EntryInv, [Next]_vars
              PROVE  EntryInv'
  BY DEF RunInv, BoundInv, TypeInv
<1>. USE DEF options, waveVars, mainVars, meter, fetching
<1>0. fixture' = fixture
  BY DEF Next, Main, Goroutine, Returned, vars, RefuseOptions, Start,
         SequentialNext, SequentialEnd, AssignWave, RefuseOrder, BeginWaves,
         Spawn, AwaitWave, NextWave, FinishWaves, Acquire, Reuse, Send,
         GetFails, GetAnswers, BodyFails, RetryStatus, Conclude, Release,
         Signal
<1>. \A k : Profiled(k)' = Profiled(k)
  BY <1>0 DEF Profiled
<1>1. CASE UNCHANGED <<pc, attempt, evidence>>
  BY <1>1 DEF EntryInv, FetchInv
<1>2. CASE SequentialNext
  <2>1. /\ cursor + 1 \in Positions /\ pc[cursor + 1] = "idle"
        /\ pc' = [pc EXCEPT ![cursor + 1] = "attempt"]
        /\ UNCHANGED <<attempt, evidence>>
    BY <1>2, PositionRange DEF SequentialNext, ControlInv, TypeOK
  <2>2. attempt[cursor + 1] = 0 /\ evidence[cursor + 1] = ZeroEvidence
    BY <2>1 DEF RecordInv
  <2>. QED
    BY <2>1, <2>2 DEF EntryInv, FetchInv, TypeOK
<1>3. ASSUME NEW i \in Positions, Spawn(i) PROVE EntryInv'
  <2>1. /\ pc[i] = "idle" /\ pc' = [pc EXCEPT ![i] = "queued"]
        /\ UNCHANGED <<attempt, evidence>>
    BY <1>3 DEF Spawn
  <2>2. attempt[i] = 0 /\ evidence[i] = ZeroEvidence
    BY <2>1 DEF RecordInv
  <2>. QED
    BY <2>1, <2>2 DEF EntryInv, FetchInv, TypeOK
<1>4. ASSUME NEW i \in Positions, Goroutine(i) PROVE EntryInv'
  <2>1. FetchStep(i) /\ RecordStep(i) /\ FetchInv(i)
    BY <1>4, GoroutineSteps, RecordSteps DEF EntryInv
  <2>2. ASSUME NEW k \in Positions, k # i PROVE FetchInv(k)'
    <3>1. pc'[k] = pc[k] /\ attempt'[k] = attempt[k] /\ evidence'[k] = evidence[k]
      BY <2>1, <2>2 DEF FetchStep, RecordStep, TypeOK
    <3>. QED
      BY <3>1 DEF EntryInv, FetchInv
  <2>3. FetchInv(i)'
    <3>1. CASE Ends(i)
      <4>1. PICK e \in Admissible(Profiled(i)) : Record(i, e)
        BY <3>1 DEF Ends
      <4>2. /\ evidence'[i] \in Admissible(Profiled(i))
            /\ pc'[i] \in {"done", "release"}
        BY <4>1, SlotIsPosition DEF Record, TypeOK
      <4>. QED
        BY <4>2 DEF FetchInv
    <3>2. CASE Acquire(i)
      BY <2>1, <3>2 DEF Acquire, FetchInv, TypeOK
    <3>3. CASE Send(i)
      BY <2>1, <3>3 DEF Send, FetchInv, TypeOK
    <3>4. CASE GetFails(i) /\ AttemptsLeft(i)
      BY <2>1, <3>4 DEF GetFails, FetchInv, MayRetry, TypeOK
    <3>5. CASE GetAnswers(i)
      BY <2>1, <3>5 DEF GetAnswers, FetchInv, TypeOK
    <3>6. CASE RetryStatus(i)
      BY <2>1, <3>6 DEF RetryStatus, RetriesAnswer, FetchInv, MayRetry, TypeOK
    <3>7. CASE Release(i) \/ Signal(i)
      BY <2>1, <3>7 DEF Release, Signal, FetchInv, TypeOK
    <3>. QED
      BY <1>4, <2>1, FetchEnds, <3>1, <3>2, <3>3, <3>4, <3>5, <3>6, <3>7
         DEF Goroutine
  <2>. QED
    BY <2>2, <2>3 DEF EntryInv
<1>. QED
  BY <1>1, <1>2, <1>3, <1>4
     DEF Next, Main, Returned, RefuseOptions, Start, SequentialEnd, AssignWave,
         RefuseOrder, BeginWaves, AwaitWave, NextWave, FinishWaves, vars

LEMMA EntryInvariant == Spec => [](RunInv /\ EntryInv)
<1>1. RunInv /\ EntryInv /\ [Next]_vars => EntryInv'
  BY NextEntry
<1>. QED
  BY InitEntry, RunInvariant, <1>1, PTL DEF Spec

-----------------------------------------------------------------------------
(* What the evidence says *)

LEMMA ProfiledType ==
  ASSUME TypeOK, NEW i \in Positions
  PROVE  Profiled(i) \in Profile
BY LocksOfPositions, SourceAssumption DEF TypeOK, Profiled

\* "evidence in fixed order regardless of completion order": a lock whose answer
\* does not race the deadline has one possible evidence, whatever the mode, the
\* concurrency and the interleaving.
THEOREM TimingLeavesNoTrace == Spec => []EvidenceDetermined
<1>1. RunInv /\ EntryInv => EvidenceDetermined
  <2>. SUFFICES ASSUME RunInv, EntryInv, main = "done",
                       NEW i \in Positions, Determinate(Profiled(i))
                PROVE  Admissible(Profiled(i)) = {evidence[i]}
    BY DEF EvidenceDetermined
  <2>1. evidence[i] # ZeroEvidence
    BY DEF RunInv, RecordInv, WaveInv
  <2>2. evidence[i] \in Admissible(Profiled(i))
    BY <2>1 DEF EntryInv, FetchInv
  <2>3. Profiled(i) \in Profile
    BY ProfiledType DEF RunInv, BoundInv, TypeInv
  <2>. QED
    BY <2>2, <2>3, DeterminateIsUnique
<1>. QED
  BY <1>1, EntryInvariant, PTL

\* docs/protocol-v1.md: no CLOSED without the declared coordinate and digest, no
\* REFUTED without a contradiction that was really answered, and UNKNOWN with a
\* null digest only where an answer was missing, unusable or racing.
THEOREM VerdictsCorrect == Spec => []VerdictSound
<1>1. RunInv /\ EntryInv => VerdictSound
  <2>. SUFFICES ASSUME RunInv, EntryInv, NEW i \in Positions,
                       evidence[i] # ZeroEvidence
                PROVE  SoundFor(Profiled(i), evidence[i])
    BY DEF VerdictSound, SoundFor
  <2>1. evidence[i] \in Admissible(Profiled(i))
    BY DEF EntryInv, FetchInv
  <2>2. Profiled(i) \in Profile
    BY ProfiledType DEF RunInv, BoundInv, TypeInv
  <2>. QED
    BY <2>1, <2>2, AdmissibleSound
<1>. QED
  BY <1>1, EntryInvariant, PTL

-----------------------------------------------------------------------------
(* What the metrics account for *)

\* The attempts of a lock's evidence are the requests its fetch has sent.
RequestInv ==
  \A i \in Positions :
    /\ Profiled(i).behavior = "reused" => attempt[i] = 0
    /\ evidence[i] # ZeroEvidence => evidence[i].attempts = attempt[i]

\* A fetch ends with evidence that tells the number of its requests.
EndsCounted(i) ==
  \E e : Record(i, e) /\ e.attempts = attempt[i] /\ attempt' = attempt

LEMMA FetchCounts ==
  ASSUME TypeOK, NEW i \in Positions, FetchInv(i), Goroutine(i),
         Profiled(i).behavior = "reused" => attempt[i] = 0
  PROVE  \/ EndsCounted(i)
         \/ UNCHANGED evidence /\ (Send(i) \/ UNCHANGED attempt)
<1>1. \A reason, n : UnknownEvidence(reason, n).attempts = n
  BY DEF UnknownEvidence
<1>2. CASE Reuse(i)
  BY <1>2 DEF Reuse, ReusedEvidence, EndsCounted
<1>3. CASE GetFails(i)
  BY <1>1, <1>3 DEF GetFails, EndsCounted
<1>4. CASE BodyFails(i)
  BY <1>1, <1>4 DEF BodyFails, EndsCounted
<1>5. CASE Conclude(i)
  BY <1>5, AnswerAttempt DEF Conclude, EndsCounted
<1>6. CASE Acquire(i) \/ GetAnswers(i) \/ RetryStatus(i) \/ Release(i) \/ Signal(i)
  BY <1>6 DEF Acquire, GetAnswers, RetryStatus, Release, Signal
<1>7. CASE Send(i)
  BY <1>7 DEF Send
<1>. QED
  BY <1>2, <1>3, <1>4, <1>5, <1>6, <1>7 DEF Goroutine

LEMMA NextRequest ==
  RunInv /\ EntryInv /\ RequestInv /\ [Next]_vars => RequestInv'
<1>. SUFFICES ASSUME TypeOK, EntryInv, RequestInv, [Next]_vars
              PROVE  RequestInv'
  BY DEF RunInv, BoundInv, TypeInv
<1>. USE DEF options, waveVars, mainVars, meter, fetching
<1>0. fixture' = fixture
  BY DEF Next, Main, Goroutine, Returned, vars, RefuseOptions, Start,
         SequentialNext, SequentialEnd, AssignWave, RefuseOrder, BeginWaves,
         Spawn, AwaitWave, NextWave, FinishWaves, Acquire, Reuse, Send,
         GetFails, GetAnswers, BodyFails, RetryStatus, Conclude, Release,
         Signal
<1>. \A k : Profiled(k)' = Profiled(k)
  BY <1>0 DEF Profiled
<1>1. CASE UNCHANGED <<attempt, evidence>>
  BY <1>1 DEF RequestInv
<1>2. ASSUME NEW i \in Positions, Goroutine(i) PROVE RequestInv'
  <2>1. FetchInv(i) /\ (Profiled(i).behavior = "reused" => attempt[i] = 0)
    BY DEF EntryInv, RequestInv
  <2>2. CASE EndsCounted(i)
    <3>1. PICK e : /\ evidence' = [evidence EXCEPT ![i] = e]
                   /\ e.attempts = attempt[i] /\ attempt' = attempt
      BY <2>2, SlotIsPosition DEF EndsCounted, Record
    <3>2. evidence \in [Positions -> Evidence \cup {ZeroEvidence}]
      BY DEF TypeOK
    <3>. QED
      BY <3>1, <3>2 DEF RequestInv
  <2>3. CASE Send(i) /\ UNCHANGED evidence
    <3>1. /\ attempt' = [attempt EXCEPT ![i] = attempt[i] + 1]
          /\ Profiled(i).behavior # "reused" /\ evidence[i] = ZeroEvidence
      BY <2>1, <2>3 DEF Send, FetchInv
    <3>2. attempt \in [Positions -> 0..MaxAttempts]
      BY DEF TypeOK
    <3>. QED
      BY <2>3, <3>1, <3>2 DEF RequestInv
  <2>. QED
    BY <1>1, <1>2, <2>1, <2>2, <2>3, FetchCounts
<1>3. CASE ~\E i \in Positions : Goroutine(i)
  BY <1>1, <1>3
     DEF Next, Main, Returned, RefuseOptions, Start, SequentialNext,
         SequentialEnd, AssignWave, RefuseOrder, BeginWaves, Spawn, AwaitWave,
         NextWave, FinishWaves, vars
<1>. QED
  BY <1>2, <1>3

LEMMA RequestInvariant == Spec => [](RunInv /\ EntryInv /\ RequestInv)
<1>1. Init => RequestInv
  BY DEF Init, RequestInv
<1>. QED
  BY <1>1, NextRequest, EntryInvariant, PTL DEF Spec

\* The four groups of the metrics share no lock and leave none out.
LEMMA GroupsCounted ==
  ASSUME RunInv, EntryInv, main = "done"
  PROVE  Metrics.completed + Metrics.reused + Metrics.unknown + Metrics.refuted
           = Len(Order)
<1>. DEFINE Completed == {i \in Positions :
                            evidence[i].status = "CLOSED" /\ ~evidence[i].reused}
            Reused == {i \in Positions : evidence[i].reused}
            Unknown == {i \in Positions : evidence[i].status = "UNKNOWN"}
            Refuted == {i \in Positions : evidence[i].status = "REFUTED"}
<1>1. /\ Metrics.completed = Cardinality(Completed)
      /\ Metrics.reused = Cardinality(Reused)
      /\ Metrics.unknown = Cardinality(Unknown)
      /\ Metrics.refuted = Cardinality(Refuted)
  BY DEF Metrics, Having
<1>2. ASSUME NEW i \in Positions
      PROVE  /\ evidence[i].status \in {"CLOSED", "UNKNOWN", "REFUTED"}
             /\ evidence[i].reused => evidence[i].status = "CLOSED"
  <2>1. evidence[i] # ZeroEvidence
    BY DEF RunInv, RecordInv, WaveInv
  <2>2. evidence[i] \in Evidence /\ Profiled(i) \in Profile
    BY <2>1, ProfiledType DEF RunInv, BoundInv, TypeInv, TypeOK
  <2>3. evidence[i] \in Admissible(Profiled(i))
    BY <2>1 DEF EntryInv, FetchInv
  <2>4. evidence[i].reused => evidence[i].status = "CLOSED"
    BY <2>2, <2>3, ReusedIsClosed
  <2>. QED
    BY <2>2, <2>4 DEF Evidence
<1>3. /\ Positions = (Completed \cup Reused) \cup (Unknown \cup Refuted)
      /\ Completed \cap Reused = {} /\ Unknown \cap Refuted = {}
      /\ (Completed \cup Reused) \cap (Unknown \cup Refuted) = {}
  BY <1>2
<1>4. /\ IsFiniteSet(Completed) /\ IsFiniteSet(Reused)
      /\ IsFiniteSet(Unknown) /\ IsFiniteSet(Refuted)
  BY PositionsFinite, FS_Subset
<1>5. /\ IsFiniteSet(Completed \cup Reused)
      /\ Cardinality(Completed \cup Reused)
           = Cardinality(Completed) + Cardinality(Reused)
      /\ IsFiniteSet(Unknown \cup Refuted)
      /\ Cardinality(Unknown \cup Refuted)
           = Cardinality(Unknown) + Cardinality(Refuted)
  BY <1>3, <1>4, DisjointUnion
<1>6. Cardinality((Completed \cup Reused) \cup (Unknown \cup Refuted))
        = Cardinality(Completed \cup Reused) + Cardinality(Unknown \cup Refuted)
  BY <1>3, <1>5, DisjointUnion
<1>7. Cardinality(Positions) = Len(Order)
  BY LocksOfPositions, FS_Interval DEF Positions
<1>8. /\ Cardinality(Completed) \in Nat /\ Cardinality(Reused) \in Nat
      /\ Cardinality(Unknown) \in Nat /\ Cardinality(Refuted) \in Nat
  BY <1>4, FS_CardinalityType
<1>. HIDE DEF Completed, Reused, Unknown, Refuted
<1>9. Cardinality(Positions)
        = Cardinality((Completed \cup Reused) \cup (Unknown \cup Refuted))
  BY <1>3, Zenon
<1>. QED
  BY <1>1, <1>5, <1>6, <1>7, <1>8, <1>9

\* summarizeMetrics: the emitted counters account for every lock once and for
\* every request that was sent, in every mode and every interleaving.
THEOREM MetricsCorrect == Spec => []MetricsAccount
<1>1. RunInv /\ EntryInv /\ RequestInv => MetricsAccount
  <2>. SUFFICES ASSUME RunInv, EntryInv, RequestInv, main = "done"
                PROVE  Metrics.requests = SumFunction(attempt)
    BY GroupsCounted DEF MetricsAccount
  <2>1. \A i \in Positions : evidence[i] # ZeroEvidence
    BY DEF RunInv, RecordInv, WaveInv
  <2>2. \A i \in Positions : evidence[i].attempts = attempt[i]
    BY <2>1 DEF RequestInv
  <2>3. attempt = [i \in Positions |-> attempt[i]]
    BY DEF RunInv, BoundInv, TypeInv, TypeOK
  <2>4. [i \in Positions |-> evidence[i].attempts] = attempt
    BY <2>2, <2>3
  <2>5. RequestsReported = SumFunction(attempt)
    BY <2>4, Zenon DEF RequestsReported
  <2>. QED
    BY <2>5 DEF Metrics
<1>. QED
  BY <1>1, RequestInvariant, PTL

-----------------------------------------------------------------------------
(* What a run is refused for *)

\* Every lock comes after the locks it depends on.
DependencyRespecting ==
  \A i, k \in Positions : Order[k] \in deps[Order[i]] => k < i

\* The canonical order is not used for emission only: a parallel run is refused
\* when it is not dependency-respecting, as it is when the concurrency is out of
\* bounds, and for nothing else; a run that gets further is free of both.
RefusalExact ==
  /\ main = "failed" =>
       \/ concurrency \notin 1..ConcurrencyBound
       \/ mode = "bounded-parallel" /\ ~DependencyRespecting
  /\ main \notin {"start", "failed"} => concurrency \in 1..ConcurrencyBound
  /\ main \in {"spawn", "wait", "done"} /\ mode = "bounded-parallel" =>
       DependencyRespecting

\* buildWaves has come as far as the order respects the dependencies.
RefusalInv ==
  /\ RefusalExact
  /\ main = "build" =>
       \A i, k \in Positions :
         i <= cursor /\ Order[k] \in deps[Order[i]] => k < i

LEMMA NextRefusal == RunInv /\ RefusalInv /\ [Next]_vars => RefusalInv'
<1>. SUFFICES ASSUME RunInv, RefusalInv, [Next]_vars PROVE RefusalInv'
  OBVIOUS
<1>. TypeInv /\ TypeOK /\ BuildInv /\ ControlInv
  BY DEF RunInv, BoundInv, TypeInv
<1>. USE DEF options, waveVars, mainVars, meter, fetching
<1>0. UNCHANGED <<deps, mode, concurrency>>
  <2>1. ASSUME NEW i \in Positions, Goroutine(i)
        PROVE  UNCHANGED <<deps, mode, concurrency>>
    BY <2>1, GoroutineSteps DEF FetchStep
  <2>. QED
    BY <2>1 DEF Next, Main, Returned, vars, RefuseOptions, Start, SequentialNext,
       SequentialEnd, AssignWave, RefuseOrder, BeginWaves, Spawn, AwaitWave,
       NextWave, FinishWaves
<1>1. DependencyRespecting' <=> DependencyRespecting
  BY <1>0 DEF DependencyRespecting
<1>2. CASE UNCHANGED main /\ (main = "build" => UNCHANGED cursor)
  BY <1>0, <1>1, <1>2 DEF RefusalInv, RefusalExact
<1>3. CASE RefuseOptions
  BY <1>0, <1>3 DEF RefuseOptions, RefusalInv, RefusalExact
<1>4. CASE Start
  <2>1. cursor' = 0 /\ \A i \in Positions : ~(i <= 0)
    BY <1>4, PositionRange DEF Start, ControlInv
  <2>2. main' \in {"loop", "build"} /\ concurrency \in 1..ConcurrencyBound
    BY <1>4 DEF Start
  <2>. QED
    BY <1>0, <2>1, <2>2 DEF RefusalInv, RefusalExact
<1>5. CASE SequentialEnd
  BY <1>0, <1>5 DEF SequentialEnd, ControlInv, RefusalInv, RefusalExact
<1>6. CASE AssignWave
  <2>1. /\ main = "build" /\ main' = "build" /\ cursor' = cursor + 1
        /\ cursor < Len(Order) /\ cursor \in Nat
        /\ \A d \in deps[Order[cursor + 1]] : waveByID[d] # NoWave
    BY <1>6 DEF AssignWave, TypeOK
  <2>2. ASSUME NEW i \in Positions, NEW k \in Positions, i <= cursor',
               Order[k] \in deps[Order[i]]
        PROVE  k < i
    <3>1. i \in Nat /\ k \in Nat
      BY PositionRange
    <3>2. CASE i <= cursor
      BY <2>1, <2>2, <3>2 DEF RefusalInv
    <3>3. CASE i = cursor + 1
      <4>1. k <= cursor
        BY <2>1, <2>2, <3>3 DEF BuildInv
      <4>. QED
        BY <2>1, <3>1, <3>3, <4>1
    <3>. QED
      BY <2>1, <2>2, <3>1, <3>2, <3>3
  <2>. QED
    BY <1>0, <2>1, <2>2 DEF RefusalInv, RefusalExact
<1>7. CASE RefuseOrder
  <2>1. /\ main = "build" /\ main' = "failed" /\ cursor < Len(Order) /\ cursor \in Nat
        /\ mode = "bounded-parallel"
    BY <1>7 DEF RefuseOrder, TypeOK, ControlInv
  <2>2. cursor + 1 \in Positions
    BY <2>1, PositionRange
  <2>3. PICK d \in deps[Order[cursor + 1]] : waveByID[d] = NoWave
    BY <1>7 DEF RefuseOrder
  <2>4. PICK k \in Positions : Order[k] = d
    BY <2>2, LocksOfPositions, SourceAssumption DEF TypeOK
  <2>5. ~(k < cursor + 1)
    BY <2>1, <2>3, <2>4, PositionRange DEF BuildInv
  <2>6. ~DependencyRespecting
    BY <2>2, <2>3, <2>4, <2>5 DEF DependencyRespecting
  <2>. QED
    BY <1>0, <1>1, <2>1, <2>6 DEF RefusalInv, RefusalExact
<1>8. CASE BeginWaves
  <2>1. main = "build" /\ main' = "spawn" /\ cursor = Len(Order)
    BY <1>8 DEF BeginWaves
  <2>2. DependencyRespecting
    BY <2>1, PositionRange DEF DependencyRespecting, RefusalInv
  <2>. QED
    BY <1>0, <1>1, <2>1, <2>2 DEF RefusalInv, RefusalExact
<1>9. CASE AwaitWave \/ NextWave \/ FinishWaves
  <2>1. main \in {"spawn", "wait"} /\ main' \in {"spawn", "wait", "done"}
    BY <1>9 DEF AwaitWave, NextWave, FinishWaves
  <2>. QED
    BY <1>0, <1>1, <2>1 DEF RefusalInv, RefusalExact
<1>10. ASSUME NEW i \in Positions, Goroutine(i) \/ Spawn(i) PROVE RefusalInv'
  <2>1. UNCHANGED <<main, cursor>>
    BY <1>10, GoroutineSteps DEF FetchStep, Spawn
  <2>. QED
    BY <1>2, <2>1
<1>11. CASE SequentialNext \/ UNCHANGED vars
  <2>1. UNCHANGED main /\ (main = "build" => UNCHANGED cursor)
    BY <1>11 DEF SequentialNext, vars
  <2>. QED
    BY <1>2, <2>1
<1>. QED
  BY <1>3, <1>4, <1>5, <1>6, <1>7, <1>8, <1>9, <1>10, <1>11 DEF Next, Main, Returned

\* buildWaves and the guard of run: for every graph, order and concurrency, a run
\* fails for a concurrency out of bounds or an order that puts a lock before one
\* it depends on, and for no other reason.
THEOREM RefusedForCause == Spec => []RefusalExact
<1>1. Init => RefusalInv
  BY DEF Init, RefusalInv, RefusalExact
<1>2. RefusalInv => RefusalExact
  BY DEF RefusalInv
<1>. QED
  BY <1>1, <1>2, NextRefusal, RunInvariant, PTL DEF Spec

-----------------------------------------------------------------------------
(* The ledger *)

\* A run and the ledger it implements speak of the same data.
LEMMA SameZero == Ledger!ZeroEvidence = ZeroEvidence
BY DEF Ledger!ZeroEvidence, ZeroEvidence, Ledger!None, None

LEMMA SameReply == \A p : Ledger!ReplyStatus(p) = ReplyStatus(p)
BY DEF Ledger!ReplyStatus, ReplyStatus, Ledger!ServedBehaviors, ServedBehaviors

LEMMA SameChances ==
  \A p : /\ Ledger!CanFail(p) = CanFail(p)
         /\ Ledger!CanAnswer(p) = CanAnswer(p)
BY SameReply
   DEF Ledger!CanFail, CanFail, Ledger!CanAnswer, CanAnswer, Ledger!Dropped,
       Dropped

LEMMA SameUnknown ==
  \A r, n : Ledger!UnknownEvidence(r, n) = UnknownEvidence(r, n)
BY DEF Ledger!UnknownEvidence, UnknownEvidence, Ledger!None, None

LEMMA SameAnswer ==
  \A p, n : Ledger!AnswerEvidence(p, n) = AnswerEvidence(p, n)
<1>1. \A s : Ledger!ReasonForStatus(s) = ReasonForStatus(s)
  BY DEF Ledger!ReasonForStatus, ReasonForStatus
<1>2. \A p, n : Ledger!BodyEvidence(p, n) = BodyEvidence(p, n)
  BY SameUnknown
     DEF Ledger!BodyEvidence, BodyEvidence, Ledger!RefutedEvidence,
         RefutedEvidence, Ledger!ClosedEvidence, ClosedEvidence, Ledger!None,
         None
<1>. QED
  BY <1>1, <1>2, SameReply, SameUnknown DEF Ledger!AnswerEvidence, AnswerEvidence

LEMMA SameAdmissible == \A p : Ledger!Admissible(p) = Admissible(p)
<1>1. \A p : Ledger!AnswerAttempts(p) = AnswerAttempts(p)
  BY SameReply, SameChances
     DEF Ledger!AnswerAttempts, AnswerAttempts, Ledger!IsRetryable, IsRetryable
<1>2. Ledger!ReusedEvidence = ReusedEvidence
  BY DEF Ledger!ReusedEvidence, ReusedEvidence, Ledger!None, None
<1>. QED
  BY <1>1, <1>2, SameReply, SameChances, SameUnknown, SameAnswer
     DEF Ledger!Admissible, Admissible

\* The refinement mapping.
LedgerOf == [l \in Locks |-> evidence[IndexOf(l)]]
PhaseOf  == CASE main = "done"   -> "emitted"
              [] main = "failed" -> "refused"
              [] OTHER           -> "open"

LEMMA LedgerAt ==
  ASSUME NEW i \in Positions
  PROVE  LedgerOf[Order[i]] = evidence[i]
BY IndexOfPosition, LocksOfPositions DEF LedgerOf

LEMMA EnteredAt ==
  ASSUME NEW i \in Positions
  PROVE  Ledger!Entered(Order[i]) <=> evidence[i] # ZeroEvidence
BY LedgerAt, SameZero DEF Ledger!Entered, LedgerOf

\* Where a fetch is about to write, what must be entered before is entered: the
\* lower waves are over, and the sequential loop is past the lower positions.
LEMMA PrerequisitesEntered ==
  ASSUME RunInv, NEW i \in Positions, pc[i] \in {"attempt", "get", "body"},
         NEW l \in Ledger!Prerequisites(Order[i])
  PROVE  Ledger!Entered(l)
<1>. USE DEF RunInv, BoundInv, TypeInv
<1>1. CASE mode = "sequential"
  <2>1. PICK k \in DOMAIN Order :
          /\ l = Order[k]
          /\ \E j \in DOMAIN Order : k < j /\ Order[j] = Order[i]
    BY <1>1 DEF Ledger!Prerequisites, Ledger!Before
  <2>2. k \in Positions /\ k < i
    <3>1. DOMAIN Order = Positions
      BY SourceAssumption DEF Positions
    <3>. QED
      BY <2>1, <3>1, IndexOfPosition
  <2>3. /\ main = "loop"
        /\ \A j \in Positions : j < cursor => pc[j] = "done"
        /\ \A j \in Positions : j > cursor => pc[j] = "idle"
    BY <1>1 DEF ControlInv, TypeOK
  <2>4. pc[k] = "done"
    <3>1. i \in Nat /\ k \in Nat /\ cursor \in Nat
      BY <2>2, PositionRange DEF TypeOK
    <3>. QED
      BY <2>2, <2>3, <3>1
  <2>. QED
    BY <2>1, <2>2, <2>4, EnteredAt DEF RecordInv
<1>2. CASE mode = "bounded-parallel"
  <2>1. l \in deps[Order[i]]
    BY <1>2 DEF Ledger!Prerequisites
  <2>2. Recorded(l)
    BY <1>2, <2>1, BarrierHolds DEF DependenciesFirst
  <2>. QED
    BY <2>2, EnteredAt DEF Recorded
<1>. QED
  BY <1>1, <1>2 DEF TypeOK

\* A fetch that ends enters its lock; no other step touches the ledger but the
\* return of the run.
LEMMA EndEnters ==
  ASSUME RunInv, EntryInv, NEW i \in Positions, Ends(i),
         UNCHANGED <<main, fixture, deps, mode>>
  PROVE  Ledger!Enter(Order[i])
<1>. USE DEF RunInv, BoundInv, TypeInv
<1>1. PICK e \in Admissible(Profiled(i)) : Record(i, e)
  BY DEF Ends
<1>2. main \notin {"done", "failed"} /\ evidence[i] = ZeroEvidence
  BY DEF Ends, ControlInv, WaveInv, EntryInv, FetchInv
<1>3. evidence' = [evidence EXCEPT ![i] = e]
  BY <1>1, SlotIsPosition DEF Record
<1>4. LedgerOf' = [LedgerOf EXCEPT ![Order[i]] = e]
  <2>1. ASSUME NEW l \in Locks
        PROVE  evidence'[IndexOf(l)] = IF l = Order[i] THEN e
                                       ELSE evidence[IndexOf(l)]
    <3>1. PICK k \in Positions : Order[k] = l
      BY LocksOfPositions
    <3>2. IndexOf(l) = k /\ (l = Order[i] <=> k = i)
      BY <3>1, IndexOfPosition
    <3>. QED
      BY <1>3, <3>2 DEF TypeOK
  <2>. QED
    BY <2>1, LocksOfPositions DEF LedgerOf
<1>5. ~Ledger!Entered(Order[i])
  BY <1>2, EnteredAt
<1>6. \A l \in Ledger!Prerequisites(Order[i]) : Ledger!Entered(l)
  BY PrerequisitesEntered DEF Ends
<1>7. e \in Ledger!Admissible(fixture[Order[i]])
  BY <1>1, SameAdmissible DEF Profiled
<1>. QED
  BY <1>2, <1>4, <1>5, <1>6, <1>7
     DEF Ledger!Enter, Ledger!source, LedgerOf, PhaseOf

LEMMA ReturnEmits ==
  ASSUME RunInv, RunInv', main # "done", main # "failed", main' = "done",
         UNCHANGED <<fixture, deps, mode, evidence>>
  PROVE  Ledger!Emit
<1>1. \A i \in Positions : evidence[i] # ZeroEvidence
  BY DEF RunInv, RecordInv, WaveInv
<1>2. \A l \in Locks : Ledger!Entered(l)
  BY <1>1, EnteredAt, LocksOfPositions
<1>. QED
  BY <1>2 DEF Ledger!Emit, Ledger!source

LEMMA ErrorRefuses ==
  ASSUME RunInv, RunInv', main # "done", main # "failed", main' = "failed",
         UNCHANGED <<fixture, deps, mode, pc, evidence>>
  PROVE  Ledger!Refuse
<1>1. \A i \in Positions : evidence[i] = ZeroEvidence
  BY DEF RunInv, BoundInv, TypeInv, ControlInv, RecordInv
<1>2. \A l \in Locks : ~Ledger!Entered(l)
  BY <1>1, EnteredAt, LocksOfPositions
<1>. QED
  BY <1>2 DEF Ledger!Refuse, Ledger!source

LEMMA StepImplements ==
  RunInv /\ RunInv' /\ EntryInv /\ [Next]_vars
    => [Ledger!LedgerNext]_(Ledger!ledgerVars)
<1>. SUFFICES ASSUME RunInv, RunInv', EntryInv, [Next]_vars
              PROVE  [Ledger!LedgerNext]_(Ledger!ledgerVars)
  OBVIOUS
<1>. USE DEF options, waveVars, mainVars, meter, fetching
<1>1. CASE /\ UNCHANGED <<fixture, deps, mode, evidence>>
           /\ UNCHANGED main \/ {main, main'} \cap {"done", "failed"} = {}
  BY <1>1 DEF Ledger!ledgerVars, Ledger!source
<1>2. CASE SequentialEnd \/ FinishWaves
  BY <1>2, ReturnEmits DEF SequentialEnd, FinishWaves, Ledger!LedgerNext
<1>3. CASE RefuseOptions \/ RefuseOrder
  BY <1>3, ErrorRefuses DEF RefuseOptions, RefuseOrder, Ledger!LedgerNext
<1>4. CASE \/ Start \/ SequentialNext \/ AssignWave \/ BeginWaves
           \/ (\E i \in Positions : Spawn(i)) \/ AwaitWave \/ NextWave
           \/ UNCHANGED vars
  BY <1>1, <1>4
     DEF Start, SequentialNext, AssignWave, BeginWaves, Spawn, AwaitWave,
         NextWave, vars
<1>5. ASSUME NEW i \in Positions, Goroutine(i)
      PROVE  [Ledger!LedgerNext]_(Ledger!ledgerVars)
  <2>1. FetchInv(i) /\ TypeOK /\ UNCHANGED <<main, fixture, deps, mode>>
    <3>1. FetchInv(i) /\ TypeOK
      BY DEF EntryInv, RunInv, BoundInv, TypeInv
    <3>. QED
      BY <1>5, <3>1, GoroutineSteps DEF FetchStep
  <2>2. CASE Ends(i)
    BY <2>1, <2>2, EndEnters, LocksOfPositions DEF Ledger!LedgerNext
  <2>3. CASE UNCHANGED evidence
    BY <1>1, <2>1, <2>3
  <2>. QED
    BY <1>5, <2>1, <2>2, <2>3, FetchEnds
       DEF Goroutine, Acquire, Send, GetFails, GetAnswers, RetryStatus,
           Release, Signal
<1>. QED
  BY <1>2, <1>3, <1>4, <1>5 DEF Next, Main, Returned

\* Whatever the source, the mode and the interleaving, a run is an append-only
\* ledger: one entry per lock, in the order its mode promises, with evidence the
\* lock's profile accounts for, returned complete or not begun.
THEOREM LedgerImplemented == Spec => ImplementsLedger
<1>1. Init => Ledger!LedgerInit
  <2>. SUFFICES ASSUME Init PROVE Ledger!LedgerInit
    OBVIOUS
  <2>1. \A l \in Locks : evidence[IndexOf(l)] = ZeroEvidence
    BY IndexOfPosition, LocksOfPositions DEF Init
  <2>. QED
    BY <2>1, SameZero DEF Init, Ledger!LedgerInit
<1>. QED
  BY <1>1, StepImplements, EntryInvariant, PTL
     DEF Spec, ImplementsLedger, Ledger!LedgerSpec

=============================================================================
