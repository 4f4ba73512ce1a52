--------------------------- MODULE InflightMeter ---------------------------
(***************************************************************************)
(* inflightMeter of internal/scheduler/runner.go, one atomic operation a   *)
(* step: begin adds to the counter and then raises the peak in a loop of   *)
(* Load and CompareAndSwap, end subtracts.  FetchRun takes begin as one    *)
(* step; what justifies it is that whenever no begin is under way, the     *)
(* peak is the highest value the counter has had.                          *)
(***************************************************************************)
EXTENDS Integers, FiniteSets

CONSTANT Threads  \* the goroutines that share the meter

ASSUME ThreadAssumption == IsFiniteSet(Threads)

VARIABLES
  current,  \* the atomic counter
  peak,     \* the atomic peak
  pc,       \* "idle", "load" and "cas" inside begin, "busy" after it
  mine,     \* begin's local current
  seen,     \* begin's local peak
  high      \* history: the highest value the counter has had

vars == <<current, peak, pc, mine, seen, high>>

Init ==
  /\ current = 0 /\ peak = 0 /\ high = 0
  /\ pc = [t \in Threads |-> "idle"]
  /\ mine = [t \in Threads |-> 0]
  /\ seen = [t \in Threads |-> 0]

\* meter.current.Add(1)
Add(t) ==
  /\ pc[t] = "idle"
  /\ current' = current + 1
  /\ mine' = [mine EXCEPT ![t] = current + 1]
  /\ high' = IF current + 1 > high THEN current + 1 ELSE high
  /\ pc' = [pc EXCEPT ![t] = "load"]
  /\ UNCHANGED <<peak, seen>>

\* meter.peak.Load(), and begin returns if the peak is high enough.
Load(t) ==
  /\ pc[t] = "load"
  /\ seen' = [seen EXCEPT ![t] = peak]
  /\ pc' = [pc EXCEPT ![t] = IF mine[t] <= peak THEN "busy" ELSE "cas"]
  /\ UNCHANGED <<current, peak, mine, high>>

\* Fault: the new peak is stored without comparing.
FaultySwap(t) ==
  /\ pc[t] = "cas"
  /\ peak' = mine[t]
  /\ pc' = [pc EXCEPT ![t] = "busy"]
  /\ UNCHANGED <<current, mine, seen, high>>

\* Fault: a failed swap is tried again with the peak that was loaded before.
FaultyRetry(t) ==
  /\ pc[t] = "cas"
  /\ peak = seen[t]
  /\ peak' = mine[t]
  /\ pc' = [pc EXCEPT ![t] = "busy"]
  /\ UNCHANGED <<current, mine, seen, high>>

\* meter.peak.CompareAndSwap(peak, current): begin returns, or loads again.
Swap(t) ==
  /\ pc[t] = "cas"
  /\ \/ /\ peak = seen[t]
        /\ peak' = mine[t]
        /\ pc' = [pc EXCEPT ![t] = "busy"]
     \/ /\ peak # seen[t]
        /\ pc' = [pc EXCEPT ![t] = "load"]
        /\ UNCHANGED peak
  /\ UNCHANGED <<current, mine, seen, high>>

\* Fault: a request that ends is not taken off the counter.
FaultyEnd(t) ==
  /\ pc[t] = "busy"
  /\ pc' = [pc EXCEPT ![t] = "idle"]
  /\ UNCHANGED <<current, peak, mine, seen, high>>

\* meter.end
End(t) ==
  /\ pc[t] = "busy"
  /\ current' = current - 1
  /\ pc' = [pc EXCEPT ![t] = "idle"]
  /\ UNCHANGED <<peak, mine, seen, high>>

Next == \E t \in Threads : Add(t) \/ Load(t) \/ Swap(t) \/ End(t)

\* A goroutine inside begin is runnable; whether it ever calls begin or end is
\* up to its request.
Fairness == \A t \in Threads : WF_vars(Load(t) \/ Swap(t))

Spec == Init /\ [][Next]_vars /\ Fairness

-----------------------------------------------------------------------------
(* Properties *)

Counts == 0..Cardinality(Threads)

\* The type of every variable; the counter never leaves the number of threads.
TypeOK ==
  /\ current \in Counts /\ peak \in Counts /\ high \in Counts
  /\ pc \in [Threads -> {"idle", "load", "cas", "busy"}]
  /\ mine \in [Threads -> Counts] /\ seen \in [Threads -> Counts]

Pending == {t \in Threads : pc[t] \in {"load", "cas"}}

\* max_in_flight of the metrics: the peak never overstates, and once no begin
\* is under way it is the highest number of requests that were in flight
\* together, however the swaps of the threads interleaved.
PeakExact ==
  /\ peak <= high
  /\ Pending = {} => peak = high

\* A slow thread never takes back a peak that another one has raised.
PeakMonotone == [][peak' >= peak]_vars

\* begin returns although other threads may raise the peak between its Load
\* and its CompareAndSwap, and may come and go for ever.
BeginReturns == \A t \in Threads : t \in Pending ~> pc[t] = "busy"

=============================================================================
