------------------------ MODULE InflightMeter_proofs ------------------------
(***************************************************************************)
(* The meter is exact for any number of goroutines.                        *)
(***************************************************************************)
EXTENDS InflightMeter, FiniteSetTheorems, TLAPS

States == {"idle", "load", "cas", "busy"}

\* The threads between begin's Add and end.
Inside == {t \in Threads : pc[t] # "idle"}

\* The counter is the number of goroutines between begin's Add and end.
Counted ==
  /\ current = Cardinality(Inside)
  /\ current \in Int /\ peak \in Counts /\ high \in Counts
  /\ pc \in [Threads -> States]
  /\ mine \in [Threads -> Counts] /\ seen \in [Threads -> Counts]

\* The highest value is the peak or still on its way to it, and a loaded peak
\* is at most the present one and below what its goroutine would store.
PeakOnItsWay ==
  /\ peak <= high
  /\ high = peak \/ \E t \in Pending : mine[t] = high
  /\ \A t \in Threads : seen[t] <= peak
  /\ \A t \in Pending : mine[t] <= high
  /\ \A t \in Threads : pc[t] = "cas" => seen[t] < mine[t]

MeterInv == Counted /\ PeakOnItsWay

Moves(t, v) == pc' = [pc EXCEPT ![t] = v]

LEMMA ThreadCount == Cardinality(Threads) \in Nat
BY ThreadAssumption, FS_CardinalityType

LEMMA InsideFinite == IsFiniteSet(Inside) /\ Cardinality(Inside) \in Counts
<1>1. Inside \in SUBSET Threads
  BY DEF Inside
<1>. QED
  BY <1>1, ThreadAssumption, ThreadCount, FS_Subset, FS_CardinalityType DEF Counts

\* One thread's step changes the number by what it enters and leaves, and the
\* number never exceeds that of the threads.
LEMMA MoveCount ==
  ASSUME Counted, NEW t \in Threads, NEW v \in States, Moves(t, v)
  PROVE  /\ pc' \in [Threads -> States]
         /\ Cardinality(Inside') \in Counts
         /\ pc[t] = "idle" /\ v # "idle" =>
              Cardinality(Inside') = Cardinality(Inside) + 1
         /\ pc[t] # "idle" /\ v # "idle" =>
              Cardinality(Inside') = Cardinality(Inside)
         /\ pc[t] # "idle" /\ v = "idle" =>
              Cardinality(Inside') = Cardinality(Inside) - 1
<1>1. pc' \in [Threads -> States]
  BY DEF Counted, Moves
<1>2. Cardinality(Inside') \in Counts
  <2>1. Inside' \in SUBSET Threads
    BY DEF Inside
  <2>. QED
    BY <2>1, ThreadAssumption, ThreadCount, FS_Subset, FS_CardinalityType DEF Counts
<1>3. CASE pc[t] = "idle" /\ v # "idle"
  <2>1. Inside' = Inside \cup {t} /\ t \notin Inside
    BY <1>3 DEF Inside, Counted, Moves
  <2>. QED
    BY <1>1, <1>2, <1>3, <2>1, InsideFinite, FS_AddElement
<1>4. CASE pc[t] # "idle" /\ v # "idle"
  <2>1. Inside' = Inside
    BY <1>4 DEF Inside, Counted, Moves
  <2>. QED
    BY <1>1, <1>2, <1>4, <2>1
<1>5. CASE pc[t] # "idle" /\ v = "idle"
  <2>1. Inside' = Inside \ {t} /\ t \in Inside
    BY <1>5 DEF Inside, Counted, Moves
  <2>. QED
    BY <1>1, <1>2, <1>5, <2>1, InsideFinite, FS_RemoveElement
<1>6. CASE pc[t] = "idle" /\ v = "idle"
  BY <1>1, <1>2, <1>6
<1>. QED
  BY <1>3, <1>4, <1>5, <1>6

LEMMA InitMeter == Init => MeterInv
<1>. SUFFICES ASSUME Init PROVE MeterInv
  OBVIOUS
<1>1. Inside = {}
  BY DEF Init, Inside
<1>2. Cardinality(Inside) = 0
  BY <1>1, FS_EmptySet, Zenon
<1>3. 0 \in Counts
  BY ThreadCount DEF Counts
<1>4. Counted
  BY <1>2, <1>3 DEF Init, Counted, States
<1>5. PeakOnItsWay
  BY DEF Init, PeakOnItsWay, Pending
<1>. QED
  BY <1>4, <1>5 DEF MeterInv

LEMMA NextCounted ==
  ASSUME Counted, [Next]_vars
  PROVE  Counted'
<1>. USE ThreadCount DEF Counts
<1>1. ASSUME NEW t \in Threads, Add(t) PROVE Counted'
  <2>1. Moves(t, "load") /\ pc[t] = "idle" /\ "load" \in States
    BY <1>1 DEF Add, Moves, States
  <2>2. /\ Cardinality(Inside') = Cardinality(Inside) + 1
        /\ Cardinality(Inside') \in Counts
        /\ pc' \in [Threads -> States]
    BY <2>1, MoveCount, InsideFinite DEF Counted
  <2>3. current + 1 \in Counts
    BY <2>2 DEF Counted
  <2>. QED
    BY <1>1, <2>2, <2>3 DEF Add, Counted
<1>2. ASSUME NEW t \in Threads, Load(t) PROVE Counted'
  <2>1. PICK v \in {"busy", "cas"} : Moves(t, v)
    BY <1>2 DEF Load, Moves
  <2>2. pc[t] = "load" /\ v \in States
    BY <1>2 DEF Load, States
  <2>3. /\ Cardinality(Inside') = Cardinality(Inside)
        /\ pc' \in [Threads -> States]
    BY <2>1, <2>2, MoveCount, InsideFinite DEF Counted
  <2>. QED
    BY <1>2, <2>3 DEF Load, Counted
<1>3. ASSUME NEW t \in Threads, Swap(t) PROVE Counted'
  <2>1. PICK v \in {"busy", "load"} : Moves(t, v)
    BY <1>3 DEF Swap, Moves
  <2>2. pc[t] = "cas" /\ v \in States
    BY <1>3 DEF Swap, States
  <2>3. /\ Cardinality(Inside') = Cardinality(Inside)
        /\ pc' \in [Threads -> States]
    BY <2>1, <2>2, MoveCount, InsideFinite DEF Counted
  <2>. QED
    BY <1>3, <2>3 DEF Swap, Counted
<1>4. ASSUME NEW t \in Threads, End(t) PROVE Counted'
  <2>1. Moves(t, "idle") /\ pc[t] = "busy" /\ "idle" \in States
    BY <1>4 DEF End, Moves, States
  <2>2. /\ Cardinality(Inside') = Cardinality(Inside) - 1
        /\ pc' \in [Threads -> States]
    BY <2>1, MoveCount, InsideFinite DEF Counted
  <2>. QED
    BY <1>4, <2>2 DEF End, Counted
<1>5. CASE UNCHANGED vars
  BY <1>5 DEF vars, Counted, Inside
<1>. QED
  BY <1>1, <1>2, <1>3, <1>4, <1>5 DEF Next

LEMMA NextPeak ==
  ASSUME MeterInv, [Next]_vars
  PROVE  PeakOnItsWay' /\ peak' >= peak
<1>. USE ThreadCount DEF Counts
<1>. USE DEF MeterInv, Counted, PeakOnItsWay, Pending, States
<1>1. ASSUME NEW t \in Threads, Add(t)
      PROVE  PeakOnItsWay' /\ peak' >= peak
  BY <1>1 DEF Add
<1>2. ASSUME NEW t \in Threads, Load(t)
      PROVE  PeakOnItsWay' /\ peak' >= peak
  BY <1>2 DEF Load
<1>3. ASSUME NEW t \in Threads, Swap(t)
      PROVE  PeakOnItsWay' /\ peak' >= peak
  BY <1>3 DEF Swap
<1>4. ASSUME NEW t \in Threads, End(t)
      PROVE  PeakOnItsWay' /\ peak' >= peak
  BY <1>4 DEF End
<1>5. CASE UNCHANGED vars
  BY <1>5 DEF vars
<1>. QED
  BY <1>1, <1>2, <1>3, <1>4, <1>5 DEF Next

LEMMA MeterInvariant == Spec => []MeterInv
<1>1. MeterInv /\ [Next]_vars => MeterInv'
  BY NextCounted, NextPeak DEF MeterInv
<1>. QED
  BY InitMeter, <1>1, PTL DEF Spec

\* The counter never leaves 0..n for n goroutines, and every other variable
\* keeps its type.
THEOREM MeterTypeCorrect == Spec => []TypeOK
<1>1. MeterInv => TypeOK
  BY InsideFinite DEF MeterInv, Counted, TypeOK, States
<1>. QED
  BY <1>1, MeterInvariant, PTL

\* The reported peak is the true one whenever no begin is under way, for any
\* number of goroutines.
THEOREM PeakCorrect == Spec => []PeakExact
<1>1. MeterInv => PeakExact
  BY DEF MeterInv, PeakOnItsWay, PeakExact
<1>. QED
  BY <1>1, MeterInvariant, PTL

\* No step of any goroutine lowers the peak.
THEOREM PeakNeverLowered == Spec => PeakMonotone
<1>1. MeterInv /\ [Next]_vars => [peak' >= peak]_vars
  BY NextPeak
<1>. QED
  BY <1>1, MeterInvariant, PTL DEF Spec, PeakMonotone

=============================================================================
