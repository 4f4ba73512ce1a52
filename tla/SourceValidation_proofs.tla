----------------------- MODULE SourceValidation_proofs -----------------------
(***************************************************************************)
(* The verdict of validateDAG is right in both directions, for any number  *)
(* of locks and any dependency lists.                                      *)
(***************************************************************************)
EXTENDS SourceValidation, FiniteSetTheorems, TLAPS

-----------------------------------------------------------------------------
(* Lists and their entries *)

LEMMA EntriesFinite ==
  ASSUME NEW T, NEW list \in Seq(T), NEW D
  PROVE  /\ IsFiniteSet({k \in DOMAIN list : list[k] \in D})
         /\ Entries(list, D) \in Nat
<1>1. IsFiniteSet(DOMAIN list)
  BY FS_Interval
<1>2. {k \in DOMAIN list : list[k] \in D} \in SUBSET (DOMAIN list)
  OBVIOUS
<1>. QED
  BY <1>1, <1>2, FS_Subset, FS_CardinalityType DEF Entries

LEMMA EntriesAll ==
  ASSUME NEW T, NEW list \in Seq(T), NEW D, \A k \in DOMAIN list : list[k] \in D
  PROVE  Entries(list, D) = Len(list)
<1>1. {k \in DOMAIN list : list[k] \in D} = 1..Len(list)
  OBVIOUS
<1>2. Cardinality(1..Len(list)) = Len(list)
  <2>1. Len(list) \in Nat /\ 1 \in Int
    OBVIOUS
  <2>2. Cardinality(1..Len(list)) = IF 1 > Len(list) THEN 0 ELSE Len(list) - 1 + 1
    BY <2>1, FS_Interval
  <2>. QED
    BY <2>1, <2>2
<1>. QED
  BY <1>1, <1>2, Zenon DEF Entries

LEMMA EntriesNone ==
  ASSUME NEW T, NEW list \in Seq(T), NEW D
  PROVE  Entries(list, D) = 0 <=> \A k \in DOMAIN list : list[k] \notin D
<1>1. Entries(list, D) = 0 <=> {k \in DOMAIN list : list[k] \in D} = {}
  BY EntriesFinite, FS_EmptySet DEF Entries
<1>. QED
  BY <1>1

\* Taking one ID out of D takes its entries off the count.
LEMMA EntriesRemove ==
  ASSUME NEW T, NEW list \in Seq(T), NEW D, NEW x \in D
  PROVE  Entries(list, D \ {x}) = Entries(list, D) - Entries(list, {x})
<1>. DEFINE In(E) == {k \in DOMAIN list : list[k] \in E}
<1>1. IsFiniteSet(In(D))
  BY EntriesFinite
<1>2. Cardinality(In(D) \ In({x}))
        = Cardinality(In(D)) - Cardinality(In(D) \cap In({x}))
  BY <1>1, FS_Difference
<1>3. In(D) \ In({x}) = In(D \ {x}) /\ In(D) \cap In({x}) = In({x})
  OBVIOUS
<1>4. /\ Cardinality(In(D) \ In({x})) = Cardinality(In(D \ {x}))
      /\ Cardinality(In(D) \cap In({x})) = Cardinality(In({x}))
  BY <1>3, Zenon
<1>. QED
  BY <1>2, <1>4 DEF Entries

-----------------------------------------------------------------------------
(* The inductive invariant *)

\* validateDAG has left its loop behind or is in it.
Worked == at \in {"loop", "order", "accepted"} \/ reason = "cycle"

\* What the earlier checks have established by then.
Vetted ==
  /\ at \in {"contract", "graph"} \/ Worked =>
       Cardinality(Named) = Len(source.ids)
  /\ Worked => \A id \in Named : DependsOn(id) \subseteq Named
  /\ reason = "cycle" => at = "rejected"
  /\ at # "rejected" => reason = "none"

\* The books of the loop; a popped lock has no entry left.
Books ==
  Worked =>
    /\ processed = Cardinality(popped)
    /\ popped \subseteq Named
    /\ \A id \in Named : indegree[id] = Entries(List(id), Named \ popped)
    /\ \A id \in Named :
         queue[id] = IF indegree[id] = 0 /\ id \notin popped THEN 1 ELSE 0
    /\ \A id \in popped : indegree[id] = 0

\* No lock of a cycle is ever popped.
CoresStay ==
  Worked => \A C \in SUBSET Named : Core(C) => C \cap popped = {}

\* The outcome of the loop.
Outcome ==
  /\ at \in {"order", "accepted"} => processed = Len(source.ids)
  /\ reason = "cycle" => processed # Len(source.ids) /\ Waiting = {}

GraphInv ==
  source \in Sources /\ Vetted /\ Books /\ CoresStay /\ Outcome

LEMMA SourceFacts ==
  ASSUME source \in Sources
  PROVE  /\ source.ids \in Seq(IDs)
         /\ \A id \in Named : List(id) \in Seq(IDs)
         /\ IsFiniteSet(Named)
<1>1. /\ source.ids \in Seq(IDs) /\ source.lists \in Seq(Seq(IDs))
      /\ Len(source.lists) = Len(source.ids)
  BY ParseAssumption DEF ParsedSource
<1>2. ASSUME NEW id \in Named PROVE List(id) \in Seq(IDs)
  <2>1. PositionOf(id) \in Declared
    BY DEF Named, PositionOf
  <2>. QED
    BY <1>1, <2>1 DEF List, Declared
<1>3. IsFiniteSet(Named)
  <2>1. IsFiniteSet(Declared)
    BY <1>1, FS_Interval DEF Declared
  <2>. DEFINE f == [k \in Declared |-> source.ids[k]]
  <2>2. f \in Surjection(Declared, Named)
    BY DEF Surjection, Named
  <2>. QED
    BY <2>1, <2>2, FS_Surjection
<1>. QED
  BY <1>1, <1>2, <1>3

LEMMA InitGraph == Init => GraphInv
BY DEF Init, GraphInv, Vetted, Books, CoresStay, Outcome, Worked

\* The steps before and after the loop.
LEMMA OtherSteps ==
  ASSUME GraphInv,
         \/ CheckSource \/ CheckContract \/ RefuseUndeclared
         \/ FinishGraph \/ CheckOrder \/ UNCHANGED vars
  PROVE  GraphInv'
<1>. USE DEF GraphInv, graph
<1>1. CASE CheckSource
  <2>1. /\ at' \in {"contract", "rejected"} /\ UNCHANGED <<source, graph>>
        /\ at' = "contract" => Cardinality(Named) = Len(source.ids) /\ reason' = reason
        /\ at' = "rejected" => reason' # "cycle"
    <3>1. CASE {k \in DOMAIN SourceChecks : Fails(SourceChecks[k])} = {}
      <4>1. 7 \in DOMAIN SourceChecks /\ SourceChecks[7] = "lock once"
        BY DEF SourceChecks
      <4>2. ~Fails("lock once")
        BY <3>1, <4>1
      <4>3. Cardinality(Named) = Len(source.ids)
        BY <4>2 DEF Fails
      <4>. QED
        BY <1>1, <3>1, <4>3 DEF CheckSource
    <3>2. CASE {k \in DOMAIN SourceChecks : Fails(SourceChecks[k])} # {}
      <4>1. PICK k \in DOMAIN SourceChecks :
              reason' = SourceChecks[k] /\ Fails(SourceChecks[k])
        BY <1>1, <3>2 DEF CheckSource
      <4>2. ~Fails("cycle")
        BY ParseAssumption DEF Fails, ParsedSource, OpaqueChecks
      <4>. QED
        BY <1>1, <3>2, <4>1, <4>2 DEF CheckSource
    <3>. QED
      BY <3>1, <3>2
  <2>2. ~Worked'
    BY <1>1, <2>1 DEF CheckSource, Worked, Vetted
  <2>. QED
    BY <1>1, <2>1, <2>2
       DEF CheckSource, Vetted, Books, CoresStay, Outcome, Worked, Named, Declared
<1>2. CASE CheckContract
  <2>1. ~Worked' /\ Cardinality(Named) = Len(source.ids) /\ UNCHANGED source
    BY <1>2 DEF CheckContract, Worked, Vetted
  <2>. QED
    BY <1>2, <2>1
       DEF CheckContract, Vetted, Books, CoresStay, Outcome, Worked, Named,
           Declared
<1>3. CASE RefuseUndeclared
  <2>1. ~Worked'
    BY <1>3 DEF RefuseUndeclared, Worked, Vetted
  <2>. QED
    BY <1>3, <2>1
       DEF RefuseUndeclared, Vetted, Books, CoresStay, Outcome, Worked
<1>4. CASE FinishGraph \/ CheckOrder \/ UNCHANGED vars
  <2>1. UNCHANGED <<source, graph>> /\ (Worked' => Worked)
    BY <1>4 DEF FinishGraph, CheckOrder, vars, Worked, Vetted
  <2>2. /\ Named' = Named /\ Waiting' = Waiting /\ Declared' = Declared
        /\ \A id : List(id)' = List(id) /\ DependsOn(id)' = DependsOn(id)
        /\ \A C : Core(C)' = Core(C)
    BY <2>1
       DEF Named, Declared, Waiting, List, PositionOf, DependsOn, Core
  <2>3. Books' /\ CoresStay'
    BY <2>1, <2>2 DEF Books, CoresStay
  <2>4. Vetted'
    BY <1>4, <2>1, <2>2
       DEF FinishGraph, CheckOrder, vars, Vetted, Worked
  <2>5. Outcome'
    BY <1>4, <2>1, <2>2
       DEF FinishGraph, CheckOrder, vars, Outcome, Complete, Drained, Vetted
  <2>. QED
    BY <2>1, <2>3, <2>4, <2>5
<1>. QED
  BY <1>1, <1>2, <1>3, <1>4

\* The books are opened: no lock is popped, each waits that lists nothing.
LEMMA BuildStep ==
  ASSUME GraphInv, BuildGraph
  PROVE  GraphInv'
<1>. USE DEF GraphInv, graph
<1>1. /\ UNCHANGED <<source, reason>> /\ at' = "loop" /\ at = "graph"
      /\ reason = "none"
  BY DEF BuildGraph, Vetted
<1>2. /\ Named' = Named /\ Declared' = Declared
      /\ \A id : List(id)' = List(id) /\ DependsOn(id)' = DependsOn(id)
      /\ \A C : Core(C)' = Core(C)
  BY <1>1 DEF Named, Declared, List, PositionOf, DependsOn, Core
<1>3. Vetted'
  BY <1>1, <1>2 DEF Vetted, Worked, BuildGraph
<1>4. \A id \in Named : Degree(id) = Entries(List(id), Named)
  BY SourceFacts, EntriesAll DEF BuildGraph, DependsOn, Degree
<1>5. Cardinality({}) = 0
  BY FS_EmptySet
<1>6. Books'
  BY <1>2, <1>4, <1>5 DEF BuildGraph, Books
<1>7. CoresStay' /\ Outcome'
  BY <1>1 DEF CoresStay, Outcome, BuildGraph
<1>. QED
  BY <1>1, <1>3, <1>6, <1>7

\* One turn of the loop keeps the books, and cannot touch a cycle: each of its
\* locks lists one that was not popped.
LEMMA PopStep ==
  ASSUME GraphInv, NEW id \in IDs, Pop(id)
  PROVE  GraphInv'
<1>. USE DEF GraphInv, graph
<1>1. /\ UNCHANGED <<source, at, reason>> /\ at = "loop" /\ reason = "none"
      /\ Worked /\ Worked' /\ id \in Named /\ queue[id] > 0
  BY DEF Pop, Vetted, Worked, Waiting
<1>2. /\ Named' = Named
      /\ \A c : List(c)' = List(c) /\ DependsOn(c)' = DependsOn(c)
      /\ \A C : Core(C)' = Core(C)
  BY <1>1 DEF Named, Declared, List, PositionOf, DependsOn, Core
<1>3. Vetted' /\ Outcome'
  BY <1>1, <1>2 DEF Vetted, Outcome, Worked
<1>4. id \notin popped /\ indegree[id] = 0
  BY <1>1 DEF Books
<1>. DEFINE k(c) == Entries(List(c), {id})
<1>5. ASSUME NEW c \in Named
      PROVE  /\ indegree[c] \in Nat /\ k(c) \in Nat /\ indegree'[c] \in Nat
             /\ indegree'[c] = indegree[c] - k(c)
             /\ indegree'[c] = Entries(List(c), Named \ popped')
             /\ queue'[c] = queue[c] - (IF c = id THEN 1 ELSE 0)
                              + (IF indegree[c] \in 1..k(c) THEN 1 ELSE 0)
  <2>1. List(c) \in Seq(IDs)
    BY SourceFacts
  <2>2. (Named \ popped) \ {id} = Named \ popped'
    BY DEF Pop
  <2>3. Entries(List(c), (Named \ popped) \ {id})
          = Entries(List(c), Named \ popped) - k(c)
    BY <1>1, <1>4, <2>1, EntriesRemove
  <2>4. indegree[c] = Entries(List(c), Named \ popped)
    BY <1>1 DEF Books
  <2>5. /\ Entries(List(c), Named \ popped) \in Nat /\ k(c) \in Nat
        /\ Entries(List(c), Named \ popped') \in Nat
    BY <2>1, EntriesFinite
  <2>6. /\ indegree'[c] = indegree[c] - k(c)
        /\ queue'[c] = queue[c] - (IF c = id THEN 1 ELSE 0)
                         + (IF indegree[c] \in 1..k(c) THEN 1 ELSE 0)
    BY DEF Pop, BecomesReady
  <2>. QED
    BY <2>2, <2>3, <2>4, <2>5, <2>6
<1>. HIDE DEF k
<1>6. popped' = popped \cup {id} /\ processed' = processed + 1
  BY DEF Pop
<1>7. processed' = Cardinality(popped')
  <2>1. IsFiniteSet(popped)
    BY <1>1, SourceFacts, FS_Subset DEF Books
  <2>. QED
    BY <1>1, <1>4, <1>6, <2>1, FS_AddElement DEF Books
<1>8. \A c \in popped' : indegree'[c] = 0
  BY <1>1, <1>4, <1>5, <1>6 DEF Books
<1>9. ASSUME NEW c \in Named
      PROVE  queue'[c] = IF indegree'[c] = 0 /\ c \notin popped' THEN 1 ELSE 0
  <2>1. queue[c] = IF indegree[c] = 0 /\ c \notin popped THEN 1 ELSE 0
    BY <1>1 DEF Books
  <2>2. c \in popped => indegree[c] = 0
    BY <1>1 DEF Books
  <2>3. CASE c = id
    <3>1. indegree[c] = 0 /\ queue[c] = 1 /\ c \in popped'
      BY <1>4, <1>6, <2>1, <2>3
    <3>2. queue'[c] = 0
      BY <1>5, <2>3, <3>1
    <3>. QED
      BY <3>1, <3>2
  <2>4. CASE c # id
    <3>1. c \in popped' <=> c \in popped
      BY <1>6, <2>4
    <3>2. CASE indegree[c] \in 1..k(c)
      <4>1. indegree'[c] = 0 /\ queue'[c] = 1 /\ c \notin popped
        BY <1>5, <2>1, <2>2, <2>4, <3>2
      <4>. QED
        BY <3>1, <4>1
    <3>3. CASE indegree[c] \notin 1..k(c)
      <4>1. indegree'[c] = 0 <=> indegree[c] = 0
        BY <1>5, <3>3
      <4>2. queue'[c] = queue[c]
        BY <1>5, <2>1, <2>4, <3>3
      <4>. QED
        BY <2>1, <3>1, <4>1, <4>2
    <3>. QED
      BY <3>2, <3>3
  <2>. QED
    BY <2>3, <2>4
<1>10. Books'
  <2>1. popped' \subseteq Named
    BY <1>1, <1>6 DEF Books
  <2>. QED
    BY <1>2, <1>5, <1>7, <1>8, <1>9, <2>1 DEF Books
<1>11. CoresStay'
  <2>1. SUFFICES ASSUME NEW C \in SUBSET Named, Core(C) PROVE C \cap popped' = {}
    BY <1>2 DEF CoresStay
  <2>2. C \cap popped = {}
    BY <1>1, <2>1 DEF CoresStay
  <2>3. ASSUME id \in C PROVE FALSE
    <3>1. PICK d \in C : d \in DependsOn(id)
      BY <2>1, <2>3 DEF Core
    <3>2. d \in Named \ popped
      BY <2>2
    <3>3. Entries(List(id), Named \ popped) = 0
      BY <1>1, <1>4 DEF Books
    <3>4. \A j \in DOMAIN List(id) : List(id)[j] \notin Named \ popped
      BY <1>1, <3>3, SourceFacts, EntriesNone
    <3>. QED
      BY <3>1, <3>2, <3>4 DEF DependsOn
  <2>. QED
    BY <1>6, <2>2, <2>3
<1>. QED
  BY <1>1, <1>3, <1>10, <1>11

LEMMA GraphInvariant == Spec => []GraphInv
<1>1. GraphInv /\ [Next]_vars => GraphInv'
  BY OtherSteps, BuildStep, PopStep DEF Next, Returned
<1>. QED
  BY InitGraph, <1>1, PTL DEF Spec

-----------------------------------------------------------------------------
(* The verdict *)

\* A source that validates has no set of locks that wait for one another.
THEOREM AcceptedCorrect == Spec => []AcceptedIsAcyclic
<1>1. GraphInv => AcceptedIsAcyclic
  <2>. SUFFICES ASSUME GraphInv, at = "accepted",
                       NEW C \in SUBSET Named, Core(C)
                PROVE  FALSE
    BY DEF AcceptedIsAcyclic
  <2>1. Worked /\ Cardinality(popped) = Cardinality(Named) /\ popped \subseteq Named
    BY DEF GraphInv, Vetted, Books, Outcome, Worked
  <2>2. popped = Named
    BY <2>1, SourceFacts, FS_Subset DEF GraphInv
  <2>3. C \cap popped = {}
    BY <2>1 DEF GraphInv, CoresStay
  <2>. QED
    BY <2>2, <2>3 DEF Core
<1>. QED
  BY <1>1, GraphInvariant, PTL

\* A source is refused for a cycle only if it has one: what is left in the
\* graph when the queue runs dry.
THEOREM CycleCorrect == Spec => []CycleIsReal
<1>1. GraphInv => CycleIsReal
  <2>. SUFFICES ASSUME GraphInv, reason = "cycle"
                PROVE  Core(Named \ popped)
    BY DEF CycleIsReal
  <2>1. Worked /\ popped # Named /\ popped \subseteq Named /\ Waiting = {}
    BY DEF GraphInv, Vetted, Books, Outcome, Worked
  <2>2. ASSUME NEW id \in Named \ popped
        PROVE  DependsOn(id) \cap (Named \ popped) # {}
    <3>1. indegree[id] # 0
      BY <2>1 DEF GraphInv, Books, Waiting
    <3>2. Entries(List(id), Named \ popped) # 0
      BY <2>1, <3>1 DEF GraphInv, Books
    <3>. QED
      BY <3>2, SourceFacts, EntriesNone DEF GraphInv, DependsOn
  <2>. QED
    BY <2>1, <2>2 DEF Core
<1>. QED
  BY <1>1, GraphInvariant, PTL

\* The degrees and the queue are what the lists and the popped locks say.
THEOREM BooksCorrect == Spec => []GraphBooks
<1>1. GraphInv => GraphBooks
  BY DEF GraphInv, Books, GraphBooks, Worked
<1>. QED
  BY <1>1, GraphInvariant, PTL

-----------------------------------------------------------------------------
(* Types *)

\* The loop never pops more locks than there are.
LoopTypes ==
  Worked =>
    /\ processed \in 0..Len(source.ids) /\ popped \subseteq Named
    /\ \A id \in Named : indegree[id] \in Nat /\ queue[id] \in {0, 1}

LEMMA LoopTyped == GraphInv => LoopTypes
<1>. SUFFICES ASSUME GraphInv, Worked
              PROVE  /\ processed \in 0..Len(source.ids) /\ popped \subseteq Named
                     /\ \A id \in Named :
                          indegree[id] \in Nat /\ queue[id] \in {0, 1}
  BY DEF LoopTypes
<1>1. /\ processed = Cardinality(popped) /\ popped \subseteq Named
      /\ Cardinality(Named) = Len(source.ids) /\ IsFiniteSet(Named)
  BY SourceFacts DEF GraphInv, Books, Vetted
<1>2. /\ Cardinality(popped) <= Cardinality(Named)
      /\ Cardinality(popped) \in Nat /\ Cardinality(Named) \in Nat
  BY <1>1, FS_Subset, FS_CardinalityType
<1>3. ASSUME NEW id \in Named PROVE indegree[id] \in Nat /\ queue[id] \in {0, 1}
  <2>1. Entries(List(id), Named \ popped) \in Nat
    BY SourceFacts, EntriesFinite DEF GraphInv
  <2>. QED
    BY <2>1 DEF GraphInv, Books
<1>. QED
  BY <1>1, <1>2, <1>3

\* Validate: every variable keeps its type, and where the loop is, no degree
\* falls below zero and no lock waits twice.
THEOREM ValidationTypes == Spec => []TypeOK
<1>1. Init => TypeOK
  <2>. SUFFICES ASSUME Init PROVE TypeOK
    OBVIOUS
  <2>1. source \in ParsedSource /\ Len(source.ids) \in Nat
    BY ParseAssumption DEF Init, ParsedSource
  <2>. QED
    BY <2>1 DEF Init, TypeOK
<1>2. TypeOK /\ LoopTypes' /\ [Next]_vars => TypeOK'
  <2>. SUFFICES ASSUME TypeOK, LoopTypes', [Next]_vars PROVE TypeOK'
    OBVIOUS
  <2>. USE DEF graph
  <2>1. CASE CheckSource
    <3>1. \/ at' = "contract" /\ reason' = reason
          \/ at' = "rejected" /\ reason' \in {SourceChecks[k] : k \in DOMAIN SourceChecks}
      BY <2>1 DEF CheckSource
    <3>. QED
      BY <2>1, <3>1 DEF CheckSource, TypeOK, Named, Declared
  <2>2. CASE \/ CheckContract \/ RefuseUndeclared \/ FinishGraph \/ CheckOrder
             \/ UNCHANGED vars
    <3>1. /\ UNCHANGED <<source, indegree, queue, processed, popped>>
          /\ at' \in {"graph", "order", "accepted", "rejected", at}
          /\ at' \in {"loop", "order", "accepted"} =>
               at \in {"loop", "order", "accepted"}
          /\ reason' \in {reason, "contract", "undeclared", "cycle", "unsorted"}
      BY <2>2 DEF CheckContract, RefuseUndeclared, FinishGraph, CheckOrder, vars
    <3>. QED
      BY <3>1 DEF TypeOK, Named, Declared
  <2>3. CASE BuildGraph \/ \E id \in IDs : Pop(id)
    <3>1. /\ source' = source /\ reason' = reason /\ at' = "loop"
          /\ \E f : indegree' = [id \in Named |-> f[id]]
          /\ \E f : queue' = [id \in Named |-> f[id]]
      <4>1. CASE BuildGraph
        BY <4>1 DEF BuildGraph
      <4>2. CASE \E id \in IDs : Pop(id)
        BY <4>2 DEF Pop
      <4>. QED
        BY <2>3, <4>1, <4>2
    <3>2. Named' = Named
      BY <3>1 DEF Named, Declared
    <3>3. Worked'
      BY <3>1 DEF Worked
    <3>4. /\ processed' \in 0..Len(source.ids) /\ popped' \subseteq Named
          /\ \A id \in Named : indegree'[id] \in Nat /\ queue'[id] \in {0, 1}
      <4>1. /\ processed' \in 0..Len(source'.ids) /\ popped' \subseteq Named'
            /\ \A id \in Named' : indegree'[id] \in Nat /\ queue'[id] \in {0, 1}
        BY <3>3 DEF LoopTypes
      <4>. QED
        BY <3>1, <3>2, <4>1
    <3>5. indegree' \in [Named -> Nat] /\ queue' \in [Named -> {0, 1}]
      BY <3>1, <3>4
    <3>. QED
      BY <3>1, <3>2, <3>4, <3>5 DEF TypeOK
  <2>. QED
    BY <2>1, <2>2, <2>3 DEF Next, Returned
<1>. QED
  BY <1>1, <1>2, LoopTyped, GraphInvariant, PTL DEF Spec

=============================================================================
