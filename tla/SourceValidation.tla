-------------------------- MODULE SourceValidation --------------------------
(***************************************************************************)
(* Validate of internal/scheduler/source.go with validateSource and        *)
(* validateDAG: the checks in their order, and the dependency graph worked *)
(* off from a queue of ready locks.  Lock IDs are integers, compared as    *)
(* the strings are; a lock is named by its position in the declaration     *)
(* where IDs may repeat, by its ID from there on.                          *)
(*                                                                         *)
(* The queue is sorted before every pop, so which IDs it holds, and how    *)
(* often, is all that matters of it: the iteration order of the indegree   *)
(* map never shows.                                                        *)
(***************************************************************************)
EXTENDS Integers, Sequences, FiniteSets

CONSTANTS
  IDs,              \* the names a source may use
  LockDenominator,  \* the fixed number of locks, 53 in the code
  Sources           \* the parsed sources considered

\* Checks on data that nothing else depends on: a source or its contract just
\* fails them or not.
OpaqueChecks == {"header", "case count", "complete", "authority", "guardrails",
                 "contract"}

\* What ParseSourceBytes and LoadContract hand over.
ParsedSource ==
  [ids       : Seq(IDs),       \* source.Locks[i].ID
   lists     : Seq(Seq(IDs)),  \* source.Locks[i].Dependencies
   canonical : Seq(IDs),       \* source.CanonicalOrder
   bound     : Int,
   attempts  : Int,
   fixedLockCount   : Int,      \* of the contract
   runtimeAuthority : Int,      \* the counters of Guardrail.RuntimeAuthority
   fails     : SUBSET OpaqueChecks]

ASSUME ParseAssumption ==
  /\ IDs \subseteq Int
  /\ LockDenominator \in Nat
  /\ Sources \subseteq {s \in ParsedSource : Len(s.lists) = Len(s.ids)}

VARIABLES
  source,     \* the source being validated
  at,         \* where Validate is
  reason,     \* the check the returned error names
  indegree,   \* indegree of validateDAG
  queue,      \* queue of validateDAG: how often it holds each ID
  processed,  \* processed of validateDAG
  popped      \* history: the IDs taken from the queue

graph == <<indegree, queue, processed, popped>>
vars  == <<source, at, reason, graph>>

Declared  == 1..Len(source.ids)
Named     == {source.ids[k] : k \in Declared}
Listed    == 1..Len(source.canonical)

\* locks[id].Dependencies, once the IDs are known to be distinct.
PositionOf(id) == CHOOSE k \in Declared : source.ids[k] = id
List(id)       == source.lists[PositionOf(id)]
DependsOn(id)  == {List(id)[k] : k \in DOMAIN List(id)}

\* How many entries of a list are in D.
Entries(list, D) == Cardinality({k \in DOMAIN list : list[k] \in D})

-----------------------------------------------------------------------------

Init ==
  /\ source \in Sources
  /\ at = "source" /\ reason = "none"
  /\ indegree = <<>> /\ queue = <<>> /\ processed = 0 /\ popped = {}

\* The checks of validateSource in their order.
SourceChecks ==
  <<"header", "lock count", "case count", "bound", "retry", "order length",
    "lock once", "complete", "order declared", "authority", "guardrails">>

Fails(check) ==
  CASE check = "lock count"     ->
         Len(source.ids) # source.fixedLockCount \/ Len(source.ids) # LockDenominator
    [] check = "bound"          -> source.bound \notin 1..64
    [] check = "retry"          -> source.attempts \notin 1..3
    [] check = "order length"   -> Len(source.canonical) # Len(source.ids)
    [] check = "lock once"      -> Cardinality(Named) # Len(source.ids)
    [] check = "order declared" -> \E k \in Listed : source.canonical[k] \notin Named
    [] OTHER                    -> check \in source.fails

\* The first check that fails decides what validateSource returns.
CheckSource ==
  /\ at = "source"
  /\ LET failing == {k \in DOMAIN SourceChecks : Fails(SourceChecks[k])}
     IN  IF failing = {}
         THEN at' = "contract" /\ UNCHANGED reason
         ELSE /\ at' = "rejected"
              /\ \E k \in failing :
                   /\ \A j \in failing : k <= j
                   /\ reason' = SourceChecks[k]
  /\ UNCHANGED <<source, graph>>

\* The contract's inventory, precedence and guardrails.
CheckContract ==
  /\ at = "contract"
  /\ IF Fails("contract")
     THEN at' = "rejected" /\ reason' = "contract"
     ELSE at' = "graph" /\ UNCHANGED reason
  /\ UNCHANGED <<source, graph>>

RefuseUndeclared ==
  /\ at = "graph"
  /\ \E id \in Named : ~(DependsOn(id) \subseteq Named)
  /\ at' = "rejected" /\ reason' = "undeclared"
  /\ UNCHANGED <<source, graph>>

\* Fault: a dependency listed twice is counted once.
FaultyDegree(id) == Cardinality(DependsOn(id))

\* len(lock.Dependencies)
Degree(id) == Len(List(id))

\* The maps of validateDAG and the queue of the locks without dependencies.
BuildGraph ==
  /\ at = "graph"
  /\ \A id \in Named : DependsOn(id) \subseteq Named
  /\ indegree' = [id \in Named |-> Degree(id)]
  /\ queue' = [id \in Named |-> IF Degree(id) = 0 THEN 1 ELSE 0]
  /\ processed' = 0 /\ popped' = {}
  /\ at' = "loop"
  /\ UNCHANGED <<source, reason>>

Waiting == {id \in Named : queue[id] > 0}

\* Fault: a child is recognised only while one entry is left to take off.
FaultyBecomesReady(child, id) == id \in DependsOn(child) /\ indegree[child] = 1

\* indegree[child] passes zero while its entries for id are taken off.
BecomesReady(child, id) ==
  indegree[child] \in 1..Entries(List(child), {id})

\* One turn of the loop: the smallest waiting ID leaves, each of its entries in
\* the children's lists is taken off.
Pop(id) ==
  /\ at = "loop"
  /\ id \in Waiting
  /\ \A other \in Waiting : id <= other
  /\ indegree' = [child \in Named |->
                    indegree[child] - Entries(List(child), {id})]
  /\ queue' = [child \in Named |->
                 queue[child] - (IF child = id THEN 1 ELSE 0)
                              + (IF BecomesReady(child, id) THEN 1 ELSE 0)]
  /\ processed' = processed + 1
  /\ popped' = popped \cup {id}
  /\ UNCHANGED <<source, at, reason>>

\* Fault: the loop runs until every lock is processed.
FaultyDrained == processed = Len(source.ids)

\* for len(queue) > 0
Drained == Waiting = {}

\* Fault: nothing is compared after the loop.
FaultyComplete == TRUE

\* processed != len(source.Locks)
Complete == processed = Len(source.ids)

FinishGraph ==
  /\ at = "loop"
  /\ Drained
  /\ IF Complete
     THEN at' = "order" /\ UNCHANGED reason
     ELSE at' = "rejected" /\ reason' = "cycle"
  /\ UNCHANGED <<source, graph>>

\* A sequence equals its sorted copy exactly when it never decreases.
CheckOrder ==
  /\ at = "order"
  /\ IF \A j, k \in Listed : j < k => source.canonical[j] <= source.canonical[k]
     THEN at' = "accepted" /\ UNCHANGED reason
     ELSE at' = "rejected" /\ reason' = "unsorted"
  /\ UNCHANGED <<source, graph>>

\* Validate has returned.
Returned == at \in {"accepted", "rejected"} /\ UNCHANGED vars

Next ==
  \/ CheckSource \/ CheckContract
  \/ RefuseUndeclared \/ BuildGraph \/ (\E id \in IDs : Pop(id)) \/ FinishGraph
  \/ CheckOrder \/ Returned

\* Validate is a call of the only goroutine: it goes on until it returns.
Spec == Init /\ [][Next]_vars /\ WF_vars(Next)

-----------------------------------------------------------------------------
(* Properties *)

\* The type of every variable.
TypeOK ==
  /\ source \in ParsedSource
  /\ at \in {"source", "contract", "graph", "loop", "order",
             "accepted", "rejected"}
  /\ reason \in {"none", "undeclared", "cycle", "unsorted", "contract"}
                  \cup {SourceChecks[k] : k \in DOMAIN SourceChecks}
  /\ processed \in 0..Len(source.ids) /\ popped \subseteq Named
  /\ at \in {"loop", "order", "accepted"} =>
       indegree \in [Named -> Nat] /\ queue \in [Named -> {0, 1}]

\* The locks of C depend on one another for ever.
Core(C) == C # {} /\ \A id \in C : DependsOn(id) \cap C # {}

\* run terminates on what Validate accepts because no set of locks waits for
\* itself.
AcceptedIsAcyclic ==
  at = "accepted" => \A C \in SUBSET Named : ~Core(C)

\* "proof lock graph contains a cycle" is never said of a graph without one,
\* whatever the lists repeat.
CycleIsReal ==
  reason = "cycle" => \E C \in SUBSET Named : Core(C)

\* The loop's books: the degree of a lock is the number of entries of its list
\* still to be popped, a lock waits exactly when it has none left and was not
\* popped, and it waits once.
GraphBooks ==
  at \in {"loop", "order", "accepted"} =>
    /\ processed = Cardinality(popped)
    /\ \A id \in Named :
         /\ indegree[id] = Entries(List(id), Named \ popped)
         /\ queue[id] = IF indegree[id] = 0 /\ id \notin popped THEN 1 ELSE 0

\* Validate returns on every source.
ValidateReturns == <>(at \in {"accepted", "rejected"})

\* output.go:228: "All semantic and runtime authority counters are zero", as the
\* human report of every accepted source says.
AuthorityIsZero ==
  at = "accepted" =>
    "authority" \notin source.fails /\ source.runtimeAuthority = 0

\* model.go:353: "canonical order must contain every lock exactly once".
OrderHasEveryLock ==
  at = "accepted" =>
    \A id \in Named : Cardinality({k \in Listed : source.canonical[k] = id}) = 1

=============================================================================
