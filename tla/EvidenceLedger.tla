--------------------------- MODULE EvidenceLedger ---------------------------
(***************************************************************************)
(* What one run of the scheduler promises, whatever its concurrency and    *)
(* the order in which fetches complete: an append-only ledger with one     *)
(* piece of evidence per lock.  A lock is entered once, with evidence its  *)
(* declaration and its fixture record account for: in canonical order by   *)
(* the sequential mode, after every lock it depends on by the parallel     *)
(* one.  The ledger is emitted only when complete; a run that is refused   *)
(* has entered nothing.                                                    *)
(***************************************************************************)
EXTENDS ProofLock, Sequences

CONSTANTS
  Locks,  \* the declared lock IDs
  Order   \* the canonical order of the locks

VARIABLES
  fixture,  \* the profile of every lock; never changes during a run
  deps,     \* the locks that each lock depends on; never changes either
  mode,     \* "sequential" or "bounded-parallel"
  ledger,   \* the evidence entered so far
  phase     \* "open", "emitted" or "refused"

source     == <<fixture, deps, mode>>
ledgerVars == <<source, ledger, phase>>

Entered(l) == ledger[l] # ZeroEvidence

Before(l) ==
  {Order[i] : i \in {k \in DOMAIN Order :
                       \E j \in DOMAIN Order : k < j /\ Order[j] = l}}

Prerequisites(l) == IF mode = "sequential" THEN Before(l) ELSE deps[l]

-----------------------------------------------------------------------------

LedgerInit ==
  /\ ledger = [l \in Locks |-> ZeroEvidence]
  /\ phase = "open"

Enter(l) ==
  /\ phase = "open"
  /\ ~Entered(l)
  /\ \A p \in Prerequisites(l) : Entered(p)
  /\ \E e \in Admissible(fixture[l]) : ledger' = [ledger EXCEPT ![l] = e]
  /\ UNCHANGED <<source, phase>>

Emit ==
  /\ phase = "open"
  /\ \A l \in Locks : Entered(l)
  /\ phase' = "emitted"
  /\ UNCHANGED <<source, ledger>>

Refuse ==
  /\ phase = "open"
  /\ \A l \in Locks : ~Entered(l)
  /\ phase' = "refused"
  /\ UNCHANGED <<source, ledger>>

LedgerNext == (\E l \in Locks : Enter(l)) \/ Emit \/ Refuse

LedgerSpec == LedgerInit /\ [][LedgerNext]_ledgerVars

=============================================================================
