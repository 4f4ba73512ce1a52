------------------------- MODULE MCSourceValidation -------------------------
(***************************************************************************)
(* Sources of three locks: every dependency graph with lists of at most    *)
(* two entries, and every shape of order and IDs over one small graph.     *)
(***************************************************************************)
EXTENDS SourceValidation, SequencesExt

Lists == BoundedSeq(1..4, 2)

Plain ==
  [ids |-> <<1, 2, 3>>, lists |-> <<<<>>, <<1>>, <<1>>>>,
   canonical |-> <<1, 2, 3>>, bound |-> 8, attempts |-> 3,
   fixedLockCount |-> 3, runtimeAuthority |-> 0, fails |-> {}]

\* 4 is never declared.
EveryGraph == {[Plain EXCEPT !.lists = ls] : ls \in [1..3 -> Lists]}

EveryOrder ==
  {[Plain EXCEPT !.canonical = order] : order \in BoundedSeq(1..4, 4)}

\* Too few locks, for the contract or for the code, a lock declared twice, each limit and each opaque check.
EveryCheck ==
  {[Plain EXCEPT !.fixedLockCount = 2],
   [Plain EXCEPT !.ids = <<1, 2>>, !.lists = <<<<>>, <<1>>>>],
   [Plain EXCEPT !.ids = <<1, 2>>, !.lists = <<<<>>, <<1>>>>, !.fixedLockCount = 2],
   [Plain EXCEPT !.ids = <<1, 2, 2>>]}
  \cup {[Plain EXCEPT !.bound = b] : b \in {0, 1, 64, 65}}
  \cup {[Plain EXCEPT !.attempts = n] : n \in {0, 1, 3, 4}}
  \cup {[Plain EXCEPT !.fails = f, !.runtimeAuthority = n] :
           f \in SUBSET OpaqueChecks, n \in {0, 1}}

EverySource == EveryGraph \cup EveryOrder \cup EveryCheck

=============================================================================
