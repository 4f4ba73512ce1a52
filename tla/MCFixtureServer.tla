-------------------------- MODULE MCFixtureServer --------------------------
(***************************************************************************)
(* Three locks on two slots; a tick is 20 ms.  With the deadline at three  *)
(* ticks and a slack of one, a latency of one tick meets it, three race it *)
(* and a timeout lock with a latency of one misses it.                     *)
(***************************************************************************)
EXTENDS FixtureServer

Lock(behavior, latency) ==
  [behavior |-> behavior, status |-> 200, coordinate |-> "declared",
   digest |-> "declared", latency |-> latency]

ThreeLocks ==
  {<<Lock("timeout", 1), Lock("success", 3), Lock("success", 1)>>,
   <<Lock("reused", 1), Lock("timeout", 0), Lock("rate-limit", 2)>>,
   <<Lock("timeout", 1), Lock("timeout", 1), Lock("timeout", 1)>>}
=============================================================================
