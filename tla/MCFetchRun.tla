---------------------------- MODULE MCFetchRun ----------------------------
(* Instances of FetchRun for TLC. *)
EXTENDS FetchRun, TLC

CONSTANTS a, b, c, d

Sorted == <<a, b, c, d>>

\* One lock in front of two that run together, and one behind them.
Diamond == (a :> {}) @@ (b :> {a}) @@ (c :> {a}) @@ (d :> {b, c})

\* A wave of more locks than there are slots.
Fan == (a :> {}) @@ (b :> {a}) @@ (c :> {a}) @@ (d :> {a})

\* Free of cycles, but a lock sorts before one it depends on.
Backward == (a :> {}) @@ (b :> {c}) @@ (c :> {a}) @@ (d :> {})

FourLockGraphs == {Diamond, Fan, Backward}

Answers(behavior) ==
  [behavior |-> behavior, status |-> 200, coordinate |-> "declared",
   digest |-> "declared", deadline |-> "met"]

TimesOut    == [Answers("timeout") EXCEPT !.deadline = "missed"]
Mismatches  == [Answers("digest-mismatch") EXCEPT !.digest = "other"]
Races       == [Answers("success") EXCEPT !.deadline = "either"]
RateLimits  == [Answers("rate-limit") EXCEPT !.deadline = "either"]

Mixed   == (a :> Answers("success")) @@ (b :> TimesOut)
             @@ (c :> Answers("rate-limit")) @@ (d :> Mismatches)
Racing  == (a :> Answers("reused")) @@ (b :> RateLimits)
             @@ (c :> Answers("missing")) @@ (d :> Races)

FourLockFixtures == {Mixed, Racing}

\* Every profile of one lock, over the statuses the classification tells apart
\* and one it does not.
Alone == <<a>>
NoDependencies == {a :> {}}
Statuses == {0, 200, 300, 404, 408, 429, 500, 504}
Records ==
  [behavior : Behaviors, status : Statuses, coordinate : Fields,
   digest : Fields, deadline : Deadlines]
EveryFixture == {a :> p : p \in {q \in Records : q \in Profile}}
=============================================================================
