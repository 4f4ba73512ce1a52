---------------------------- MODULE MCCommands ----------------------------
(***************************************************************************)
(* Two locks of every kind and three canonical cases.  The comparison is   *)
(* driven with both locks racing their deadlines, the whole conformance    *)
(* with one of them.                                                       *)
(***************************************************************************)
EXTENDS Commands

Answers(behavior) ==
  [behavior |-> behavior, status |-> 200, coordinate |-> "declared",
   digest |-> "declared", deadline |-> "met"]

Steady ==
  {Answers("success"), Answers("reused"),
   [Answers("digest-mismatch") EXCEPT !.digest = "other"],
   [Answers("timeout") EXCEPT !.deadline = "missed"]}

Racing ==
  {[Answers("success") EXCEPT !.deadline = "either"],
   [Answers("timeout") EXCEPT !.deadline = "either"],
   [Answers("rate-limit") EXCEPT !.deadline = "either"],
   [Answers("coordinate-contradiction") EXCEPT !.coordinate = "other",
                                               !.deadline = "either"]}

ClosedCase  == [expected |-> "CLOSED", kind |-> "exact", answered |-> TRUE,
                coordinateExact |-> TRUE, digestExact |-> TRUE]
UnknownCase == [ClosedCase EXCEPT !.expected = "UNKNOWN", !.kind = "timeout",
                                  !.answered = FALSE]
RefutedCase == [ClosedCase EXCEPT !.expected = "REFUTED", !.digestExact = FALSE]

OneOfEach == <<ClosedCase, UnknownCase, RefutedCase>>

\* One case of each status, a wrong expectation, two of a kind.
CaseLists ==
  {OneOfEach,
   <<ClosedCase, UnknownCase, [RefutedCase EXCEPT !.expected = "CLOSED"]>>,
   <<ClosedCase, ClosedCase, [RefutedCase EXCEPT !.kind = "race-divergence"]>>}

Pairs == [1..2 -> Steady \cup Racing]

EveryInvocation ==
  [command : {"compile"}, fixture : {<<Answers("success"), Answers("success")>>},
   cases : {OneOfEach}, ordered : BOOLEAN]
  \cup
  [command : {"integration"}, fixture : Pairs, cases : {OneOfEach},
   ordered : BOOLEAN]
  \cup
  [command : {"conformance"}, cases : CaseLists, ordered : BOOLEAN,
   fixture : {f \in Pairs : f[1] \in Steady \/ f[2] \in Steady}]

=============================================================================
