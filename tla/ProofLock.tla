----------------------------- MODULE ProofLock -----------------------------
(***************************************************************************)
(* The data of one proof lock and the pure part of fetchLock: what the     *)
(* fixture server answers for a lock, and what evidence an answer becomes. *)
(*                                                                         *)
(* A lock is described by its profile: the behavior declared in the .gooo  *)
(* source, the fixture record behind it, and how the answer races the      *)
(* client's 60 ms deadline.  Coordinates and digests are compared only     *)
(* with the declared ones, so a profile says whether the observed value is *)
(* the declared one, another one, or empty.                                *)
(***************************************************************************)
EXTENDS Integers

CONSTANTS
  MaxAttempts,        \* retry max_attempts of the source, 1..3 after validation
  RetryableStatuses   \* retry retryable_statuses of the source

ASSUME RetryAssumption ==
  /\ MaxAttempts \in Nat \ {0}
  /\ RetryableStatuses \subseteq Int

-----------------------------------------------------------------------------
(* Profiles *)

ServedBehaviors ==
  {"success", "digest-mismatch", "coordinate-contradiction"}

Behaviors ==
  ServedBehaviors \cup
  {"reused", "missing", "timeout", "rate-limit", "ambiguous", "undefined"}

\* Status 0 stands for every value WriteHeader rejects: the handler panics and
\* the connection is dropped without an answer.  Informational statuses (1xx)
\* are outside the model.
HTTPStatuses == {0} \cup 200..999

Fields == {"declared", "other", "empty"}

\* "met":    the answer always arrives before the client's deadline
\* "missed": it never does
\* "either": the two race
Deadlines == {"met", "missed", "either"}

\* The handler of a timeout lock sleeps past the deadline, so the answer is
\* never sure to win.
Profile ==
  {p \in [behavior : Behaviors, status : HTTPStatuses,
          coordinate : Fields, digest : Fields, deadline : Deadlines] :
     p.behavior = "timeout" => p.deadline # "met"}

\* The status the fixture server's handler writes.
ReplyStatus(p) ==
  CASE p.behavior = "missing"                    -> 404
    [] p.behavior = "timeout"                    -> 504
    [] p.behavior = "rate-limit"                 -> 429
    [] p.behavior = "ambiguous"                  -> 300
    [] p.behavior \in ServedBehaviors \cup {"reused"} -> p.status
    [] OTHER                                     -> 500

Dropped(p)    == ReplyStatus(p) = 0
CanFail(p)    == Dropped(p) \/ p.deadline # "met"
CanAnswer(p)  == ~Dropped(p) /\ p.deadline # "missed"

-----------------------------------------------------------------------------
(* Evidence *)

None == "none"

UnknownReasons ==
  {"HTTP_TIMEOUT", "HTTP_BODY_READ_FAILED", "HTTP_BODY_AMBIGUOUS",
   "HTTP_404_MISSING", "HTTP_429_RATE_LIMIT", "HTTP_3XX_AMBIGUOUS",
   "HTTP_STATUS_UNKNOWN"}

Counterexamples == {"COORDINATE_CONTRADICTION", "KNOWN_DIGEST_MISMATCH"}

\* The reason selects the other five fields of the UNKNOWN tuple, and Attempts
\* and RequestCount are always equal, so one field stands for each group.
Evidence ==
  [status : {"CLOSED", "UNKNOWN", "REFUTED"},
   digest : {"declared", "other", None},
   attempts : 0..MaxAttempts,
   reused : BOOLEAN,
   unknown : UnknownReasons \cup {None},
   counterexample : Counterexamples \cup {None}]

\* The zero LockEvidence of a slot nothing has been written to.
ZeroEvidence ==
  [status |-> "", digest |-> None, attempts |-> 0, reused |-> FALSE,
   unknown |-> None, counterexample |-> None]

ReusedEvidence ==
  [status |-> "CLOSED", digest |-> "declared", attempts |-> 0,
   reused |-> TRUE, unknown |-> None, counterexample |-> None]

ClosedEvidence(n) ==
  [status |-> "CLOSED", digest |-> "declared", attempts |-> n,
   reused |-> FALSE, unknown |-> None, counterexample |-> None]

UnknownEvidence(reason, n) ==
  [status |-> "UNKNOWN", digest |-> None, attempts |-> n,
   reused |-> FALSE, unknown |-> reason, counterexample |-> None]

RefutedEvidence(kind, observed, n) ==
  [status |-> "REFUTED", digest |-> observed, attempts |-> n,
   reused |-> FALSE, unknown |-> None, counterexample |-> kind]

-----------------------------------------------------------------------------
(* Classification of an answer *)

IsRetryable(status) == status \in RetryableStatuses

\* unknownForStatus: the reason recorded for a status other than 200.
ReasonForStatus(status) ==
  CASE status = 404        -> "HTTP_404_MISSING"
    [] status \in {408, 504} -> "HTTP_TIMEOUT"
    [] status = 429        -> "HTTP_429_RATE_LIMIT"
    [] status = 300        -> "HTTP_3XX_AMBIGUOUS"
    [] OTHER               -> "HTTP_STATUS_UNKNOWN"

\* Fault: an empty coordinate is taken for a contradiction.
FaultyBodyEvidence(p, n) ==
  CASE p.digest = "empty" -> UnknownEvidence("HTTP_BODY_AMBIGUOUS", n)
    [] p.coordinate # "declared" /\ p.digest # "empty" ->
         RefutedEvidence("COORDINATE_CONTRADICTION", p.digest, n)
    [] p.coordinate = "declared" /\ p.digest = "other" ->
         RefutedEvidence("KNOWN_DIGEST_MISMATCH", p.digest, n)
    [] OTHER -> ClosedEvidence(n)

\* The evidence of a 200 answer whose body was read at attempt n.
BodyEvidence(p, n) ==
  CASE p.coordinate = "empty" \/ p.digest = "empty" ->
         UnknownEvidence("HTTP_BODY_AMBIGUOUS", n)
    [] p.coordinate = "other" /\ p.digest # "empty" ->
         RefutedEvidence("COORDINATE_CONTRADICTION", p.digest, n)
    [] p.coordinate = "declared" /\ p.digest = "other" ->
         RefutedEvidence("KNOWN_DIGEST_MISMATCH", p.digest, n)
    [] OTHER -> ClosedEvidence(n)

\* The evidence an answer ends the fetch with.
AnswerEvidence(p, n) ==
  IF ReplyStatus(p) = 200
    THEN BodyEvidence(p, n)
    ELSE UnknownEvidence(ReasonForStatus(ReplyStatus(p)), n)

-----------------------------------------------------------------------------
(* What a whole fetch may end with *)

\* The attempts after which a fetch may end with an answer: a retryable answer
\* ends it only at the last attempt, any other at the first attempt that is
\* answered, which is not the first attempt only if requests can fail.
AnswerAttempts(p) ==
  IF IsRetryable(ReplyStatus(p)) /\ ReplyStatus(p) # 200
    THEN {MaxAttempts}
    ELSE IF CanFail(p) THEN 1..MaxAttempts ELSE {1}

\* The evidence a profile accounts for.
Admissible(p) ==
  IF p.behavior = "reused"
    THEN {ReusedEvidence}
    ELSE UNION {
      {UnknownEvidence("HTTP_TIMEOUT", n) :
         n \in {m \in {MaxAttempts} : CanFail(p)}},
      {AnswerEvidence(p, n) : n \in {m \in AnswerAttempts(p) : CanAnswer(p)}},
      {UnknownEvidence("HTTP_BODY_READ_FAILED", n) :
         n \in {m \in 1..MaxAttempts :
                  p.deadline = "either" /\ ReplyStatus(p) = 200}}}

\* The profiles whose evidence no timing can change.
Determinate(p) ==
  p.behavior = "reused" \/ Dropped(p) \/ p.deadline # "either"

=============================================================================
