--------------------------- MODULE MCInputLoading ---------------------------
(***************************************************************************)
(* Sources of up to three lines over a pool that has every word, repeated  *)
(* keys, missing and malformed values, fields left out, a line that does   *)
(* not fit the buffer; locks and cases that differ in every field, and ones*)
(* declared twice.                                                         *)
(***************************************************************************)
EXTENDS InputLoading, SequencesExt, TLC

F(key, value) == [key |-> key, value |-> value]
L(word, fields) == [fits |-> TRUE, word |-> word, fields |-> fields]

Digits == ("0" :> 0) @@ ("1" :> 1) @@ ("2" :> 2)

LockLine(id, latency, more) ==
  L("lock", <<F("id", <<id>>), F("latency_ms", <<latency>>)>> \o more)
LockA == LockLine("a", "1", <<F("behavior", <<"success">>), F("coordinate", <<"c">>),
                              F("digest", <<"d">>), F("deps", <<"-">>)>>)
LockB == LockLine("b", "2", <<F("behavior", <<"retry">>), F("deps", <<"a">>)>>)

CaseLine(id, ordinal, more) ==
  L("case", <<F("id", <<id>>), F("ordinal", <<ordinal>>)>> \o more)
CaseX == CaseLine("x", "1", <<F("expected", <<"CLOSED">>), F("kind", <<"positive">>)>>)
CaseY == CaseLine("y", "2", <<F("expected", <<"REFUTED">>)>>)

Pushes(n) == F("automatic_push", <<n>>)

Pool ==
  {L("#", <<>>), [L("#", <<>>) EXCEPT !.fits = FALSE],
   L("gooo", Header), L("gooo", Tail(Header)),
   L("authority", <<Pushes("0")>>), L("authority", <<Pushes("0"), Pushes("1")>>),
   L("authority", <<>>),
   L("guardrail", <<Pushes("2"), F("operational_refuted", <<"true">>),
                    F("failure_deletes_forbidden", <<"yes">>),
                    F("forbidden_local_validation", <<"go test">>)>>),
   L("guardrail", <<Pushes("1"), F("operational_refuted", <<"no">>),
                    F("failure_deletes_forbidden", <<"true">>)>>),
   L("concurrency", <<F("bound", <<"1">>)>>),
   L("concurrency", <<F("bound", <<"1", "2">>)>>),
   L("retry", <<F("max_attempts", <<"2">>), F("backoff_ms", <<"1">>),
                F("retryable_statuses", <<"1", "", "2">>)>>),
   L("retry", <<F("max_attempts", <<"1">>), F("backoff_ms", <<"1">>),
                F("retryable_statuses", <<"x">>)>>),
   L("retry", <<F("max_attempts", <<"1">>), F("backoff_ms", <<"1">>)>>),
   L("canonical", <<F("order", <<"a", "b">>)>>), L("canonical", <<Token("order")>>),
   L("canonical", <<F("order", <<"b">>)>>),
   L("case", <<F("id", <<"x">>), F("ordinal", <<"">>)>>),
   L("locks", <<>>),
   LockA, LockB, LockLine("b", "1", <<>>), CaseX, CaseY, CaseLine("x", "2", <<>>)}

\* Two locks and two cases, of which a lock or a case may be declared twice.
TwoOfEach ==
  {<<LockA, lock, CaseX, case>> :
     lock \in {LockA, LockB}, case \in {CaseX, CaseY}}

ShortTexts == BoundedSeq(Pool, 2) \cup [1..3 -> {l \in Pool : Accepted(l)}] \cup TwoOfEach

OfLock(id) ==
  [lock |-> <<id>>, status |-> 200, coordinate |-> TRUE, digest |-> TRUE, mode |-> "json"]

Records ==
  {OfLock("a"), OfLock("b"), OfLock("c"), [OfLock("a") EXCEPT !.digest = FALSE],
   [OfLock("b") EXCEPT !.status = 404, !.coordinate = FALSE],
   [OfLock("b") EXCEPT !.mode = ""]}

RecordLists == BoundedSeq(Records, 2)
CaseLists   == BoundedSeq({<<"x">>, <<"y">>, <<"z">>}, 2)

=============================================================================
