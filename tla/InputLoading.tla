---------------------------- MODULE InputLoading ----------------------------
(***************************************************************************)
(* What a command reads before it validates: ParseSourceBytes, LoadContract,*)
(* LoadFixture and LoadCasesFixture of internal/scheduler/source.go, in the *)
(* order of loadInputs and conformance in cmd/.../main.go.                 *)
(*                                                                         *)
(* A line of the source is its first word with its fields, each a key and  *)
(* a value; a field without "=" has the key "".  Every value, a name too,  *)
(* is the list of its parts between commas, so a number is a list of one   *)
(* part, and <<"">> is the empty string.  What follows " #" is cut off     *)
(* already, blank and comment lines have the word "#".                     *)
(***************************************************************************)
EXTENDS Integers, Sequences, FiniteSets

CONSTANTS
  Texts,         \* the sources considered, sequences of lines
  Fixtures,      \* the lock fixtures, sequences of records
  CaseFixtures,  \* the case fixtures, sequences of case IDs
  Counters,      \* the counters of an authority, nine in the code
  Atoi           \* the strings strconv.Atoi accepts, with their numbers

Text == Seq(STRING)

\* Whether a line fits the scanner's buffer; what is on one that does not, is
\* never seen.
Line   == [fits : BOOLEAN, word : STRING, fields : Seq([key : STRING, value : Text])]
Record ==
  [lock : Text, status : Nat, coordinate : BOOLEAN, digest : BOOLEAN,
   mode : STRING]

ASSUME InputAssumption ==
  /\ Texts \subseteq Seq(Line) /\ Fixtures \subseteq Seq(Record)
  /\ CaseFixtures \subseteq Seq(Text)
  /\ Atoi \in [DOMAIN Atoi -> Int] /\ "" \notin DOMAIN Atoi

VARIABLES
  text,      \* the lines of the source file
  command,   \* os.Args[1]
  at,        \* the loader at work, "loaded" or "failed"
  line,      \* how many lines have been scanned
  source,    \* the Source so far
  fixture,   \* the records of the fixture file
  cases      \* the cases of the case fixture file

vars == <<text, command, at, line, source, fixture, cases>>

Token(t) == [key |-> "", value |-> <<t>>]
Header   == <<Token("deterministic_proof_fetch_scheduler"), Token("v1")>>

NoAuthority == [c \in Counters |-> 0]

\* The zero Source.
NoSource ==
  [header |-> FALSE, authority |-> NoAuthority,
   guardrail |-> [forbidden |-> <<>>, refuted |-> FALSE, deletes |-> FALSE,
                  authority |-> NoAuthority],
   bound |-> 0, retry |-> [attempts |-> 0, backoff |-> 0, statuses |-> <<>>],
   canonical |-> <<>>, locks |-> <<>>, cases |-> <<>>]

-----------------------------------------------------------------------------
(* One line *)

\* parseKeyValues refuses a field without a key or without a value.
WellFormed(l) ==
  \A k \in DOMAIN l.fields : l.fields[k].key # "" /\ l.fields[k].value # <<"">>

\* Fault: the first value of a key stays.
FaultyValue(l, key) ==
  LET at_key == {k \in DOMAIN l.fields : l.fields[k].key = key}
  IN  IF at_key = {} THEN <<"">>
      ELSE l.fields[CHOOSE k \in at_key : \A j \in at_key : k <= j].value

\* values[key]: the last field of a key counts, an absent one is "".
Value(l, key) ==
  LET at_key == {k \in DOMAIN l.fields : l.fields[k].key = key}
  IN  IF at_key = {} THEN <<"">>
      ELSE l.fields[CHOOSE k \in at_key : \A j \in at_key : j <= k].value

Numeric(v) == Len(v) = 1 /\ v[1] \in DOMAIN Atoi

\* parseInt, of a value that is Numeric.
Number(l, key) == Atoi[Value(l, key)[1]]

SplitList(value) == SelectSeq(value, LAMBDA part : part \notin {"", "-"})

\* The numbers of a list whose parts strconv.Atoi accepts.
Numbers(list) == [k \in DOMAIN list |-> Atoi[list[k]]]

Statuses(l) == SplitList(Value(l, "retryable_statuses"))

\* The integers a declaration must have.
Required ==
  [authority |-> Counters, guardrail |-> Counters, concurrency |-> {"bound"},
   retry |-> {"max_attempts", "backoff_ms"}, canonical |-> {},
   lock |-> {"latency_ms"}, case |-> {"ordinal"}]

Skipped(l) == l.word = "#"

\* ParseSourceBytes goes on after the line.
Accepted(l) ==
  /\ l.fits
  /\ \/ Skipped(l)
     \/ l.word = "gooo" /\ l.fields = Header
     \/ /\ l.word \in DOMAIN Required
        /\ WellFormed(l)
        /\ \A key \in Required[l.word] : Numeric(Value(l, key))
        /\ l.word = "retry" =>
             \A k \in DOMAIN Statuses(l) : Statuses(l)[k] \in DOMAIN Atoi

Authority(l) == [c \in Counters |-> Number(l, c)]

\* The forbidden validations are the value's parts between bars, and stand here
\* as the value.
GuardrailOf(l) ==
  [forbidden |-> Value(l, "forbidden_local_validation"),
   refuted |-> Value(l, "operational_refuted") = <<"true">>,
   deletes |-> Value(l, "failure_deletes_forbidden") = <<"true">>,
   authority |-> Authority(l)]

RetryOf(l) ==
  [attempts |-> Number(l, "max_attempts"), backoff |-> Number(l, "backoff_ms"),
   statuses |-> Numbers(Statuses(l))]

LockOf(l) ==
  [id |-> Value(l, "id"), coordinate |-> Value(l, "coordinate"),
   digest |-> Value(l, "digest"), deps |-> SplitList(Value(l, "deps")),
   behavior |-> Value(l, "behavior"), latency |-> Number(l, "latency_ms")]

CaseOf(l) ==
  [id |-> Value(l, "id"), kind |-> Value(l, "kind"),
   expected |-> Value(l, "expected"), ordinal |-> Number(l, "ordinal")]

\* The source after an accepted line: a declaration replaces the one before,
\* a lock or case is appended.
Declare(s, l) ==
  CASE l.word = "#"           -> s
    [] l.word = "gooo"        -> [s EXCEPT !.header = TRUE]
    [] l.word = "authority"   -> [s EXCEPT !.authority = Authority(l)]
    [] l.word = "guardrail"   -> [s EXCEPT !.guardrail = GuardrailOf(l)]
    [] l.word = "concurrency" -> [s EXCEPT !.bound = Number(l, "bound")]
    [] l.word = "retry"       -> [s EXCEPT !.retry = RetryOf(l)]
    [] l.word = "canonical"   ->
         [s EXCEPT !.canonical = SplitList(Value(l, "order"))]
    [] l.word = "lock"        -> [s EXCEPT !.locks = Append(@, LockOf(l))]
    [] l.word = "case"        -> [s EXCEPT !.cases = Append(@, CaseOf(l))]

-----------------------------------------------------------------------------
(* The loaders *)

Init ==
  /\ text \in Texts
  /\ command \in {"compile", "integration", "conformance"}
  /\ at = "parse" /\ line = 0 /\ source = NoSource
  /\ fixture = <<>> /\ cases = <<>>

\* One line is scanned and means something.
ParseLine ==
  /\ at = "parse"
  /\ line < Len(text)
  /\ Accepted(text[line + 1])
  /\ line' = line + 1
  /\ source' = Declare(source, text[line + 1])
  /\ UNCHANGED <<text, command, at, fixture, cases>>

\* Fault: what was parsed before the bad line is kept.
FaultySourceOfError == source

\* return Source{}, err, of a line and of the scanner
SourceOfError == NoSource

RefuseLine ==
  /\ at = "parse"
  /\ line < Len(text)
  /\ ~Accepted(text[line + 1])
  /\ at' = "failed"
  /\ source' = SourceOfError
  /\ UNCHANGED <<text, command, line, fixture, cases>>

EndParse ==
  /\ at = "parse"
  /\ line = Len(text)
  /\ at' = "contract"
  /\ UNCHANGED <<text, command, line, source, fixture, cases>>

\* ParseSource fails before a line is scanned.
UnreadableSource ==
  /\ at = "parse" /\ line = 0
  /\ at' = "failed"
  /\ UNCHANGED <<text, command, line, source, fixture, cases>>

\* A file that cannot be read or decoded; a contract with unknown fields.
Unreadable ==
  /\ at \in {"contract", "fixture", "cases"}
  /\ at' = "failed"
  /\ UNCHANGED <<text, command, line, source, fixture, cases>>

LoadContract ==
  /\ at = "contract"
  /\ at' = "fixture"
  /\ UNCHANGED <<text, command, line, source, fixture, cases>>

IDs(list) == {list[k].id : k \in DOMAIN list}

\* locks[id], declared[id]: of entries with the same ID the last.
Named(list, id) ==
  list[CHOOSE k \in DOMAIN list :
         list[k].id = id /\ \A j \in DOMAIN list : list[j].id = id => j <= k]

\* Fault: a record may come twice.
FaultyUnseen(ids, k) == TRUE

\* !seen[id]
Unseen(ids, k) == \A j \in 1..(k - 1) : ids[j] # ids[k]

RecordComplete(r) ==
  /\ r.status = 200 => r.coordinate /\ r.digest
  /\ r.mode # "" /\ Named(source.locks, r.lock).behavior # <<"">>

FixtureAccepted(records) ==
  LET ids == [k \in DOMAIN records |-> records[k].lock]
  IN  /\ Len(records) = Len(source.locks)
      /\ \A k \in DOMAIN records :
           ids[k] \in IDs(source.locks) /\ Unseen(ids, k) /\ RecordComplete(records[k])

\* Only conformance reads the cases.
LoadFixture ==
  /\ at = "fixture"
  /\ fixture' \in Fixtures
  /\ at' = IF ~FixtureAccepted(fixture') THEN "failed"
           ELSE IF command = "conformance" THEN "cases" ELSE "loaded"
  /\ UNCHANGED <<text, command, line, source, cases>>

CasesAccepted(ids) ==
  /\ Len(ids) = Len(source.cases)
  /\ \A k \in DOMAIN ids :
       /\ ids[k] \in IDs(source.cases) /\ Unseen(ids, k)
       /\ Named(source.cases, ids[k]).expected # <<"">>

LoadCasesFixture ==
  /\ at = "cases"
  /\ cases' \in CaseFixtures
  /\ at' = IF CasesAccepted(cases') THEN "loaded" ELSE "failed"
  /\ UNCHANGED <<text, command, line, source, fixture>>

\* Validate, or the exit, is next.
Returned == at \in {"loaded", "failed"} /\ UNCHANGED vars

Next ==
  \/ UnreadableSource \/ ParseLine \/ RefuseLine \/ EndParse
  \/ Unreadable \/ LoadContract \/ LoadFixture \/ LoadCasesFixture \/ Returned

Spec == Init /\ [][Next]_vars

-----------------------------------------------------------------------------
(* Properties *)

AuthorityValue == [Counters -> Int]

\* The type of every variable; a source that is handed on is whole, one that is
\* refused empty.
TypeOK ==
  /\ text \in Texts /\ fixture \in Fixtures \cup {<<>>}
  /\ cases \in CaseFixtures \cup {<<>>}
  /\ command \in {"compile", "integration", "conformance"}
  /\ at \in {"parse", "contract", "fixture", "cases", "loaded", "failed"}
  /\ line \in 0..Len(text)
  /\ source.header \in BOOLEAN
  /\ {source.authority, source.guardrail.authority} \subseteq AuthorityValue
  /\ {source.bound, source.retry.attempts, source.retry.backoff} \subseteq Int
  /\ source # NoSource => at = "parse" \/ line = Len(text)

\* The lines read so far that have the word.
Lines(word) == {k \in 1..line : text[k].word = word}

\* What a line gives to a key: the value of its last field there, the empty
\* string if it has none.
Given(l, key) ==
  LET at_key == {i \in DOMAIN l.fields : l.fields[i].key = key}
  IN  IF at_key = {} THEN {<<"">>}
      ELSE {l.fields[i].value : i \in {i \in at_key : \A j \in at_key : j <= i}}

GivesNumber(l, key, number) ==
  \E digits \in DOMAIN Atoi : <<digits>> \in Given(l, key) /\ number = Atoi[digits]

GivesList(l, key, list) == \E value \in Given(l, key) : list = SplitList(value)

GivesFlag(l, key, flag) == flag <=> <<"true">> \in Given(l, key)

\* What a line says of an authority, a guardrail, ..., a case.
SaysAuthority(l, authority) == \A c \in Counters : GivesNumber(l, c, authority[c])

SaysGuardrail(l, guardrail) ==
  /\ guardrail.forbidden \in Given(l, "forbidden_local_validation")
  /\ GivesFlag(l, "operational_refuted", guardrail.refuted)
  /\ GivesFlag(l, "failure_deletes_forbidden", guardrail.deletes)
  /\ SaysAuthority(l, guardrail.authority)

SaysRetry(l, retry) ==
  /\ GivesNumber(l, "max_attempts", retry.attempts)
  /\ GivesNumber(l, "backoff_ms", retry.backoff)
  /\ \E value \in Given(l, "retryable_statuses") :
       retry.statuses = Numbers(SplitList(value))

SaysLock(l, lock) ==
  /\ lock.id \in Given(l, "id")
  /\ lock.coordinate \in Given(l, "coordinate")
  /\ lock.digest \in Given(l, "digest")
  /\ lock.behavior \in Given(l, "behavior")
  /\ GivesList(l, "deps", lock.deps)
  /\ GivesNumber(l, "latency_ms", lock.latency)

SaysCase(l, case) ==
  /\ case.id \in Given(l, "id")
  /\ case.kind \in Given(l, "kind")
  /\ case.expected \in Given(l, "expected")
  /\ GivesNumber(l, "ordinal", case.ordinal)

\* No line of the word comes after k, or there is none at all and k is 0.
Latest(k, word) ==
  /\ \A j \in Lines(word) : j <= k
  /\ k \in Lines(word) \/ k = 0

\* Of the lines of a word up to k, line k is the one with this number.
Rank(k) == Cardinality({j \in 1..k : text[j].word = text[k].word})

\* The part of the source a declaration is about is what the last line of its
\* word says, and zero as long as there is none.
LastAuthority ==
  \E k \in 0..line : /\ Latest(k, "authority")
    /\ IF k = 0 THEN source.authority = NoAuthority
       ELSE SaysAuthority(text[k], source.authority)

LastGuardrail ==
  \E k \in 0..line : /\ Latest(k, "guardrail")
    /\ IF k = 0 THEN source.guardrail = NoSource.guardrail
       ELSE SaysGuardrail(text[k], source.guardrail)

LastBound ==
  \E k \in 0..line : /\ Latest(k, "concurrency")
    /\ IF k = 0 THEN source.bound = 0 ELSE GivesNumber(text[k], "bound", source.bound)

LastRetry ==
  \E k \in 0..line : /\ Latest(k, "retry")
    /\ IF k = 0 THEN source.retry = NoSource.retry
       ELSE SaysRetry(text[k], source.retry)

LastCanonical ==
  \E k \in 0..line : /\ Latest(k, "canonical")
    /\ IF k = 0 THEN source.canonical = <<>>
       ELSE GivesList(text[k], "order", source.canonical)

\* The lock, and the case, of each line that declares one, in their order.
EveryLock ==
  /\ Len(source.locks) = Cardinality(Lines("lock"))
  /\ \A k \in Lines("lock") : SaysLock(text[k], source.locks[Rank(k)])

EveryCase ==
  /\ Len(source.cases) = Cardinality(Lines("case"))
  /\ \A k \in Lines("case") : SaysCase(text[k], source.cases[Rank(k)])

\* What is read of a text is what it says, in every field: of the authority, the
\* guardrail, the bound, the retry policy and the canonical order the last
\* declaration counts, in full and not merged with an earlier one, of a key of a
\* line its last value, and what is not declared is zero; every lock and every
\* case is there once, in the order of their lines; and nothing is read past a
\* line that means nothing.
LastWordCounts ==
  at # "failed" =>
    /\ \A k \in 1..line : Accepted(text[k])
    /\ at # "parse" => line = Len(text)
    /\ source.header <=> Lines("gooo") # {}
    /\ LastAuthority /\ LastGuardrail /\ LastBound /\ LastRetry /\ LastCanonical
    /\ EveryLock /\ EveryCase

\* The IDs of a file and those of the source's declarations name each other
\* one to one.
OneToOne(ids, list) ==
  \A k \in DOMAIN list :
    /\ \A j \in DOMAIN list : list[j].id = list[k].id => j = k
    /\ \E i \in DOMAIN ids : ids[i] = list[k].id

\* Every lock of a run has its one fixture record and every case of a
\* conformance its one fixture, so no lookup of run or EvaluateCanonicalCases
\* comes back empty; a lock or case declared twice never gets that far,
\* although the loaders compare counts and records only and run before Validate.
FixturesComplete ==
  at = "loaded" =>
    /\ OneToOne([k \in DOMAIN fixture |-> fixture[k].lock], source.locks)
    /\ command = "conformance" => OneToOne(cases, source.cases)

=============================================================================
