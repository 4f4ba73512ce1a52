------------------------- MODULE InputLoading_proofs -------------------------
(***************************************************************************)
(* Proofs about InputLoading for every text, fixture and case list its     *)
(* assumptions admit: what has been read of a source says what its lines   *)
(* say, and what is loaded is complete.                                    *)
(***************************************************************************)
EXTENDS InputLoading, FiniteSetTheorems, TLAPS

(* The last of finitely many numbers *)

LEMMA GreatestExists ==
  ASSUME NEW S, IsFiniteSet(S), S \subseteq Nat, S # {}
  PROVE  \E m \in S : \A s \in S : s <= m
<1>. DEFINE Above(k) == {s \in S : k < s}
            T == {Above(k) : k \in S}
<1>1. \A k \in S : Above(k) \in SUBSET S
  OBVIOUS
<1>2. \A k \in S : IsFiniteSet(Above(k)) /\ Above(k) \subseteq Nat
  BY <1>1, FS_Subset
<1>3. T \subseteq FiniteSubsetsOf(Nat) /\ T # {}
  BY <1>2 DEF FiniteSubsetsOf
<1>4. PICK u \in T : \A t \in T : ~(<<t, u>> \in StrictSubsetOrdering(Nat))
  <2>. HIDE DEF T
  <2>. QED
    BY <1>3, FS_StrictSubsetOrderingWellFounded, WFMin
<1>5. PICK m \in S : u = Above(m)
  OBVIOUS
<1>6. ASSUME NEW s \in S, m < s PROVE FALSE
  <2>1. Above(s) \in T /\ Above(s) \in SUBSET Nat /\ Above(m) \in SUBSET Nat
    BY <1>2
  <2>2. /\ \A k \in S : s < k => m < k
        /\ ~(s < s)
    BY <1>6
  <2>3. Above(s) \subseteq Above(m) /\ s \in Above(m) /\ s \notin Above(s)
    BY <1>6, <2>2
  <2>. QED
    BY <1>4, <1>5, <2>1, <2>3, Zenon DEF StrictSubsetOrdering
<1>. QED
  BY <1>6

-----------------------------------------------------------------------------
(* One line *)

Field == [key : STRING, value : Text]

\* values[key] is what the line gives to the key.
LEMMA ValueGiven ==
  ASSUME NEW l \in Line, NEW key
  PROVE  Value(l, key) \in Given(l, key)
<1>. DEFINE S == {k \in DOMAIN l.fields : l.fields[k].key = key}
<1>1. l.fields \in Seq(Field)
  BY DEF Line, Field
<1>2. DOMAIN l.fields = 1..Len(l.fields) /\ Len(l.fields) \in Nat
  BY <1>1
<1>3. IsFiniteSet(S) /\ S \subseteq Nat
  <2>1. IsFiniteSet(DOMAIN l.fields) /\ DOMAIN l.fields \subseteq Nat
    BY <1>2, FS_Interval
  <2>2. S \in SUBSET DOMAIN l.fields
    OBVIOUS
  <2>. QED
    BY <2>1, <2>2, FS_Subset
<1>4. CASE S = {}
  <2>1. Value(l, key) = <<"">>
    BY <1>4 DEF Value
  <2>2. Given(l, key) = {<<"">>}
    BY <1>4 DEF Given
  <2>. QED
    BY <2>1, <2>2
<1>5. CASE S # {}
  <2>. DEFINE i == CHOOSE k \in S : \A j \in S : j <= k
  <2>1. i \in S /\ \A j \in S : j <= i
    <3>1. \E k \in S : \A j \in S : j <= k
      <4>. HIDE DEF S
      <4>. QED
        BY <1>3, <1>5, GreatestExists
    <3>. QED
      BY <3>1
  <2>2. Value(l, key) = l.fields[i].value
    BY <1>5 DEF Value
  <2>3. Given(l, key) = {l.fields[k].value : k \in {k \in S : \A j \in S : j <= k}}
    BY <1>5 DEF Given
  <2>4. i \in {k \in S : \A j \in S : j <= k}
    BY <2>1
  <2>. HIDE DEF i, S
  <2>. QED
    BY <2>2, <2>3, <2>4
<1>. QED
  BY <1>4, <1>5

\* A line gives a key no more than one value.
LEMMA GivenOnce ==
  ASSUME NEW l \in Line, NEW key, NEW u \in Given(l, key), NEW v \in Given(l, key)
  PROVE  u = v
<1>. DEFINE S == {k \in DOMAIN l.fields : l.fields[k].key = key}
<1>1. l.fields \in Seq(Field)
  BY DEF Line, Field
<1>2. S \subseteq Nat
  BY <1>1
<1>3. CASE S = {}
  BY <1>3 DEF Given
<1>4. CASE S # {}
  <2>1. PICK i \in S, k \in S :
          /\ u = l.fields[i].value /\ \A j \in S : j <= i
          /\ v = l.fields[k].value /\ \A j \in S : j <= k
    BY <1>4 DEF Given
  <2>2. i = k
    <3>. HIDE DEF S
    <3>. QED
      BY <1>2, <2>1
  <2>. QED
    BY <2>1, <2>2
<1>. QED
  BY <1>3, <1>4

\* A declaration that is accepted has the numbers it must have.
LEMMA NumberGiven ==
  ASSUME NEW l \in Line, Accepted(l), l.word \in DOMAIN Required,
         NEW key \in Required[l.word]
  PROVE  Number(l, key) \in Int /\ GivesNumber(l, key, Number(l, key))
<1>1. l.word \notin {"#", "gooo"}
  BY DEF Required
<1>2. Numeric(Value(l, key))
  BY <1>1 DEF Accepted, Skipped
<1>3. Number(l, key) \in Int
  BY <1>2, InputAssumption DEF Numeric, Number
<1>4. Value(l, key) = <<Value(l, key)[1]>>
  <2>. DEFINE S == {i \in DOMAIN l.fields : l.fields[i].key = key}
  <2>1. CASE S = {}
    <3>1. Value(l, key) = <<"">>
      BY <2>1 DEF Value
    <3>2. <<"">>[1] = ""
      OBVIOUS
    <3>. QED
      BY <3>1, <3>2, Zenon
  <2>2. CASE S # {}
    <3>1. PICK i \in S : Value(l, key) = l.fields[i].value
      <4>1. Given(l, key) = {l.fields[k].value : k \in {k \in S : \A j \in S : j <= k}}
        BY <2>2 DEF Given
      <4>2. Value(l, key) \in Given(l, key)
        BY ValueGiven
      <4>. HIDE DEF S
      <4>. QED
        BY <4>1, <4>2
    <3>2. l.fields \in Seq(Field)
      BY DEF Line, Field
    <3>3. l.fields[i] \in Field
      BY <3>2
    <3>4. Value(l, key) \in Text
      BY <3>1, <3>3 DEF Field
    <3>. QED
      BY <1>2, <3>4 DEF Numeric, Text
  <2>. QED
    BY <2>1, <2>2
<1>5. Value(l, key)[1] \in DOMAIN Atoi
  BY <1>2 DEF Numeric
<1>. QED
  BY <1>3, <1>4, <1>5, ValueGiven DEF GivesNumber, Number

LEMMA RequiredNumbers ==
  /\ DOMAIN Required = {"authority", "guardrail", "concurrency", "retry",
                        "canonical", "lock", "case"}
  /\ Required["authority"] = Counters /\ Required["guardrail"] = Counters
  /\ Required["concurrency"] = {"bound"}
  /\ Required["retry"] = {"max_attempts", "backoff_ms"}
  /\ Required["lock"] = {"latency_ms"} /\ Required["case"] = {"ordinal"}
BY DEF Required

-----------------------------------------------------------------------------
(* The source *)

\* The values, and the lists of them, that a source can have.
Lists ==
  {<<>>} \cup {SplitList(Value(l, key)) : l \in Line, key \in {"order", "deps"}}
Values ==
  {<<>>} \cup
  {Value(l, key) : l \in Line,
                   key \in {"id", "behavior", "coordinate", "digest", "kind",
                            "expected", "forbidden_local_validation"}}
StatusLists == {<<>>} \cup {Numbers(Statuses(l)) : l \in Line}

GuardrailValue ==
  [forbidden : Values, refuted : BOOLEAN, deletes : BOOLEAN, authority : AuthorityValue]
RetryValue     == [attempts : Int, backoff : Int, statuses : StatusLists]
LockEntry      ==
  [id : Values, coordinate : Values, digest : Values, deps : Lists,
   behavior : Values, latency : Int]
CaseEntry      == [id : Values, kind : Values, expected : Values, ordinal : Int]

SourceType ==
  [header : BOOLEAN, authority : AuthorityValue, guardrail : GuardrailValue,
   bound : Int, retry : RetryValue, canonical : Lists,
   locks : Seq(LockEntry), cases : Seq(CaseEntry)]

LEMMA NoSourceType == NoSource \in SourceType
<1>1. NoAuthority \in AuthorityValue
  BY DEF NoAuthority, AuthorityValue
<1>. QED
  BY <1>1 DEF NoSource, SourceType, GuardrailValue, RetryValue, Lists, Values,
              StatusLists

\* Each part of the source has its type after a line that is accepted, and only
\* the part the line is about has changed.
LEMMA DeclareType ==
  ASSUME NEW s \in SourceType, NEW l \in Line, Accepted(l)
  PROVE  /\ Declare(s, l) \in SourceType
         /\ l.word = "#" \/ l.word = "gooo" \/ l.word \in DOMAIN Required
<1>. DEFINE t == Declare(s, l)
<1>1. l.word = "#" \/ l.word = "gooo" \/ l.word \in DOMAIN Required
  BY DEF Accepted, Skipped
<1>2. /\ SplitList(Value(l, "order")) \in Lists /\ SplitList(Value(l, "deps")) \in Lists
      /\ \A key \in {"id", "behavior", "coordinate", "digest", "kind",
                     "expected", "forbidden_local_validation"} :
           Value(l, key) \in Values
      /\ Numbers(Statuses(l)) \in StatusLists
  BY DEF Lists, Values, StatusLists
<1>3. CASE l.word \in {"authority", "guardrail"}
  <2>1. Authority(l) \in AuthorityValue
    BY <1>3, NumberGiven, RequiredNumbers DEF Authority, AuthorityValue
  <2>2. CASE l.word = "authority"
    <3>1. t = [s EXCEPT !.authority = Authority(l)]
      BY <2>2 DEF Declare
    <3>. QED
      BY <1>1, <2>1, <3>1 DEF SourceType
  <2>3. CASE l.word = "guardrail"
    <3>1. GuardrailOf(l) \in GuardrailValue
      <4>1. Value(l, "forbidden_local_validation") \in Values
        BY <1>2
      <4>. QED
        BY <2>1, <4>1, Zenon DEF GuardrailOf, GuardrailValue
    <3>2. t = [s EXCEPT !.guardrail = GuardrailOf(l)]
      BY <2>3 DEF Declare
    <3>. QED
      BY <1>1, <3>1, <3>2 DEF SourceType
  <2>. QED
    BY <1>3, <2>2, <2>3
<1>4. CASE l.word = "concurrency"
  <2>1. Number(l, "bound") \in Int
    BY <1>4, NumberGiven, RequiredNumbers
  <2>2. t = [s EXCEPT !.bound = Number(l, "bound")]
    BY <1>4 DEF Declare
  <2>. QED
    BY <1>1, <2>1, <2>2 DEF SourceType
<1>5. CASE l.word = "retry"
  <2>1. Number(l, "max_attempts") \in Int /\ Number(l, "backoff_ms") \in Int
    BY <1>5, NumberGiven, RequiredNumbers
  <2>2. RetryOf(l) \in RetryValue
    BY <1>2, <2>1 DEF RetryOf, RetryValue
  <2>3. t = [s EXCEPT !.retry = RetryOf(l)]
    BY <1>5 DEF Declare
  <2>. QED
    BY <1>1, <2>2, <2>3 DEF SourceType
<1>6. CASE l.word = "canonical"
  <2>1. t = [s EXCEPT !.canonical = SplitList(Value(l, "order"))]
    BY <1>6 DEF Declare
  <2>. QED
    BY <1>1, <1>2, <2>1 DEF SourceType
<1>7. CASE l.word = "lock"
  <2>1. LockOf(l) \in LockEntry
    <3>1. Number(l, "latency_ms") \in Int
      BY <1>7, NumberGiven, RequiredNumbers
    <3>. QED
      BY <1>2, <3>1 DEF LockOf, LockEntry
  <2>2. t = [s EXCEPT !.locks = Append(s.locks, LockOf(l))]
    BY <1>7 DEF Declare
  <2>3. s.locks \in Seq(LockEntry)
    BY DEF SourceType
  <2>4. Append(s.locks, LockOf(l)) \in Seq(LockEntry)
    BY <2>1, <2>3
  <2>. QED
    BY <1>1, <2>2, <2>4 DEF SourceType
<1>8. CASE l.word = "case"
  <2>1. CaseOf(l) \in CaseEntry
    <3>1. Number(l, "ordinal") \in Int
      BY <1>8, NumberGiven, RequiredNumbers
    <3>. QED
      BY <1>2, <3>1 DEF CaseOf, CaseEntry
  <2>2. t = [s EXCEPT !.cases = Append(s.cases, CaseOf(l))]
    BY <1>8 DEF Declare
  <2>3. s.cases \in Seq(CaseEntry)
    BY DEF SourceType
  <2>4. Append(s.cases, CaseOf(l)) \in Seq(CaseEntry)
    BY <2>1, <2>3
  <2>. QED
    BY <1>1, <2>2, <2>4 DEF SourceType
<1>9. CASE l.word = "gooo"
  <2>1. t = [s EXCEPT !.header = TRUE]
    BY <1>9 DEF Declare
  <2>. QED
    BY <1>1, <2>1 DEF SourceType
<1>10. CASE l.word = "#"
  <2>1. t = s
    BY <1>10 DEF Declare
  <2>. QED
    BY <1>1, <2>1
<1>. QED
  BY <1>1, <1>3, <1>4, <1>5, <1>6, <1>7, <1>8, <1>9, <1>10, RequiredNumbers

-----------------------------------------------------------------------------
(* What has been loaded *)

Loaders == {"parse", "contract", "fixture", "cases", "loaded", "failed"}

\* The types, and how far the text has been read.
LoadInv ==
  /\ text \in Texts /\ fixture \in Fixtures \cup {<<>>}
  /\ cases \in CaseFixtures \cup {<<>>}
  /\ command \in {"compile", "integration", "conformance"}
  /\ at \in Loaders /\ line \in 0..Len(text)
  /\ source \in SourceType
  /\ at \notin {"parse", "failed"} => line = Len(text)
  /\ source # NoSource => at = "parse" \/ line = Len(text)
  /\ line = 0 => source = NoSource

\* The next line of a text.
LEMMA NextLine ==
  ASSUME LoadInv, line < Len(text)
  PROVE  /\ text[line + 1] \in Line /\ text \in Seq(Line)
         /\ line \in Nat /\ line + 1 \in 0..Len(text)
<1>1. text \in Seq(Line)
  BY InputAssumption DEF LoadInv
<1>2. line \in Nat /\ Len(text) \in Nat
  BY <1>1 DEF LoadInv
<1>3. line + 1 \in 1..Len(text)
  BY <1>2
<1>. HIDE DEF Line
<1>. QED
  BY <1>1, <1>2, <1>3

LEMMA LoadStep == LoadInv /\ [Next]_vars => LoadInv'
<1>. SUFFICES ASSUME LoadInv, [Next]_vars PROVE LoadInv'
  OBVIOUS
<1>. USE DEF LoadInv, Loaders
<1>1. CASE ParseLine
  <2>1. /\ source' = Declare(source, text[line + 1])
        /\ line < Len(text) /\ Accepted(text[line + 1])
    BY <1>1 DEF ParseLine
  <2>2. text[line + 1] \in Line /\ line + 1 \in 0..Len(text)
    BY <2>1, NextLine
  <2>3. source' \in SourceType
    BY <2>1, <2>2, DeclareType
  <2>. QED
    BY <1>1, <2>2, <2>3 DEF ParseLine
<1>2. CASE RefuseLine
  BY <1>2, NoSourceType DEF RefuseLine, SourceOfError
<1>3. CASE EndParse
  BY <1>3 DEF EndParse
<1>4. CASE UnreadableSource \/ Unreadable
  BY <1>4 DEF UnreadableSource, Unreadable
<1>5. CASE LoadContract
  BY <1>5 DEF LoadContract
<1>6. CASE LoadFixture
  BY <1>6 DEF LoadFixture
<1>7. CASE LoadCasesFixture
  BY <1>7 DEF LoadCasesFixture
<1>8. CASE Returned \/ UNCHANGED vars
  BY <1>8 DEF Returned, vars
<1>. QED
  BY <1>1, <1>2, <1>3, <1>4, <1>5, <1>6, <1>7, <1>8 DEF Next

LEMMA LoadInit == Init => LoadInv
<1>. SUFFICES ASSUME Init PROVE LoadInv
  OBVIOUS
<1>1. text \in Seq(Line)
  BY InputAssumption DEF Init
<1>2. Len(text) \in Nat
  BY <1>1
<1>. QED
  BY <1>2, NoSourceType DEF Init, LoadInv, Loaders

LEMMA LoadInvariant == Spec => []LoadInv
<1>. QED
  BY LoadInit, LoadStep, PTL DEF Spec

\* A source that is handed on was read to the last line; one that is refused is
\* empty, whatever had been parsed before the bad line.
THEOREM TypeCorrect == Spec => []TypeOK
<1>1. LoadInv => TypeOK
  BY DEF LoadInv, TypeOK, Loaders, SourceType, GuardrailValue, RetryValue
<1>. QED
  BY <1>1, LoadInvariant, PTL

-----------------------------------------------------------------------------
(* What has been read *)

\* A line changes the part of the source it is about and no other.
LEMMA DeclareParts ==
  ASSUME NEW s \in SourceType, NEW l \in Line, Accepted(l)
  PROVE  LET t == Declare(s, l)
         IN  /\ t.header <=> (s.header \/ l.word = "gooo")
             /\ t.authority = IF l.word = "authority" THEN Authority(l) ELSE s.authority
             /\ t.guardrail = IF l.word = "guardrail" THEN GuardrailOf(l) ELSE s.guardrail
             /\ t.bound = IF l.word = "concurrency" THEN Number(l, "bound") ELSE s.bound
             /\ t.retry = IF l.word = "retry" THEN RetryOf(l) ELSE s.retry
             /\ t.canonical = IF l.word = "canonical" THEN SplitList(Value(l, "order"))
                              ELSE s.canonical
             /\ t.locks = IF l.word = "lock" THEN Append(s.locks, LockOf(l)) ELSE s.locks
             /\ t.cases = IF l.word = "case" THEN Append(s.cases, CaseOf(l)) ELSE s.cases
<1>. USE DEF Declare, SourceType
<1>1. l.word \in {"#", "gooo"} \cup DOMAIN Required
  BY DeclareType
<1>2. CASE l.word = "#"
  BY <1>2
<1>3. CASE l.word = "gooo"
  BY <1>3
<1>4. CASE l.word = "authority"
  BY <1>4
<1>5. CASE l.word = "guardrail"
  BY <1>5
<1>6. CASE l.word = "concurrency"
  BY <1>6
<1>7. CASE l.word = "retry"
  BY <1>7
<1>8. CASE l.word = "canonical"
  BY <1>8
<1>9. CASE l.word = "lock"
  BY <1>9
<1>10. CASE l.word = "case"
  BY <1>10
<1>. QED
  BY <1>1, <1>2, <1>3, <1>4, <1>5, <1>6, <1>7, <1>8, <1>9, <1>10, RequiredNumbers

\* Line n has been scanned and is l: it joins the lines of its word, as their
\* last.
Scanned(n, l) ==
  /\ Accepted(l) /\ source' = Declare(source, l)
  /\ text' = text /\ line' = n /\ at' = "parse" /\ l = text[n]
  /\ line \in Nat /\ n = line + 1 /\ 1..n = 1..line \cup {n}
  /\ \A w : Lines(w)' = IF w = l.word THEN Lines(w) \cup {n} ELSE Lines(w)
  /\ \A w : Lines(w) \subseteq 1..line
  /\ Latest(n, l.word)'
  /\ \A w, k : w # l.word => (Latest(k, w)' <=> Latest(k, w))
  /\ \A k : Rank(k)' = Rank(k)

LEMMA ScannedLine ==
  ASSUME LoadInv, ParseLine
  PROVE  \E n \in Nat, l \in Line : Scanned(n, l)
<1>1. PICK n, l : n = line + 1 /\ l = text[n]
  OBVIOUS
<1>2. /\ line < Len(text) /\ Accepted(l) /\ source' = Declare(source, l)
      /\ text' = text /\ line' = n /\ at' = "parse"
  BY <1>1 DEF ParseLine
<1>3. l \in Line /\ line \in Nat /\ n \in Nat
  BY <1>1, <1>2, NextLine
<1>4. 1..n = 1..line \cup {n}
  BY <1>1, <1>3
<1>5. \A w : Lines(w)' = {k \in 1..n : text[k].word = w}
  BY <1>2 DEF Lines
<1>6. \A w : Lines(w)' = IF w = l.word THEN Lines(w) \cup {n} ELSE Lines(w)
  <2>1. SUFFICES ASSUME NEW w
                 PROVE  Lines(w)' = IF w = l.word THEN Lines(w) \cup {n} ELSE Lines(w)
    OBVIOUS
  <2>2. Lines(w) = {k \in 1..line : text[k].word = w}
    BY DEF Lines
  <2>3. Lines(w)' = {k \in 1..line \cup {n} : text[k].word = w}
    BY <1>4, <1>5, Zenon
  <2>4. text[n].word = l.word
    BY <1>1
  <2>. QED
    BY <2>2, <2>3, <2>4, Zenon
<1>7. \A w : Lines(w) \subseteq 1..line
  BY DEF Lines
<1>8. Latest(n, l.word)'
  <2>1. \A w : \A j \in Lines(w)' : j <= n
    BY <1>3, <1>5
  <2>2. n \in Lines(l.word)'
    BY <1>6
  <2>. QED
    BY <2>1, <2>2 DEF Latest
<1>9. \A w, k : w # l.word => (Latest(k, w)' <=> Latest(k, w))
  BY <1>6 DEF Latest
<1>10. \A k : Rank(k)' = Rank(k)
  BY <1>2 DEF Rank
<1>. QED
  BY <1>1, <1>2, <1>3, <1>4, <1>6, <1>7, <1>8, <1>9, <1>10 DEF Scanned

\* What an accepted declaration says is what is read of it.
LEMMA Said ==
  ASSUME NEW l \in Line, Accepted(l)
  PROVE  /\ l.word = "authority" => SaysAuthority(l, Authority(l))
         /\ l.word = "guardrail" => SaysGuardrail(l, GuardrailOf(l))
         /\ l.word = "concurrency" => GivesNumber(l, "bound", Number(l, "bound"))
         /\ l.word = "retry" => SaysRetry(l, RetryOf(l))
         /\ l.word = "canonical" => GivesList(l, "order", SplitList(Value(l, "order")))
         /\ l.word = "lock" => SaysLock(l, LockOf(l))
         /\ l.word = "case" => SaysCase(l, CaseOf(l))
<1>1. ASSUME l.word \in DOMAIN Required
      PROVE  \A key \in Required[l.word] : GivesNumber(l, key, Number(l, key))
  BY <1>1, NumberGiven
<1>2. ASSUME NEW key
      PROVE  /\ Value(l, key) \in Given(l, key)
             /\ GivesList(l, key, SplitList(Value(l, key)))
  BY ValueGiven DEF GivesList
<1>3. ASSUME l.word \in {"authority", "guardrail"} PROVE SaysAuthority(l, Authority(l))
  BY <1>1, <1>3, RequiredNumbers DEF SaysAuthority, Authority
<1>4. ASSUME l.word = "guardrail" PROVE SaysGuardrail(l, GuardrailOf(l))
  <2>1. ASSUME NEW key PROVE GivesFlag(l, key, Value(l, key) = <<"true">>)
    <3>1. \A u, v \in Given(l, key) : u = v
      BY GivenOnce
    <3>. QED
      BY <1>2, <3>1 DEF GivesFlag
  <2>. QED
    BY <1>2, <1>3, <1>4, <2>1 DEF SaysGuardrail, GuardrailOf
<1>5. ASSUME l.word = "retry" PROVE SaysRetry(l, RetryOf(l))
  BY <1>1, <1>2, <1>5, RequiredNumbers DEF SaysRetry, RetryOf, Statuses
<1>6. ASSUME l.word = "lock" PROVE SaysLock(l, LockOf(l))
  BY <1>1, <1>2, <1>6, RequiredNumbers DEF SaysLock, LockOf
<1>7. ASSUME l.word = "case" PROVE SaysCase(l, CaseOf(l))
  BY <1>1, <1>2, <1>7, RequiredNumbers DEF SaysCase, CaseOf
<1>8. l.word = "concurrency" => GivesNumber(l, "bound", Number(l, "bound"))
  BY <1>1, RequiredNumbers
<1>. QED
  BY <1>2, <1>3, <1>4, <1>5, <1>6, <1>7, <1>8

\* The rank of a line among its word's is its place in the list of them, and
\* that of the line scanned next is the place after the last.
LEMMA RankBounds ==
  ASSUME LoadInv, NEW w
  PROVE  /\ IsFiniteSet(Lines(w)) /\ Cardinality(Lines(w)) \in Nat
         /\ \A k \in Lines(w) : Rank(k) \in 1..Cardinality(Lines(w))
         /\ text[line + 1].word = w => Rank(line + 1) = Cardinality(Lines(w)) + 1
<1>1. line \in Nat
  BY DEF LoadInv
<1>2. \A k \in Nat : IsFiniteSet({j \in 1..k : text[j].word = w})
  <2>1. SUFFICES ASSUME NEW k \in Nat PROVE IsFiniteSet({j \in 1..k : text[j].word = w})
    OBVIOUS
  <2>2. IsFiniteSet(1..k)
    BY FS_Interval
  <2>. QED
    BY <2>2, FS_Subset
<1>3. IsFiniteSet(Lines(w)) /\ Cardinality(Lines(w)) \in Nat
  BY <1>1, <1>2, FS_CardinalityType DEF Lines
<1>4. ASSUME NEW k \in Lines(w) PROVE Rank(k) \in 1..Cardinality(Lines(w))
  <2>. DEFINE S == {j \in 1..k : text[j].word = w}
  <2>1. k \in 1..line /\ k \in Nat /\ text[k].word = w
    BY <1>1 DEF Lines
  <2>2. S \subseteq Lines(w) /\ k \in S
    BY <1>1, <2>1 DEF Lines
  <2>3. IsFiniteSet(S)
    BY <1>2, <2>1
  <2>4. Rank(k) = Cardinality(S)
    BY <2>1 DEF Rank
  <2>. HIDE DEF S
  <2>5. Cardinality(S) <= Cardinality(Lines(w)) /\ Cardinality(S) \in Nat
    BY <1>3, <2>2, <2>3, FS_Subset, FS_CardinalityType
  <2>6. Cardinality(S) # 0
    BY <2>2, <2>3, FS_EmptySet
  <2>. QED
    BY <1>3, <2>4, <2>5, <2>6
<1>5. ASSUME text[line + 1].word = w PROVE Rank(line + 1) = Cardinality(Lines(w)) + 1
  <2>1. line + 1 \notin Lines(w)
    BY <1>1 DEF Lines
  <2>2. {j \in 1..(line + 1) : text[j].word = w} = Lines(w) \cup {line + 1}
    <3>1. 1..(line + 1) = 1..line \cup {line + 1}
      BY <1>1
    <3>. QED
      BY <1>5, <3>1, Zenon DEF Lines
  <2>3. Cardinality(Lines(w) \cup {line + 1}) = Cardinality(Lines(w)) + 1
    BY <1>3, <2>1, FS_AddElement
  <2>. QED
    BY <1>5, <2>2, <2>3 DEF Rank
<1>. QED
  BY <1>3, <1>4, <1>5

\* Scanning a line keeps every part.
LEMMA ReadLine ==
  ASSUME LoadInv, LastWordCounts, ParseLine
  PROVE  LastWordCounts'
<1>1. /\ \A k \in 1..line : Accepted(text[k])
      /\ source.header <=> Lines("gooo") # {}
      /\ LastAuthority /\ LastGuardrail /\ LastBound /\ LastRetry /\ LastCanonical
      /\ EveryLock /\ EveryCase
  BY DEF LastWordCounts, ParseLine
<1>2. PICK n \in Nat, l \in Line : Scanned(n, l)
  BY ScannedLine
<1>. USE DEF Scanned
<1>3. /\ source'.header <=> (source.header \/ l.word = "gooo")
      /\ source'.authority =
           IF l.word = "authority" THEN Authority(l) ELSE source.authority
      /\ source'.guardrail =
           IF l.word = "guardrail" THEN GuardrailOf(l) ELSE source.guardrail
      /\ source'.bound =
           IF l.word = "concurrency" THEN Number(l, "bound") ELSE source.bound
      /\ source'.retry = IF l.word = "retry" THEN RetryOf(l) ELSE source.retry
      /\ source'.canonical =
           IF l.word = "canonical" THEN SplitList(Value(l, "order"))
           ELSE source.canonical
      /\ source'.locks =
           IF l.word = "lock" THEN Append(source.locks, LockOf(l)) ELSE source.locks
      /\ source'.cases =
           IF l.word = "case" THEN Append(source.cases, CaseOf(l)) ELSE source.cases
  BY <1>2, DeclareParts DEF LoadInv
<1>4. /\ l.word = "authority" => SaysAuthority(l, Authority(l))
      /\ l.word = "guardrail" => SaysGuardrail(l, GuardrailOf(l))
      /\ l.word = "concurrency" => GivesNumber(l, "bound", Number(l, "bound"))
      /\ l.word = "retry" => SaysRetry(l, RetryOf(l))
      /\ l.word = "canonical" => GivesList(l, "order", SplitList(Value(l, "order")))
      /\ l.word = "lock" => SaysLock(l, LockOf(l))
      /\ l.word = "case" => SaysCase(l, CaseOf(l))
  BY <1>2, Said
<1>5. /\ 0..line \subseteq 0..n /\ n \in 0..n /\ n # 0 /\ (0..line)' = 0..n
      /\ (1..line)' = 1..n
  BY <1>2
<1>6. (\A k \in 1..line : Accepted(text[k]))'
  BY <1>1, <1>2, <1>5
<1>7. (source.header <=> Lines("gooo") # {})'
  BY <1>1, <1>2, <1>3, Zenon
<1>8. LastAuthority'
  <2>1. CASE l.word = "authority"
    <3>1. Latest(n, "authority")'
      BY <1>2, <2>1
    <3>2. SaysAuthority(text'[n], source'.authority)
      BY <1>2, <1>3, <1>4, <2>1
    <3>. QED
      BY <1>5, <3>1, <3>2 DEF LastAuthority
  <2>2. CASE l.word # "authority"
    <3>1. PICK k \in 0..line :
            /\ Latest(k, "authority")
            /\ IF k = 0 THEN source.authority = NoAuthority
               ELSE SaysAuthority(text[k], source.authority)
      BY <1>1 DEF LastAuthority
    <3>2. Latest(k, "authority")' /\ source'.authority = source.authority
      BY <1>2, <1>3, <2>2, <3>1
    <3>. QED
      BY <1>2, <1>5, <3>1, <3>2 DEF LastAuthority
  <2>. QED
    BY <2>1, <2>2
<1>9. LastGuardrail'
  <2>1. CASE l.word = "guardrail"
    <3>1. Latest(n, "guardrail")'
      BY <1>2, <2>1
    <3>2. SaysGuardrail(text'[n], source'.guardrail)
      BY <1>2, <1>3, <1>4, <2>1
    <3>. QED
      BY <1>5, <3>1, <3>2 DEF LastGuardrail
  <2>2. CASE l.word # "guardrail"
    <3>1. PICK k \in 0..line :
            /\ Latest(k, "guardrail")
            /\ IF k = 0 THEN source.guardrail = NoSource.guardrail
               ELSE SaysGuardrail(text[k], source.guardrail)
      BY <1>1 DEF LastGuardrail
    <3>2. Latest(k, "guardrail")' /\ source'.guardrail = source.guardrail
      BY <1>2, <1>3, <2>2, <3>1
    <3>. QED
      BY <1>2, <1>5, <3>1, <3>2 DEF LastGuardrail
  <2>. QED
    BY <2>1, <2>2
<1>10. LastBound'
  <2>1. CASE l.word = "concurrency"
    <3>1. Latest(n, "concurrency")'
      BY <1>2, <2>1
    <3>2. GivesNumber(text'[n], "bound", source'.bound)
      BY <1>2, <1>3, <1>4, <2>1
    <3>. QED
      BY <1>5, <3>1, <3>2 DEF LastBound
  <2>2. CASE l.word # "concurrency"
    <3>1. PICK k \in 0..line :
            /\ Latest(k, "concurrency")
            /\ IF k = 0 THEN source.bound = 0
               ELSE GivesNumber(text[k], "bound", source.bound)
      BY <1>1 DEF LastBound
    <3>2. Latest(k, "concurrency")' /\ source'.bound = source.bound
      BY <1>2, <1>3, <2>2, <3>1
    <3>. QED
      BY <1>2, <1>5, <3>1, <3>2 DEF LastBound
  <2>. QED
    BY <2>1, <2>2
<1>11. LastRetry'
  <2>1. CASE l.word = "retry"
    <3>1. Latest(n, "retry")'
      BY <1>2, <2>1
    <3>2. SaysRetry(text'[n], source'.retry)
      BY <1>2, <1>3, <1>4, <2>1
    <3>. QED
      BY <1>5, <3>1, <3>2 DEF LastRetry
  <2>2. CASE l.word # "retry"
    <3>1. PICK k \in 0..line :
            /\ Latest(k, "retry")
            /\ IF k = 0 THEN source.retry = NoSource.retry
               ELSE SaysRetry(text[k], source.retry)
      BY <1>1 DEF LastRetry
    <3>2. Latest(k, "retry")' /\ source'.retry = source.retry
      BY <1>2, <1>3, <2>2, <3>1
    <3>. QED
      BY <1>2, <1>5, <3>1, <3>2 DEF LastRetry
  <2>. QED
    BY <2>1, <2>2
<1>12. LastCanonical'
  <2>1. CASE l.word = "canonical"
    <3>1. Latest(n, "canonical")'
      BY <1>2, <2>1
    <3>2. GivesList(text'[n], "order", source'.canonical)
      BY <1>2, <1>3, <1>4, <2>1
    <3>. QED
      BY <1>5, <3>1, <3>2 DEF LastCanonical
  <2>2. CASE l.word # "canonical"
    <3>1. PICK k \in 0..line :
            /\ Latest(k, "canonical")
            /\ IF k = 0 THEN source.canonical = <<>>
               ELSE GivesList(text[k], "order", source.canonical)
      BY <1>1 DEF LastCanonical
    <3>2. Latest(k, "canonical")' /\ source'.canonical = source.canonical
      BY <1>2, <1>3, <2>2, <3>1
    <3>. QED
      BY <1>2, <1>5, <3>1, <3>2 DEF LastCanonical
  <2>. QED
    BY <2>1, <2>2
<1>13. EveryLock'
  <2>1. CASE l.word = "lock"
    <3>1. /\ source.locks \in Seq(LockEntry)
          /\ source'.locks = Append(source.locks, LockOf(l))
          /\ Len(source.locks) = Cardinality(Lines("lock"))
          /\ Lines("lock")' = Lines("lock") \cup {n}
      BY <1>1, <1>2, <1>3, <2>1 DEF EveryLock, LoadInv, SourceType
    <3>2. /\ Rank(n) = Cardinality(Lines("lock")) + 1
          /\ \A k \in Lines("lock") : Rank(k) \in 1..Len(source.locks)
          /\ IsFiniteSet(Lines("lock"))
          /\ n \notin Lines("lock")
      <4>1. n \notin 1..line
        BY <1>2
      <4>. QED
        BY <1>2, <2>1, <3>1, <4>1, RankBounds
    <3>3. Len(source'.locks) = Cardinality(Lines("lock")')
      <4>1. Len(source'.locks) = Len(source.locks) + 1
        BY <3>1
      <4>2. Cardinality(Lines("lock") \cup {n}) = Cardinality(Lines("lock")) + 1
        BY <3>2, FS_AddElement
      <4>. QED
        BY <3>1, <4>1, <4>2
    <3>4. SaysLock(text'[n], source'.locks[Rank(n)'])
      <4>1. source'.locks[Rank(n)'] = LockOf(l)
        BY <1>2, <3>1, <3>2
      <4>. QED
        BY <1>2, <1>4, <2>1, <4>1
    <3>5. ASSUME NEW k \in Lines("lock")
          PROVE  SaysLock(text'[k], source'.locks[Rank(k)'])
      <4>1. Rank(k)' = Rank(k) /\ Rank(k) \in 1..Len(source.locks)
        BY <1>2, <3>2
      <4>2. source'.locks[Rank(k)] = source.locks[Rank(k)]
        BY <3>1, <4>1
      <4>. QED
        BY <1>1, <1>2, <4>1, <4>2 DEF EveryLock
    <3>. QED
      BY <3>1, <3>3, <3>4, <3>5 DEF EveryLock
  <2>2. CASE l.word # "lock"
    <3>1. source'.locks = source.locks /\ Lines("lock")' = Lines("lock")
      BY <1>2, <1>3, <2>2
    <3>. QED
      BY <1>1, <1>2, <3>1 DEF EveryLock
  <2>. QED
    BY <2>1, <2>2
<1>14. EveryCase'
  <2>1. CASE l.word = "case"
    <3>1. /\ source.cases \in Seq(CaseEntry)
          /\ source'.cases = Append(source.cases, CaseOf(l))
          /\ Len(source.cases) = Cardinality(Lines("case"))
          /\ Lines("case")' = Lines("case") \cup {n}
      BY <1>1, <1>2, <1>3, <2>1 DEF EveryCase, LoadInv, SourceType
    <3>2. /\ Rank(n) = Cardinality(Lines("case")) + 1
          /\ \A k \in Lines("case") : Rank(k) \in 1..Len(source.cases)
          /\ IsFiniteSet(Lines("case"))
          /\ n \notin Lines("case")
      <4>1. n \notin 1..line
        BY <1>2
      <4>. QED
        BY <1>2, <2>1, <3>1, <4>1, RankBounds
    <3>3. Len(source'.cases) = Cardinality(Lines("case")')
      <4>1. Len(source'.cases) = Len(source.cases) + 1
        BY <3>1
      <4>2. Cardinality(Lines("case") \cup {n}) = Cardinality(Lines("case")) + 1
        BY <3>2, FS_AddElement
      <4>. QED
        BY <3>1, <4>1, <4>2
    <3>4. SaysCase(text'[n], source'.cases[Rank(n)'])
      <4>1. source'.cases[Rank(n)'] = CaseOf(l)
        BY <1>2, <3>1, <3>2
      <4>. QED
        BY <1>2, <1>4, <2>1, <4>1
    <3>5. ASSUME NEW k \in Lines("case")
          PROVE  SaysCase(text'[k], source'.cases[Rank(k)'])
      <4>1. Rank(k)' = Rank(k) /\ Rank(k) \in 1..Len(source.cases)
        BY <1>2, <3>2
      <4>2. source'.cases[Rank(k)] = source.cases[Rank(k)]
        BY <3>1, <4>1
      <4>. QED
        BY <1>1, <1>2, <4>1, <4>2 DEF EveryCase
    <3>. QED
      BY <3>1, <3>3, <3>4, <3>5 DEF EveryCase
  <2>2. CASE l.word # "case"
    <3>1. source'.cases = source.cases /\ Lines("case")' = Lines("case")
      BY <1>2, <1>3, <2>2
    <3>. QED
      BY <1>1, <1>2, <3>1 DEF EveryCase
  <2>. QED
    BY <2>1, <2>2
<1>. QED
  <2>1. at' = "parse"
    BY <1>2
  <2>. QED
    BY <1>6, <1>7, <1>8, <1>9, <1>10, <1>11, <1>12, <1>13, <1>14, <2>1, Zenon
       DEF LastWordCounts

LEMMA ReadStep == LoadInv /\ LastWordCounts /\ [Next]_vars => LastWordCounts'
<1>1. SUFFICES ASSUME LoadInv, LastWordCounts, [Next]_vars, ~ParseLine
               PROVE  LastWordCounts'
  BY ReadLine
<1>2. LastWordCounts
  BY <1>1
<1>3. CASE at' = "failed"
  BY <1>3 DEF LastWordCounts
<1>4. CASE at' # "failed"
  <2>1. /\ source' = source /\ text' = text /\ line' = line
        /\ at # "failed"
        /\ at' = "parse" => at = "parse"
        /\ at' # "parse" => line = Len(text)
    BY <1>1, <1>4 DEF Next, vars, LoadInv, UnreadableSource, RefuseLine, EndParse,
       Unreadable, LoadContract, LoadFixture, LoadCasesFixture, Returned
  <2>2. /\ \A w : Lines(w)' = Lines(w)
        /\ \A k, w : Latest(k, w)' <=> Latest(k, w)
        /\ \A k : Rank(k)' = Rank(k)
    BY <2>1 DEF Lines, Latest, Rank
  <2>3. /\ LastAuthority' <=> LastAuthority
        /\ LastGuardrail' <=> LastGuardrail
        /\ LastBound' <=> LastBound
        /\ LastRetry' <=> LastRetry
        /\ LastCanonical' <=> LastCanonical
        /\ EveryLock' <=> EveryLock
        /\ EveryCase' <=> EveryCase
    BY <2>1, <2>2, Zenon DEF LastAuthority, LastGuardrail, LastBound, LastRetry,
                             LastCanonical, EveryLock, EveryCase
  <2>. QED
    BY <1>2, <2>1, <2>2, <2>3 DEF LastWordCounts
<1>. QED
  BY <1>3, <1>4

LEMMA ReadInit == Init => LastWordCounts
<1>1. SUFFICES ASSUME Init PROVE LastWordCounts
  OBVIOUS
<1>2. 1..0 = {} /\ 0 \in 0..line
  BY <1>1 DEF Init
<1>3. \A w : Lines(w) = {} /\ Latest(0, w)
  BY <1>1, <1>2 DEF Init, Lines, Latest
<1>. QED
  BY <1>1, <1>2, <1>3, FS_EmptySet DEF Init, LastWordCounts, NoSource, LastAuthority,
     LastGuardrail, LastBound, LastRetry, LastCanonical, EveryLock, EveryCase

\* What has been read of any text, at any moment, is what its lines say, in
\* every field: of each declaration the last in full, of each key the last value,
\* the locks and cases all and in order, and nothing past a line that means
\* nothing.
THEOREM ReadAsWritten == Spec => []LastWordCounts
<1>. QED
  BY ReadInit, ReadStep, LoadInvariant, PTL DEF Spec

-----------------------------------------------------------------------------
(* What has been loaded is complete *)

\* As many different IDs as the list has entries, all of them IDs of entries,
\* are the IDs of one entry each: the loaders need not look for an entry
\* without an ID in the file, nor for two entries with the same.
LEMMA CountedOneToOne ==
  ASSUME NEW n \in Nat, NEW ids, NEW list,
         DOMAIN ids = 1..n, DOMAIN list = 1..n,
         \A k \in 1..n : ids[k] \in IDs(list),
         \A j, k \in 1..n : ids[j] = ids[k] => j = k
  PROVE  OneToOne(ids, list)
<1>. DEFINE f == [k \in 1..n |-> ids[k]]
            g == [k \in 1..n |-> list[k].id]
<1>1. IsFiniteSet(1..n) /\ Cardinality(1..n) = n
  BY FS_Interval
<1>2. g \in Surjection(1..n, IDs(list))
  BY DEF Surjection, IDs
<1>3. f \in Injection(1..n, IDs(list))
  BY DEF Injection, IsInjective
<1>. HIDE DEF f, g
<1>4. IsFiniteSet(IDs(list)) /\ Cardinality(IDs(list)) <= n
  BY <1>1, <1>2, FS_Surjection
<1>5. n <= Cardinality(IDs(list))
  BY <1>1, <1>3, <1>4, FS_Injection
<1>6. Cardinality(IDs(list)) = n
  BY <1>4, <1>5, FS_CardinalityType
<1>7. f \in Surjection(1..n, IDs(list))
  BY <1>1, <1>3, <1>4, <1>6, FS_Injection
<1>8. g \in Injection(1..n, IDs(list))
  BY <1>1, <1>2, <1>6, FS_Surjection
<1>9. \A k \in 1..n : list[k].id \in IDs(list)
  BY DEF IDs
<1>10. \A k \in 1..n : \E i \in 1..n : ids[i] = list[k].id
  BY <1>7, <1>9 DEF Surjection, f
<1>11. \A j, k \in 1..n : list[j].id = list[k].id => j = k
  BY <1>8 DEF Injection, IsInjective, g
<1>. QED
  BY <1>10, <1>11 DEF OneToOne

\* What was accepted when it was loaded is accepted still.
LoadedInv ==
  /\ at \in {"cases", "loaded"} => FixtureAccepted(fixture)
  /\ at = "loaded" /\ command = "conformance" => CasesAccepted(cases)

LEMMA LoadedStep == LoadedInv /\ [Next]_vars => LoadedInv'
<1>. SUFFICES ASSUME LoadedInv, [Next]_vars PROVE LoadedInv'
  OBVIOUS
<1>. USE DEF LoadedInv
<1>1. CASE \/ UnreadableSource \/ ParseLine \/ RefuseLine \/ EndParse
           \/ Unreadable \/ LoadContract
  BY <1>1 DEF UnreadableSource, ParseLine, RefuseLine, EndParse, Unreadable, LoadContract
<1>2. CASE LoadFixture
  <2>1. at' \in {"cases", "loaded"} => FixtureAccepted(fixture)'
    BY <1>2 DEF LoadFixture, FixtureAccepted, RecordComplete
  <2>2. at' = "loaded" => command' # "conformance"
    BY <1>2 DEF LoadFixture
  <2>. QED
    BY <2>1, <2>2
<1>3. CASE LoadCasesFixture
  <2>1. FixtureAccepted(fixture)'
    BY <1>3 DEF LoadCasesFixture, FixtureAccepted, RecordComplete
  <2>2. at' = "loaded" => CasesAccepted(cases)'
    BY <1>3 DEF LoadCasesFixture, CasesAccepted
  <2>. QED
    BY <2>1, <2>2
<1>4. CASE Returned \/ UNCHANGED vars
  <2>1. UNCHANGED vars
    BY <1>4 DEF Returned
  <2>2. FixtureAccepted(fixture)' <=> FixtureAccepted(fixture)
    BY <2>1 DEF vars, FixtureAccepted, RecordComplete
  <2>3. CasesAccepted(cases)' <=> CasesAccepted(cases)
    BY <2>1 DEF vars, CasesAccepted
  <2>. QED
    BY <2>1, <2>2, <2>3 DEF vars
<1>. QED
  BY <1>1, <1>2, <1>3, <1>4 DEF Next

LEMMA LoadedInvariant == Spec => []LoadedInv
<1>1. Init => LoadedInv
  BY DEF Init, LoadedInv
<1>. QED
  BY <1>1, LoadedStep, PTL DEF Spec

\* No ID comes twice in a list of which none was seen before.
LEMMA SeenOnce ==
  ASSUME NEW n \in Nat, NEW ids, \A k \in 1..n : Unseen(ids, k)
  PROVE  \A j, k \in 1..n : ids[j] = ids[k] => j = k
<1>1. \A k \in 1..n : \A j \in 1..n : j < k => ids[j] # ids[k]
  BY DEF Unseen
<1>. QED
  BY <1>1

LEMMA ListTypes ==
  ASSUME LoadInv
  PROVE  /\ source.locks \in Seq(LockEntry) /\ fixture \in Seq(Record)
         /\ source.cases \in Seq(CaseEntry) /\ cases \in Seq(Text)
<1>1. source.locks \in Seq(LockEntry) /\ source.cases \in Seq(CaseEntry)
  BY DEF LoadInv, SourceType
<1>2. <<>> \in Seq(Record) /\ <<>> \in Seq(Text)
  OBVIOUS
<1>3. fixture \in Seq(Record) /\ cases \in Seq(Text)
  BY <1>2, InputAssumption, Zenon DEF LoadInv
<1>. QED
  BY <1>1, <1>3

\* Every lock of a run has its one record and every case of a conformance its
\* one fixture, and no two locks or cases that are loaded have one ID, although
\* the loaders compare counts and records only.
THEOREM FixturesAreComplete == Spec => []FixturesComplete
<1>1. ASSUME LoadInv, LoadedInv, at = "loaded"
      PROVE  OneToOne([k \in DOMAIN fixture |-> fixture[k].lock], source.locks)
  <2>. DEFINE ids == [k \in DOMAIN fixture |-> fixture[k].lock]
              n == Len(source.locks)
  <2>1. source.locks \in Seq(LockEntry) /\ fixture \in Seq(Record)
    BY <1>1, ListTypes
  <2>2. n \in Nat /\ DOMAIN source.locks = 1..n
    BY <2>1
  <2>3. Len(fixture) = n /\ DOMAIN fixture = 1..n
    BY <1>1, <2>1, <2>2 DEF LoadedInv, FixtureAccepted
  <2>4. /\ DOMAIN ids = 1..n
        /\ \A k \in 1..n : ids[k] \in IDs(source.locks) /\ Unseen(ids, k)
    BY <1>1, <2>3 DEF LoadedInv, FixtureAccepted
  <2>. HIDE DEF ids, n
  <2>. QED
    BY <2>2, <2>4, SeenOnce, CountedOneToOne DEF ids
<1>2. ASSUME LoadInv, LoadedInv, at = "loaded", command = "conformance"
      PROVE  OneToOne(cases, source.cases)
  <2>. DEFINE n == Len(source.cases)
  <2>1. source.cases \in Seq(CaseEntry) /\ cases \in Seq(Text)
    BY <1>2, ListTypes
  <2>2. n \in Nat /\ DOMAIN source.cases = 1..n
    BY <2>1
  <2>3. Len(cases) = n /\ DOMAIN cases = 1..n
    <3>1. \A T : \A list \in Seq(T) : DOMAIN list = 1..Len(list)
      OBVIOUS
    <3>2. DOMAIN cases = 1..Len(cases)
      BY <2>1, <3>1, Zenon
    <3>3. Len(cases) = n
      BY <1>2, Zenon DEF LoadedInv, CasesAccepted
    <3>. QED
      BY <3>2, <3>3, Zenon
  <2>4. \A k \in 1..n : cases[k] \in IDs(source.cases) /\ Unseen(cases, k)
    BY <1>2, <2>3 DEF LoadedInv, CasesAccepted
  <2>. HIDE DEF n
  <2>. QED
    BY <2>2, <2>3, <2>4, SeenOnce, CountedOneToOne
<1>. QED
  BY <1>1, <1>2, LoadInvariant, LoadedInvariant, PTL DEF FixturesComplete

=============================================================================
