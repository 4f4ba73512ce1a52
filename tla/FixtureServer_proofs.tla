------------------------ MODULE FixtureServer_proofs ------------------------
(***************************************************************************)
(* Proofs about FixtureServer for every latency, timeout, backoff, slack   *)
(* and bound its assumptions admit: what two timers of the same request    *)
(* measure is the same time, so a lock's deadline class, which FetchRun    *)
(* takes as given, follows from its declared latency; handlers are no more *)
(* than the slots can have started during the longest of them; and each    *)
(* run of a pair is a ledger.                                              *)
(***************************************************************************)
EXTENDS FixtureServer, ProofLock_proofs

(* A lock as FetchRun sees it *)

LEMMA SleepType ==
  ASSUME fixture \in Fixtures, NEW l \in Locks
  PROVE  /\ fixture[l] \in Declaration
         /\ Sleep(l) \in Nat
         /\ fixture[l].behavior = "timeout" => Sleep(l) > Timeout
BY TimingAssumption DEF Declaration, Sleep

LEMMA ProfileType ==
  ASSUME fixture \in Fixtures, NEW l \in Locks
  PROVE  ProfileOf(l) \in Profile
<1>1. DeadlineOf(l) \in Deadlines
  BY DEF DeadlineOf, Deadlines
<1>2. fixture[l].behavior = "timeout" => DeadlineOf(l) # "met"
  BY SleepType, TimingAssumption DEF DeadlineOf
<1>. QED
  BY <1>1, <1>2, SleepType DEF ProfileOf, Profile, Declaration

\* The record behind the declaration is what decides the answer.
LEMMA SameAnswers ==
  ASSUME fixture \in Fixtures, NEW l \in Locks
  PROVE  /\ ProfileOf(l).behavior = fixture[l].behavior
         /\ ProfileOf(l).deadline = DeadlineOf(l)
         /\ ReplyStatus(ProfileOf(l)) = Status(l)
         /\ \A n : AnswerEvidence(ProfileOf(l), n) = AnswerEvidence(fixture[l], n)
         /\ ~Dropped(ProfileOf(l))
<1>1. /\ ProfileOf(l).behavior = fixture[l].behavior
      /\ ProfileOf(l).status = fixture[l].status
      /\ ProfileOf(l).coordinate = fixture[l].coordinate
      /\ ProfileOf(l).digest = fixture[l].digest
      /\ ProfileOf(l).deadline = DeadlineOf(l)
  BY DEF ProfileOf
<1>2. ReplyStatus(ProfileOf(l)) = Status(l)
  BY <1>1 DEF ReplyStatus, Status
<1>3. \A n : AnswerEvidence(ProfileOf(l), n) = AnswerEvidence(fixture[l], n)
  BY <1>1, <1>2 DEF AnswerEvidence, BodyEvidence, Status
<1>4. fixture[l].status # 0
  BY SleepType DEF Declaration
<1>5. ~Dropped(ProfileOf(l))
  BY <1>1, <1>4 DEF Dropped, ReplyStatus
<1>. QED
  BY <1>1, <1>2, <1>3, <1>5

-----------------------------------------------------------------------------
(* The invariant *)

Handler == [run : Runs, lock : Locks, attempt : 1..MaxAttempts, age : Nat]

\* The handlers of the run under way answer requests already sent; those of the
\* run before serve nobody.
HandlerInv ==
  /\ handlers \subseteq Handler
  /\ main = "running" =>
       \A h \in handlers :
         h.run <= run /\ (h.run = run => h.attempt <= attempt[h.lock])

\* The client of a request and its handler have waited for the same time; an
\* answer that was received took the handler's sleep.
TimeInv(l) ==
  /\ pc[l] = "get" =>
       /\ \A h \in handlers : Serves(h, l) => h.age = elapsed[l]
       /\ reply[l] \/ \E h \in handlers : Serves(h, l)
  /\ pc[l] = "body" => reply[l]
  /\ pc[l] \in {"get", "body"} =>
       /\ reply[l] => elapsed[l] >= Sleep(l)
       /\ elapsed[l] <= Sleep(l) + Slack
       /\ elapsed[l] <= Timeout + Slack

\* A fetch has made as many attempts as its profile allows.
AttemptInv(l) ==
  /\ pc[l] = "idle" => attempt[l] = 0
  /\ pc[l] \in {"attempt", "backoff"} =>
       /\ attempt[l] < MaxAttempts
       /\ attempt[l] = 0 \/ MayRetry(ProfileOf(l))
  /\ pc[l] \in {"get", "body"} =>
       /\ fixture[l].behavior # "reused"
       /\ attempt[l] = 1 \/ (attempt[l] > 1 /\ MayRetry(ProfileOf(l)))

\* What a run has recorded is admissible; a run that is over has recorded all.
RecordInv ==
  /\ \A r \in Runs, l \in Locks :
       evidence[r][l] # ZeroEvidence =>
         evidence[r][l] \in Admissible(ProfileOf(l))
  /\ \A r \in Runs, l \in Locks :
       r < run \/ (r = run /\ pc[l] = "done") => evidence[r][l] # ZeroEvidence
  /\ main # "running" => run = 2 /\ \A l \in Locks : pc[l] = "done"

ServerInv ==
  /\ TypeOK /\ HandlerInv /\ RecordInv
  /\ \A l \in Locks : TimeInv(l) /\ AttemptInv(l)

LEMMA InitServer == Init => ServerInv
<1>. SUFFICES ASSUME Init PROVE ServerInv
  OBVIOUS
<1>1. TypeOK
  BY RetryAssumption DEF Init, TypeOK, Runs
<1>2. HandlerInv
  BY DEF Init, HandlerInv
<1>3. RecordInv
  BY DEF Init, RecordInv, Runs
<1>4. \A l \in Locks : TimeInv(l) /\ AttemptInv(l)
  BY DEF Init, TimeInv, AttemptInv
<1>. QED
  BY <1>1, <1>2, <1>3, <1>4 DEF ServerInv

-----------------------------------------------------------------------------
(* What the timers allow *)

LEMMA ExpiredCanFail ==
  ASSUME ServerInv, NEW l \in Locks, pc[l] \in {"get", "body"}, Expired(l)
  PROVE  CanFail(ProfileOf(l))
<1>1. DeadlineOf(l) # "met"
  BY SleepType, TimingAssumption DEF ServerInv, TypeOK, TimeInv, Expired, DeadlineOf
<1>. QED
  BY <1>1, SameAnswers DEF CanFail, ServerInv, TypeOK

LEMMA AnsweredCanAnswer ==
  ASSUME ServerInv, NEW l \in Locks, pc[l] = "body"
  PROVE  /\ CanAnswer(ProfileOf(l))
         /\ Expired(l) => ProfileOf(l).deadline = "either"
<1>1. /\ DeadlineOf(l) # "missed"
      /\ Expired(l) => DeadlineOf(l) = "either"
  BY SleepType, TimingAssumption DEF ServerInv, TypeOK, TimeInv, Expired, DeadlineOf
<1>. QED
  BY <1>1, SameAnswers DEF CanAnswer, ServerInv, TypeOK

\* A fetch that ends records evidence its profile accounts for.
Ends(l) == \E e \in Admissible(ProfileOf(l)) : Record(l, e)

LEMMA FetchEnds ==
  ASSUME ServerInv, NEW l \in Locks,
         \/ Reuse(l) \/ BodyFails(l)
         \/ GetFails(l) /\ ~AttemptsLeft(l)
         \/ BodyRead(l) /\ ~RetriesAnswer(l)
  PROVE  Ends(l)
<1>1. /\ attempt[l] \in 0..MaxAttempts /\ MaxAttempts \in Nat
      /\ fixture \in Fixtures /\ AttemptInv(l)
  BY RetryAssumption DEF ServerInv, TypeOK
<1>2. CASE Reuse(l)
  BY <1>1, <1>2, SameAnswers, ReusedAdmissible DEF Reuse, Ends
<1>3. CASE BodyFails(l)
  <2>1. /\ ProfileOf(l).behavior # "reused"
        /\ ProfileOf(l).deadline = "either"
        /\ ReplyStatus(ProfileOf(l)) = 200
        /\ attempt[l] \in 1..MaxAttempts
    BY <1>1, <1>3, SameAnswers, AnsweredCanAnswer DEF BodyFails, AttemptInv
  <2>. QED
    BY <1>3, <2>1, BodyReadAdmissible DEF BodyFails, Ends
<1>4. CASE GetFails(l) /\ ~AttemptsLeft(l)
  <2>1. /\ ProfileOf(l).behavior # "reused" /\ CanFail(ProfileOf(l))
        /\ attempt[l] = MaxAttempts
    BY <1>1, <1>4, SameAnswers, ExpiredCanFail
       DEF GetFails, AttemptInv, AttemptsLeft
  <2>. QED
    BY <1>4, <2>1, TimeoutAdmissible DEF GetFails, BackOff, Ends
<1>5. CASE BodyRead(l) /\ ~RetriesAnswer(l)
  <2>1. /\ ReplyStatus(ProfileOf(l)) = 200
           \/ ~IsRetryable(ReplyStatus(ProfileOf(l)))
           \/ attempt[l] = MaxAttempts
        /\ attempt[l] \in 1..MaxAttempts
        /\ attempt[l] = 1 \/ MayRetry(ProfileOf(l))
        /\ ProfileOf(l).behavior # "reused" /\ CanAnswer(ProfileOf(l))
    BY <1>1, <1>5, SameAnswers, AnsweredCanAnswer
       DEF BodyRead, RetriesAnswer, AttemptsLeft, AttemptInv
  <2>2. AnswerEvidence(ProfileOf(l), attempt[l]) \in Admissible(ProfileOf(l))
    BY <2>1, AnswerAdmissible
  <2>. QED
    BY <1>1, <1>5, <2>2, SameAnswers DEF BodyRead, Ends
<1>. QED
  BY <1>2, <1>3, <1>4, <1>5

-----------------------------------------------------------------------------
(* The steps of a fetch *)

\* A step of the fetch of l changes what belongs to l, and starts handlers of l.
FetchStep(l) ==
  /\ UNCHANGED <<inputs, control>>
  /\ pc' = [pc EXCEPT ![l] = pc'[l]]
  /\ attempt' = [attempt EXCEPT ![l] = attempt'[l]]
  /\ elapsed' = [elapsed EXCEPT ![l] = elapsed'[l]]
  /\ reply' = [reply EXCEPT ![l] = reply'[l]]
  /\ handlers \subseteq handlers'
  /\ \A h \in handlers' \ handlers :
       /\ h \in Handler
       /\ h.run = run /\ h.lock = l /\ h.attempt = attempt'[l]
  /\ attempt[l] <= attempt'[l]
  /\ \/ UNCHANGED evidence /\ pc[l] # "done" /\ pc'[l] # "done"
     \/ Ends(l)
  /\ main = "running"

LEMMA AdmissibleEvidence ==
  ASSUME ServerInv, NEW l \in Locks, NEW e \in Admissible(ProfileOf(l))
  PROVE  e \in Evidence /\ e # ZeroEvidence
BY ProfileType, AdmissibleType, EvidenceNotZero DEF ServerInv, TypeOK

\* The first part of what a fetch does to the invariant: its own lock.
LEMMA FetchOwn ==
  ASSUME ServerInv, NEW l \in Locks, Fetch(l)
  PROVE  /\ FetchStep(l)
         /\ pc'[l] \in {"attempt", "get", "body", "backoff", "done"}
         /\ attempt'[l] \in 0..MaxAttempts /\ elapsed'[l] \in Nat
         /\ reply'[l] \in BOOLEAN
         /\ TimeInv(l)' /\ AttemptInv(l)'
<1>. /\ TypeOK /\ TimeInv(l) /\ AttemptInv(l) /\ fixture \in Fixtures
     /\ RecordInv /\ HandlerInv
  BY DEF ServerInv, TypeOK
<1>. MaxAttempts \in Nat \ {0} /\ Slack \in Nat /\ Timeout \in Nat
  BY RetryAssumption, TimingAssumption
<1>. Sleep(l) \in Nat
  BY SleepType
<1>. USE DEF inputs, control, fetching
<1>1. main = "running" \/ pc[l] = "done"
  BY DEF RecordInv, TypeOK
<1>2. fixture' = fixture /\ run' = run => /\ Sleep(l)' = Sleep(l)
                                         /\ ProfileOf(l)' = ProfileOf(l)
  BY DEF Sleep, ProfileOf, DeadlineOf
<1>3. CASE Start(l)
  BY <1>2, <1>3 DEF Start, TypeOK, FetchStep, TimeInv, AttemptInv
<1>4. ASSUME Ends(l), UNCHANGED <<inputs, control, attempt, reply, handlers>>,
             elapsed'[l] \in Nat,
             elapsed' = [elapsed EXCEPT ![l] = elapsed'[l]],
             pc[l] # "done"
      PROVE  /\ FetchStep(l)
             /\ pc'[l] \in {"attempt", "get", "body", "backoff", "done"}
             /\ attempt'[l] \in 0..MaxAttempts /\ elapsed'[l] \in Nat
             /\ reply'[l] \in BOOLEAN
             /\ TimeInv(l)' /\ AttemptInv(l)'
  <2>1. pc' = [pc EXCEPT ![l] = "done"]
    BY <1>4 DEF Ends, Record
  <2>2. FetchStep(l)
    BY <1>1, <1>4, <2>1 DEF FetchStep, TypeOK
  <2>. QED
    BY <1>4, <2>1, <2>2 DEF TypeOK, TimeInv, AttemptInv
<1>5. CASE \/ Reuse(l) \/ BodyFails(l)
           \/ GetFails(l) /\ ~AttemptsLeft(l)
           \/ BodyRead(l) /\ ~RetriesAnswer(l)
  <2>1. Ends(l)
    BY <1>5, FetchEnds
  <2>2. /\ UNCHANGED <<inputs, control, attempt, reply, handlers, elapsed>>
        /\ pc[l] # "done"
    BY <1>5 DEF Reuse, BodyFails, GetFails, BodyRead, BackOff
  <2>. QED
    BY <1>4, <2>1, <2>2 DEF TypeOK
<1>6. CASE Send(l)
  <2>0. PICK new :
          new = [run |-> run, lock |-> l, attempt |-> attempt[l] + 1, age |-> 0]
    OBVIOUS
  <2>1. /\ pc[l] = "attempt" /\ fixture[l].behavior # "reused"
        /\ attempt' = [attempt EXCEPT ![l] = attempt[l] + 1]
        /\ elapsed' = [elapsed EXCEPT ![l] = 0]
        /\ reply' = [reply EXCEPT ![l] = FALSE]
        /\ handlers' = handlers \cup {new}
        /\ pc' = [pc EXCEPT ![l] = "get"]
        /\ UNCHANGED <<inputs, control, evidence>>
    BY <1>6, <2>0 DEF Send, NextAttempt
  <2>2. /\ attempt[l] \in 0..MaxAttempts /\ attempt[l] < MaxAttempts
        /\ attempt[l] = 0 \/ MayRetry(ProfileOf(l))
        /\ run \in Runs
    BY <2>1 DEF TypeOK, AttemptInv
  <2>3. new \in Handler /\ new.run = run /\ new.lock = l
        /\ new.attempt = attempt[l] + 1 /\ new.age = 0
    BY <2>0, <2>2 DEF Handler
  <2>4. /\ pc'[l] = "get" /\ attempt'[l] = attempt[l] + 1
        /\ elapsed'[l] = 0 /\ reply'[l] = FALSE
    BY <2>1 DEF TypeOK
  <2>5. FetchStep(l)
    BY <1>1, <2>1, <2>2, <2>3, <2>4 DEF FetchStep, TypeOK
  <2>6. TimeInv(l)'
    <3>1. ASSUME NEW h \in handlers, h.run = run, h.lock = l
          PROVE  h.attempt # attempt[l] + 1
      <4>1. main = "running"
        BY <1>1, <2>1
      <4>2. h.attempt <= attempt[l] /\ h.attempt \in Int
        BY <3>1, <4>1 DEF HandlerInv, Handler
      <4>. QED
        BY <2>2, <4>2
    <3>2. ASSUME NEW h \in handlers', Serves(h, l)' PROVE h = new
      <4>1. h.run = run /\ h.lock = l /\ h.attempt = attempt[l] + 1
        BY <2>1, <2>4, <3>2 DEF Serves
      <4>. QED
        BY <2>1, <3>1, <4>1
    <3>3. Serves(new, l)' /\ new \in handlers'
      BY <2>1, <2>3, <2>4 DEF Serves
    <3>4. \A h \in handlers' : Serves(h, l)' => h.age = elapsed'[l]
      BY <2>3, <2>4, <3>2
    <3>5. \E h \in handlers' : Serves(h, l)'
      BY <3>3
    <3>. QED
      BY <1>2, <2>1, <2>4, <3>4, <3>5 DEF TimeInv
  <2>7. AttemptInv(l)'
    BY <1>2, <2>1, <2>2, <2>4 DEF AttemptInv
  <2>8. attempt'[l] \in 0..MaxAttempts /\ elapsed'[l] \in Nat
    BY <2>2, <2>4
  <2>9. reply'[l] \in BOOLEAN
    BY <2>1, Zenon DEF TypeOK
  <2>. QED
    BY <2>4, <2>5, <2>6, <2>7, <2>8, <2>9
<1>7. CASE GetAnswers(l)
  BY <1>1, <1>2, <1>7 DEF GetAnswers, TypeOK, FetchStep, TimeInv, AttemptInv
<1>8. ASSUME BackOff(l), pc[l] \in {"get", "body"}, MayRetry(ProfileOf(l)),
             UNCHANGED <<inputs, control, attempt, reply, handlers>>
      PROVE  /\ FetchStep(l)
             /\ pc'[l] \in {"attempt", "get", "body", "backoff", "done"}
             /\ attempt'[l] \in 0..MaxAttempts /\ elapsed'[l] \in Nat
             /\ reply'[l] \in BOOLEAN
             /\ TimeInv(l)' /\ AttemptInv(l)'
  BY <1>1, <1>2, <1>8
     DEF BackOff, AttemptsLeft, TypeOK, FetchStep, TimeInv, AttemptInv
<1>9. CASE GetFails(l) /\ AttemptsLeft(l)
  <2>1. MayRetry(ProfileOf(l))
    BY <1>9, ExpiredCanFail DEF GetFails, MayRetry
  <2>. QED
    BY <1>8, <1>9, <2>1 DEF GetFails
<1>10. CASE BodyRead(l) /\ RetriesAnswer(l)
  <2>1. MayRetry(ProfileOf(l))
    BY <1>10, SameAnswers DEF RetriesAnswer, MayRetry
  <2>. QED
    BY <1>8, <1>10, <2>1 DEF BodyRead
<1>11. CASE Resume(l)
  BY <1>1, <1>2, <1>11 DEF Resume, TypeOK, FetchStep, TimeInv, AttemptInv
<1>. QED
  BY <1>3, <1>5, <1>6, <1>7, <1>9, <1>10, <1>11 DEF Fetch

\* The second part: the other locks, and what is shared.
LEMMA FetchKeeps ==
  ASSUME ServerInv, NEW l \in Locks, Fetch(l)
  PROVE  ServerInv'
<1>. TypeOK /\ HandlerInv /\ RecordInv /\ fixture \in Fixtures
  BY DEF ServerInv, TypeOK
<1>1. /\ FetchStep(l)
      /\ pc'[l] \in {"attempt", "get", "body", "backoff", "done"}
      /\ attempt'[l] \in 0..MaxAttempts /\ elapsed'[l] \in Nat
      /\ reply'[l] \in BOOLEAN
      /\ TimeInv(l)' /\ AttemptInv(l)'
  BY FetchOwn
<1>2. UNCHANGED <<fixture, modes, run, main>> /\ main = "running"
  BY <1>1 DEF FetchStep, inputs, control
<1>3. \A k \in Locks : Sleep(k)' = Sleep(k) /\ ProfileOf(k)' = ProfileOf(k)
  BY <1>2 DEF Sleep, ProfileOf, DeadlineOf
<1>4. ASSUME NEW k \in Locks, k # l
      PROVE  /\ pc'[k] = pc[k] /\ attempt'[k] = attempt[k]
             /\ elapsed'[k] = elapsed[k] /\ reply'[k] = reply[k]
  BY <1>1, <1>4 DEF FetchStep, TypeOK
<1>5. ASSUME NEW k \in Locks, k # l PROVE TimeInv(k)' /\ AttemptInv(k)'
  <2>1. TimeInv(k) /\ AttemptInv(k)
    BY DEF ServerInv
  <2>2. \A h : Serves(h, k)' <=> Serves(h, k)
    BY <1>2, <1>4, <1>5 DEF Serves
  <2>3. \A h \in handlers' : Serves(h, k) => h \in handlers
    BY <1>1, <1>5 DEF FetchStep, Serves
  <2>4. handlers \subseteq handlers'
    BY <1>1 DEF FetchStep
  <2>5. TimeInv(k)'
    BY <1>3, <1>4, <1>5, <2>1, <2>2, <2>3, <2>4 DEF TimeInv
  <2>6. AttemptInv(k)'
    BY <1>2, <1>3, <1>4, <1>5, <2>1 DEF AttemptInv
  <2>. QED
    BY <2>5, <2>6
<1>6. HandlerInv'
  <2>1. handlers' \subseteq Handler
    BY <1>1 DEF FetchStep, HandlerInv
  <2>2. ASSUME NEW h \in handlers'
        PROVE  h.run <= run /\ (h.run = run => h.attempt <= attempt'[h.lock])
    <3>1. CASE h \in handlers
      <4>1. /\ h.run <= run
            /\ h.run = run => h.attempt <= attempt[h.lock]
            /\ h.lock \in Locks /\ h.attempt \in Int
        BY <1>2, <3>1 DEF HandlerInv, Handler
      <4>2. attempt[h.lock] <= attempt'[h.lock]
        <5>1. CASE h.lock = l
          BY <1>1, <5>1 DEF FetchStep
        <5>2. CASE h.lock # l
          BY <1>4, <4>1, <5>2 DEF TypeOK
        <5>. QED
          BY <5>1, <5>2
      <4>3. attempt[h.lock] \in Int /\ attempt'[h.lock] \in Int
        <5>1. CASE h.lock = l
          BY <1>1, <5>1 DEF TypeOK
        <5>2. CASE h.lock # l
          BY <1>4, <4>1, <5>2 DEF TypeOK
        <5>. QED
          BY <5>1, <5>2
      <4>. QED
        BY <4>1, <4>2, <4>3
    <3>2. CASE h \notin handlers
      <4>1. h.run = run /\ h.lock = l /\ h.attempt = attempt'[l]
        BY <1>1, <3>2 DEF FetchStep
      <4>2. run \in Int /\ attempt'[l] \in Int
        BY <1>1 DEF TypeOK, Runs
      <4>. QED
        BY <4>1, <4>2
    <3>. QED
      BY <3>1, <3>2
  <2>. QED
    BY <1>2, <2>1, <2>2 DEF HandlerInv
<1>. DEFINE Recorded ==
       /\ \A r \in Runs, k \in Locks :
            (r = run /\ k = l) \/ evidence'[r][k] = evidence[r][k]
       /\ evidence' \in [Runs -> [Locks -> Evidence \cup {ZeroEvidence}]]
       /\ \/ /\ evidence'[run][l] = evidence[run][l]
             /\ pc[l] # "done" /\ pc'[l] # "done"
          \/ /\ evidence'[run][l] \in Admissible(ProfileOf(l))
             /\ evidence'[run][l] # ZeroEvidence
<1>7. Recorded
  <2>1. CASE UNCHANGED evidence /\ pc[l] # "done" /\ pc'[l] # "done"
    BY <2>1 DEF TypeOK
  <2>2. ASSUME NEW e \in Admissible(ProfileOf(l)), Record(l, e)
        PROVE  Recorded
    <3>1. e \in Evidence /\ e # ZeroEvidence
      BY AdmissibleEvidence
    <3>2. evidence' = [evidence EXCEPT ![run][l] = e] /\ run \in Runs
      BY <2>2 DEF Record, TypeOK
    <3>. QED
      BY <3>1, <3>2 DEF TypeOK
  <2>. QED
    BY <1>1, <2>1, <2>2 DEF FetchStep, Ends
<1>8. RecordInv'
  <2>1. ASSUME NEW r \in Runs, NEW k \in Locks
        PROVE  /\ evidence'[r][k] # ZeroEvidence =>
                    evidence'[r][k] \in Admissible(ProfileOf(k))
               /\ r < run \/ (r = run /\ pc'[k] = "done") =>
                    evidence'[r][k] # ZeroEvidence
    <3>1. CASE r = run /\ k = l
      BY <1>7, <3>1 DEF RecordInv, TypeOK, Runs
    <3>2. CASE ~(r = run /\ k = l)
      BY <1>4, <1>7, <3>2 DEF RecordInv, TypeOK, Runs
    <3>. QED
      BY <3>1, <3>2
  <2>. QED
    BY <1>2, <1>3, <2>1 DEF RecordInv
<1>9. TypeOK'
  <2>0. /\ pc' = [pc EXCEPT ![l] = pc'[l]]
        /\ attempt' = [attempt EXCEPT ![l] = attempt'[l]]
        /\ elapsed' = [elapsed EXCEPT ![l] = elapsed'[l]]
    BY <1>1 DEF FetchStep
  <2>1. pc' \in [Locks -> {"idle", "attempt", "get", "body", "backoff", "done"}]
    BY <1>1, <2>0 DEF TypeOK
  <2>2. attempt' \in [Locks -> 0..MaxAttempts] /\ elapsed' \in [Locks -> Nat]
    BY <1>1, <2>0 DEF TypeOK
  <2>3. reply' \in [Locks -> BOOLEAN]
    BY <1>1, Zenon DEF FetchStep, TypeOK
  <2>4. \A h \in handlers' :
          /\ h.age \in Nat
          /\ [run |-> h.run, lock |-> h.lock, attempt |-> h.attempt] \in Request
    BY <1>6 DEF HandlerInv, Handler, Request
  <2>. QED
    BY <1>2, <1>7, <2>1, <2>2, <2>3, <2>4 DEF TypeOK
<1>. QED
  BY <1>1, <1>5, <1>6, <1>8, <1>9 DEF ServerInv

-----------------------------------------------------------------------------
(* The other steps *)

\* An answer reaches only the request it answers, which has waited for as long
\* as its handler has slept.
LEMMA AnswerKeeps ==
  ASSUME ServerInv, NEW h \in handlers, Answer(h)
  PROVE  ServerInv'
<1>. TypeOK /\ HandlerInv /\ RecordInv /\ fixture \in Fixtures
  BY DEF ServerInv, TypeOK
<1>1. /\ UNCHANGED <<fixture, modes, run, main, pc, attempt, elapsed, evidence>>
      /\ handlers' = handlers \ {h}
      /\ reply' = [l \in Locks |-> reply[l] \/ Serves(h, l)]
      /\ h.age >= Sleep(h.lock) /\ h \in Handler
  BY DEF Answer, Delivered, inputs, control, HandlerInv
<1>2. \A l \in Locks : /\ Sleep(l)' = Sleep(l) /\ ProfileOf(l)' = ProfileOf(l)
                       /\ \A g : Serves(g, l)' <=> Serves(g, l)
  BY <1>1 DEF Sleep, ProfileOf, DeadlineOf, Serves
<1>3. TypeOK'
  <2>1. reply' \in [Locks -> BOOLEAN]
    BY <1>1, Zenon DEF TypeOK, Serves
  <2>. QED
    BY <1>1, <2>1 DEF TypeOK
<1>4. HandlerInv'
  BY <1>1 DEF HandlerInv
<1>5. RecordInv'
  BY <1>1, <1>2 DEF RecordInv
<1>6. ASSUME NEW l \in Locks PROVE TimeInv(l)' /\ AttemptInv(l)'
  <2>1. TimeInv(l) /\ AttemptInv(l)
    BY DEF ServerInv
  <2>2. reply'[l] <=> reply[l] \/ Serves(h, l)
    BY <1>1, Zenon
  <2>3. Serves(h, l) => pc[l] = "get" /\ elapsed[l] >= Sleep(l)
    BY <1>1, <2>1 DEF Serves, TimeInv
  <2>4. pc[l] = "get" => reply'[l] \/ \E g \in handlers' : Serves(g, l)
    BY <1>1, <2>1, <2>2 DEF TimeInv
  <2>5. TimeInv(l)'
    BY <1>1, <1>2, <2>1, <2>2, <2>3, <2>4 DEF TimeInv
  <2>6. AttemptInv(l)'
    BY <1>1, <1>2, <2>1 DEF AttemptInv
  <2>. QED
    BY <2>5, <2>6
<1>. QED
  BY <1>3, <1>4, <1>5, <1>6 DEF ServerInv

\* The second run of a pair finds handlers of the first, which serve none of
\* its requests.
LEMMA EndRunKeeps ==
  ASSUME ServerInv, EndRun
  PROVE  ServerInv'
<1>. TypeOK /\ HandlerInv /\ RecordInv /\ fixture \in Fixtures
  BY DEF ServerInv, TypeOK
<1>1. /\ UNCHANGED <<fixture, modes, handlers, evidence>>
      /\ main = "running" /\ \A l \in Locks : pc[l] = "done"
      /\ \/ /\ run = 1 /\ run' = 2 /\ main' = "running"
            /\ pc' = [l \in Locks |-> "idle"]
         \/ run = 2 /\ run' = 2 /\ main' = "closing" /\ pc' = pc
      /\ attempt' = [l \in Locks |-> 0]
      /\ elapsed' = [l \in Locks |-> 0]
      /\ reply' = [l \in Locks |-> FALSE]
  BY DEF EndRun, inputs, TypeOK, Runs
<1>2. \A l \in Locks : Sleep(l)' = Sleep(l) /\ ProfileOf(l)' = ProfileOf(l)
  BY <1>1 DEF Sleep, ProfileOf, DeadlineOf
<1>3. TypeOK'
  <2>1. /\ pc' \in [Locks -> {"idle", "attempt", "get", "body", "backoff", "done"}]
        /\ run' \in Runs /\ main' \in {"running", "closing", "closed"}
        /\ attempt' \in [Locks -> 0..MaxAttempts]
        /\ elapsed' \in [Locks -> Nat] /\ reply' \in [Locks -> BOOLEAN]
    BY <1>1, RetryAssumption DEF TypeOK, Runs
  <2>. QED
    BY <1>1, <2>1 DEF TypeOK
<1>4. HandlerInv'
  <2>1. \A h \in handlers : h.run <= run /\ h.run \in Int
    BY <1>1 DEF HandlerInv, Handler, Runs
  <2>. QED
    BY <1>1, <2>1 DEF HandlerInv
<1>5. RecordInv'
  <2>1. \A r \in Runs, l \in Locks :
          r <= run => evidence[r][l] # ZeroEvidence
    BY <1>1 DEF RecordInv, TypeOK, Runs
  <2>2. \A r \in Runs, l \in Locks :
          r < run' \/ (r = run' /\ pc'[l] = "done") =>
            evidence'[r][l] # ZeroEvidence
    BY <1>1, <2>1 DEF Runs
  <2>. QED
    BY <1>1, <1>2, <2>2 DEF RecordInv
<1>6. ASSUME NEW l \in Locks PROVE TimeInv(l)' /\ AttemptInv(l)'
  <2>1. pc'[l] \in {"idle", "done"} /\ attempt'[l] = 0
    BY <1>1
  <2>. QED
    BY <2>1 DEF TimeInv, AttemptInv
<1>. QED
  BY <1>3, <1>4, <1>5, <1>6 DEF ServerInv

\* Time passes for a request and its handler alike.
LEMMA TickKeeps ==
  ASSUME ServerInv, Tick
  PROVE  ServerInv'
<1>. TypeOK /\ HandlerInv /\ RecordInv /\ fixture \in Fixtures
  BY DEF ServerInv, TypeOK
<1>. Slack \in Nat /\ Timeout \in Nat
  BY TimingAssumption
<1>1. /\ UNCHANGED <<fixture, modes, run, main, pc, attempt, reply, evidence>>
      /\ elapsed' = [l \in Locks |->
                       IF Waits(l) THEN elapsed[l] + 1 ELSE elapsed[l]]
      /\ handlers' = {[h EXCEPT !.age = @ + 1] : h \in handlers}
      /\ \A l \in Locks : Idle(l)
      /\ \A h \in handlers : h.age < Sleep(h.lock) + Slack
  BY DEF Tick, inputs, control
<1>2. \A l \in Locks : Sleep(l)' = Sleep(l) /\ ProfileOf(l)' = ProfileOf(l)
  BY <1>1 DEF Sleep, ProfileOf, DeadlineOf
\* A handler after the tick is one before it, a tick older.
<1>3. ASSUME NEW g \in handlers'
      PROVE  \E h \in handlers : /\ g \in Handler /\ h \in Handler
               /\ g.run = h.run /\ g.lock = h.lock /\ g.attempt = h.attempt
               /\ g.age = h.age + 1
  <2>1. PICK h \in handlers : g = [h EXCEPT !.age = @ + 1]
    BY <1>1
  <2>2. h \in Handler
    BY DEF HandlerInv
  <2>3. /\ g \in Handler /\ g.run = h.run /\ g.lock = h.lock
        /\ g.attempt = h.attempt /\ g.age = h.age + 1
    BY <2>1, <2>2 DEF Handler
  <2>. QED
    BY <2>2, <2>3
<1>4. ASSUME NEW h \in handlers
      PROVE  \E g \in handlers' :
               g.run = h.run /\ g.lock = h.lock /\ g.attempt = h.attempt
  <2>1. h \in Handler /\ [h EXCEPT !.age = @ + 1] \in handlers'
    BY <1>1 DEF HandlerInv
  <2>2. PICK g \in handlers' : g = [h EXCEPT !.age = @ + 1]
    BY <2>1
  <2>3. g.run = h.run /\ g.lock = h.lock /\ g.attempt = h.attempt
    BY <2>1, <2>2 DEF Handler
  <2>. QED
    BY <2>3
<1>5. TypeOK'
  <2>1. elapsed' \in [Locks -> Nat]
    BY <1>1 DEF TypeOK
  <2>2. \A g \in handlers' :
          /\ g.age \in Nat
          /\ [run |-> g.run, lock |-> g.lock, attempt |-> g.attempt] \in Request
    BY <1>3 DEF Handler, Request
  <2>. QED
    BY <1>1, <2>1, <2>2 DEF TypeOK
<1>6. HandlerInv'
  <2>1. handlers' \subseteq Handler
    BY <1>3
  <2>2. ASSUME NEW g \in handlers', main = "running"
        PROVE  g.run <= run /\ (g.run = run => g.attempt <= attempt[g.lock])
    <3>1. PICK h \in handlers :
            g.run = h.run /\ g.lock = h.lock /\ g.attempt = h.attempt
      BY <1>3
    <3>. QED
      BY <2>2, <3>1 DEF HandlerInv
  <2>. QED
    BY <1>1, <2>1, <2>2 DEF HandlerInv
<1>7. RecordInv'
  BY <1>1, <1>2 DEF RecordInv
<1>8. ASSUME NEW l \in Locks PROVE TimeInv(l)' /\ AttemptInv(l)'
  <2>1. TimeInv(l) /\ AttemptInv(l) /\ Idle(l)
    BY <1>1 DEF ServerInv
  <2>2. AttemptInv(l)'
    BY <1>1, <1>2, <2>1 DEF AttemptInv
  <2>3. CASE pc[l] = "get"
    <3>1. ~reply[l] /\ elapsed[l] < Timeout + Slack
      BY <2>1, <2>3 DEF Idle
    <3>2. elapsed'[l] = elapsed[l] + 1 /\ elapsed[l] \in Nat
      BY <1>1, <2>3 DEF Waits, TypeOK
    <3>3. PICK h \in handlers : Serves(h, l)
      BY <2>1, <2>3, <3>1 DEF TimeInv
    <3>4. h.age = elapsed[l] /\ h.age < Sleep(l) + Slack
      BY <1>1, <2>1, <2>3, <3>3 DEF TimeInv, Serves
    <3>5. Sleep(l) \in Nat
      BY SleepType
    <3>6. \A g \in handlers' : Serves(g, l)' => g.age = elapsed'[l]
      <4>1. SUFFICES ASSUME NEW g \in handlers', Serves(g, l)'
                     PROVE  g.age = elapsed'[l]
        OBVIOUS
      <4>2. PICK f \in handlers : /\ g.run = f.run /\ g.lock = f.lock
                                  /\ g.attempt = f.attempt /\ g.age = f.age + 1
        BY <1>3
      <4>3. Serves(f, l)
        BY <1>1, <4>1, <4>2 DEF Serves
      <4>. QED
        BY <2>1, <2>3, <3>2, <4>2, <4>3 DEF TimeInv
    <3>7. \E g \in handlers' : Serves(g, l)'
      <4>1. PICK g \in handlers' :
              g.run = h.run /\ g.lock = h.lock /\ g.attempt = h.attempt
        BY <1>4
      <4>2. Serves(g, l)'
        BY <1>1, <3>3, <4>1 DEF Serves
      <4>. QED
        BY <4>2
    <3>8. pc'[l] = "get" /\ reply'[l] = reply[l]
      BY <1>1, <2>3
    <3>. QED
      BY <1>2, <2>2, <3>1, <3>2, <3>4, <3>5, <3>6, <3>7, <3>8 DEF TimeInv
  <2>4. CASE pc[l] # "get"
    <3>1. pc'[l] \notin {"get", "body"}
      BY <1>1, <2>1, <2>4 DEF Idle
    <3>. QED
      BY <2>2, <3>1 DEF TimeInv
  <2>. QED
    BY <2>3, <2>4
<1>. QED
  BY <1>5, <1>6, <1>7, <1>8 DEF ServerInv

LEMMA QuietKeeps ==
  ASSUME ServerInv, Close \/ UNCHANGED vars
  PROVE  ServerInv'
<1>. TypeOK /\ HandlerInv /\ RecordInv
  BY DEF ServerInv
<1>1. /\ UNCHANGED <<inputs, run, fetching, handlers, evidence>>
      /\ main' \in {"running", "closing", "closed"}
      /\ main' = "running" => main = "running"
      /\ main' # "running" => main # "running"
  BY DEF Close, vars, inputs, control, fetching, TypeOK
<1>. USE DEF inputs, fetching
<1>2. \A l \in Locks : /\ Sleep(l)' = Sleep(l) /\ ProfileOf(l)' = ProfileOf(l)
                       /\ \A g : Serves(g, l)' <=> Serves(g, l)
  BY <1>1 DEF Sleep, ProfileOf, DeadlineOf, Serves
<1>3. TypeOK'
  BY <1>1 DEF TypeOK
<1>4. HandlerInv' /\ RecordInv'
  BY <1>1, <1>2 DEF HandlerInv, RecordInv
<1>5. ASSUME NEW l \in Locks PROVE TimeInv(l)' /\ AttemptInv(l)'
  BY <1>1, <1>2 DEF ServerInv, TimeInv, AttemptInv
<1>. QED
  BY <1>3, <1>4, <1>5 DEF ServerInv

LEMMA ServerInvariant == Spec => []ServerInv
<1>1. Init => ServerInv
  BY InitServer
<1>2. ServerInv /\ [Next]_vars => ServerInv'
  <2>. SUFFICES ASSUME ServerInv, [Next]_vars PROVE ServerInv'
    OBVIOUS
  <2>1. ASSUME NEW l \in Locks, Fetch(l) PROVE ServerInv'
    BY <2>1, FetchKeeps
  <2>2. ASSUME NEW h \in handlers, Answer(h) PROVE ServerInv'
    BY <2>2, AnswerKeeps
  <2>3. CASE EndRun
    BY <2>3, EndRunKeeps
  <2>4. CASE Close \/ Closed \/ UNCHANGED vars
    BY <2>4, QuietKeeps DEF Closed
  <2>5. CASE Tick
    BY <2>5, TickKeeps
  <2>. QED
    BY <2>1, <2>2, <2>3, <2>4, <2>5 DEF Next
<1>. QED
  BY <1>1, <1>2, PTL DEF Spec

-----------------------------------------------------------------------------
(* How many handlers run at once *)

\* The handlers whose client cannot have given up yet.
Young == {h \in handlers : h.age < Timeout}

\* Their client waits for them still, so there is one of them for each fetch
\* at most.
YoungInv == \A h \in Young : Serves(h, h.lock) /\ ~reply[h.lock]

\* The sequential loop has finished with every lock before the one it is at.
OrderInv ==
  main = "running" /\ modes[run] = "sequential" =>
    \A l \in Locks :
      pc[l] # "idle" => \A k \in Locks : k < l => pc[k] = "done"

ActiveInv == Cardinality(Active) <= ConcurrencyBound

AgeInv == \A h \in handlers : h.age <= Sleep(h.lock) + Slack

\* The handlers that started within one deadline of each other.
Window(a) == {h \in handlers : a <= h.age /\ h.age < a + Timeout}

\* There are no more of them than slots: they were young at the same time.
WindowInv == \A a \in Nat \ {0} : Cardinality(Window(a)) <= ConcurrencyBound

CrowdInv ==
  IsFiniteSet(handlers) /\ YoungInv /\ OrderInv /\ ActiveInv /\ AgeInv /\ WindowInv

LEMMA LocksFinite == IsFiniteSet(Locks)
BY TimingAssumption, FS_Interval DEF Locks

LEMMA YoungBound ==
  ASSUME ServerInv, CrowdInv
  PROVE  IsFiniteSet(Young) /\ Cardinality(Young) <= ConcurrencyBound
<1>. DEFINE f == [h \in Young |-> h.lock]
<1>1. ASSUME NEW h \in Young
      PROVE  /\ h \in Handler /\ h.lock \in Active
             /\ h.run = run /\ h.attempt = attempt[h.lock]
             /\ h.age = elapsed[h.lock]
  <2>1. h \in handlers /\ h \in Handler /\ Serves(h, h.lock)
    BY DEF Young, CrowdInv, YoungInv, ServerInv, HandlerInv
  <2>2. h.lock \in Locks
    BY <2>1 DEF Handler
  <2>. QED
    BY <2>1, <2>2 DEF Serves, Active, ServerInv, TimeInv
<1>2. ASSUME NEW h \in Young, NEW g \in Young, h.lock = g.lock PROVE h = g
  BY <1>1, <1>2 DEF Handler
<1>3. f \in Injection(Young, Active)
  BY <1>1, <1>2 DEF Injection, IsInjective
<1>4. IsFiniteSet(Active)
  BY LocksFinite, FS_Subset DEF Active
<1>5. /\ IsFiniteSet(Young) /\ Cardinality(Young) <= Cardinality(Active)
      /\ Cardinality(Young) \in Nat /\ Cardinality(Active) \in Nat
  BY <1>3, <1>4, FS_Injection, FS_CardinalityType
<1>. QED
  BY <1>5, TimingAssumption DEF CrowdInv, ActiveInv

LEMMA InitCrowd == Init => CrowdInv
<1>. SUFFICES ASSUME Init PROVE CrowdInv
  OBVIOUS
<1>1. Active = {} /\ \A a : Window(a) = {}
  BY DEF Init, Active, Window
<1>2. \A a : Cardinality(Window(a)) = 0
  BY <1>1, FS_EmptySet
<1>3. Cardinality(Active) = 0
  BY <1>1, FS_EmptySet
<1>4. ActiveInv /\ WindowInv
  BY <1>2, <1>3, TimingAssumption DEF ActiveInv, WindowInv
<1>5. IsFiniteSet(handlers) /\ YoungInv /\ OrderInv /\ AgeInv
  BY FS_EmptySet DEF Init, YoungInv, Young, OrderInv, AgeInv
<1>. QED
  BY <1>4, <1>5 DEF CrowdInv

\* Who may start, and who cannot fail yet.
LEMMA FetchMoves ==
  ASSUME ServerInv, CrowdInv, NEW l \in Locks, Fetch(l)
  PROVE  /\ pc[l] = "idle" => Start(l)
         /\ pc[l] # "done"
         /\ Send(l) \/ UNCHANGED handlers
         /\ pc[l] = "get" => reply[l] \/ Expired(l)
         /\ Send(l) => pc[l] = "attempt"
<1>. USE DEF Fetch
<1>. QED
  BY DEF Start, Reuse, Send, GetAnswers, GetFails, BodyFails, BodyRead, Resume

LEMMA FetchCrowd ==
  ASSUME ServerInv, CrowdInv, NEW l \in Locks, Fetch(l)
  PROVE  CrowdInv'
<1>1. /\ FetchStep(l)
      /\ pc'[l] \in {"attempt", "get", "body", "backoff", "done"}
  BY FetchOwn
<1>2. /\ pc[l] = "idle" => Start(l)
      /\ pc[l] # "done"
      /\ Send(l) \/ UNCHANGED handlers
      /\ pc[l] = "get" => reply[l] \/ Expired(l)
      /\ Send(l) => pc[l] = "attempt"
  BY FetchMoves
<1>3. UNCHANGED <<fixture, modes, run, main>>
  BY <1>1 DEF FetchStep, inputs, control
<1>4. /\ pc \in [Locks -> {"idle", "attempt", "get", "body", "backoff", "done"}]
      /\ attempt \in [Locks -> 0..MaxAttempts]
      /\ reply \in [Locks -> BOOLEAN]
      /\ elapsed \in [Locks -> Nat]
  BY DEF ServerInv, TypeOK
<1>5. ASSUME NEW k \in Locks, k # l
      PROVE  pc'[k] = pc[k] /\ attempt'[k] = attempt[k] /\ reply'[k] = reply[k]
  BY <1>1, <1>4, <1>5 DEF FetchStep
<1>. DEFINE new == [run |-> run, lock |-> l, attempt |-> attempt[l] + 1, age |-> 0]
<1>6. UNCHANGED handlers \/ handlers' = handlers \cup {new}
  BY <1>2 DEF Send, NextAttempt
<1>7. \A h \in handlers' : h \in handlers \/ (h = new /\ Send(l))
  BY <1>2 DEF Send, NextAttempt
<1>8. IsFiniteSet(handlers')
  BY <1>6, FS_AddElement DEF CrowdInv
<1>9. YoungInv'
  <2>1. SUFFICES ASSUME NEW h \in handlers', h.age < Timeout
                 PROVE  Serves(h, h.lock)' /\ ~reply'[h.lock]
    BY DEF YoungInv, Young
  <2>2. CASE h \in handlers
    <3>1. Serves(h, h.lock) /\ ~reply[h.lock] /\ h.lock \in Locks /\ h.age \in Nat
      BY <2>1, <2>2 DEF CrowdInv, YoungInv, Young, ServerInv, HandlerInv, Handler
    <3>2. elapsed[h.lock] = h.age
      BY <2>2, <3>1 DEF Serves, ServerInv, TimeInv
    <3>3. h.lock # l
      BY <1>2, <2>1, <3>1, <3>2, TimingAssumption DEF Serves, Expired
    <3>. QED
      BY <1>3, <1>5, <3>1, <3>3 DEF Serves
  <2>3. CASE h = new /\ Send(l)
    <3>1. /\ pc' = [pc EXCEPT ![l] = "get"]
          /\ attempt' = [attempt EXCEPT ![l] = attempt[l] + 1]
          /\ reply' = [reply EXCEPT ![l] = FALSE]
      BY <2>3 DEF Send, NextAttempt
    <3>2. h.run = run /\ h.lock = l /\ h.attempt = attempt[l] + 1
      BY <2>3
    <3>. QED
      BY <1>3, <1>4, <3>1, <3>2 DEF Serves
  <2>. QED
    BY <1>7, <2>2, <2>3
<1>10. OrderInv'
  <2>1. SUFFICES ASSUME main = "running", modes[run] = "sequential",
                        NEW m \in Locks, pc'[m] # "idle",
                        NEW k \in Locks, k < m
                 PROVE  pc'[k] = "done"
    BY <1>3 DEF OrderInv
  <2>2. \A j \in Locks : pc[j] # "idle" => \A i \in Locks : i < j => pc[i] = "done"
    BY <2>1 DEF CrowdInv, OrderInv
  <2>3. pc[m] # "idle" \/ (m = l /\ Start(l))
    BY <1>2, <1>5, <2>1
  <2>4. pc[k] = "done"
    BY <2>1, <2>2, <2>3 DEF Start, MayStart
  <2>. QED
    BY <1>2, <1>5, <2>4
<1>11. ActiveInv'
  <2>1. IsFiniteSet(Active) /\ Cardinality(Active) \in Nat
    BY LocksFinite, FS_Subset, FS_CardinalityType DEF Active
  <2>2. CASE pc[l] # "idle"
    <3>1. Active' \in SUBSET Active
      BY <1>2, <1>5, <2>2 DEF Active
    <3>2. Cardinality(Active') <= Cardinality(Active) /\ Cardinality(Active') \in Nat
      BY <2>1, <3>1, FS_Subset, FS_CardinalityType
    <3>. QED
      BY <2>1, <3>2, TimingAssumption DEF CrowdInv, ActiveInv
  <2>3. CASE Start(l) /\ pc[l] = "idle"
    <3>1. Active' = Active \cup {l} /\ l \notin Active
      BY <1>4, <1>5, <2>3 DEF Start, Active
    <3>2. Cardinality(Active') = Cardinality(Active) + 1
      BY <2>1, <3>1, FS_AddElement
    <3>3. CASE modes[run] = "sequential"
      <4>1. \A k \in Locks : k < l => pc[k] = "done"
        BY <2>3, <3>3 DEF Start, MayStart
      <4>2. \A k \in Locks : l < k => pc[k] = "idle"
        BY <2>3, <3>3 DEF Start, CrowdInv, OrderInv
      <4>3. \A k \in Locks : k < l \/ k = l \/ l < k
        BY DEF Locks
      <4>4. Active = {}
        BY <2>3, <4>1, <4>2, <4>3 DEF Active
      <4>5. Cardinality(Active) = 0
        BY <4>4, FS_EmptySet
      <4>. QED
        BY <3>2, <4>5, TimingAssumption DEF ActiveInv
    <3>4. CASE modes[run] # "sequential"
      BY <2>1, <2>3, <3>2, <3>4, TimingAssumption DEF Start, MayStart, ActiveInv
    <3>. QED
      BY <3>3, <3>4
  <2>. QED
    BY <1>2, <2>2, <2>3
<1>12. AgeInv'
  <2>1. \A k \in Locks : Sleep(k)' = Sleep(k) /\ Sleep(k) \in Nat
    BY <1>3, SleepType DEF Sleep, ServerInv, TypeOK
  <2>2. \A h \in handlers : h.lock \in Locks
    BY DEF ServerInv, HandlerInv, Handler
  <2>3. new.lock = l /\ new.age = 0
    OBVIOUS
  <2>4. Slack \in Nat
    BY TimingAssumption
  <2>. HIDE DEF new
  <2>5. ASSUME NEW h \in handlers' PROVE h.age <= Sleep(h.lock)' + Slack
    <3>1. CASE h \in handlers
      BY <2>1, <2>2, <3>1 DEF CrowdInv, AgeInv
    <3>2. CASE h = new
      BY <2>1, <2>3, <2>4, <3>2
    <3>. QED
      BY <1>7, <3>1, <3>2
  <2>. QED
    BY <2>5 DEF AgeInv
<1>13. WindowInv'
  <2>1. ASSUME NEW a \in Nat \ {0} PROVE Window(a)' = Window(a)
    BY <1>6, <2>1 DEF Window
  <2>. QED
    BY <2>1 DEF WindowInv, CrowdInv
<1>. QED
  BY <1>8, <1>9, <1>10, <1>11, <1>12, <1>13 DEF CrowdInv

LEMMA AnswerCrowd ==
  ASSUME ServerInv, CrowdInv, NEW h \in handlers, Answer(h)
  PROVE  CrowdInv'
<1>1. /\ UNCHANGED <<fixture, modes, run, main, pc, attempt, elapsed>>
      /\ handlers' = handlers \ {h}
      /\ reply' = [l \in Locks |-> reply[l] \/ Serves(h, l)]
  BY DEF Answer, Delivered, inputs, control
<1>2. IsFiniteSet(handlers')
  BY <1>1, FS_RemoveElement DEF CrowdInv
\* Another handler that is young serves another lock.
<1>3. ASSUME NEW g \in handlers', g.age < Timeout
      PROVE  Serves(g, g.lock)' /\ ~reply'[g.lock]
  <2>1. /\ g \in handlers /\ g # h /\ g \in Handler /\ h \in Handler
        /\ Serves(g, g.lock) /\ ~reply[g.lock]
    BY <1>1, <1>3 DEF CrowdInv, YoungInv, Young, ServerInv, HandlerInv
  <2>2. g.lock \in Locks
    BY <2>1 DEF Handler
  <2>3. ASSUME Serves(h, g.lock) PROVE FALSE
    <3>1. h.age = elapsed[g.lock] /\ g.age = elapsed[g.lock]
      BY <2>1, <2>2, <2>3 DEF Serves, ServerInv, TimeInv
    <3>2. h.run = g.run /\ h.lock = g.lock /\ h.attempt = g.attempt
      BY <2>1, <2>3 DEF Serves
    <3>. QED
      BY <2>1, <3>1, <3>2 DEF Handler
  <2>4. Serves(g, g.lock)'
    BY <1>1, <2>1 DEF Serves
  <2>5. ~reply'[g.lock]
    BY <1>1, <2>1, <2>2, <2>3, Zenon
  <2>. QED
    BY <2>4, <2>5
<1>4. YoungInv'
  BY <1>3 DEF YoungInv, Young
<1>5. OrderInv' /\ ActiveInv'
  <2>1. Active' = Active
    BY <1>1 DEF Active
  <2>. QED
    BY <1>1, <2>1 DEF CrowdInv, OrderInv, ActiveInv
<1>6. AgeInv'
  BY <1>1 DEF CrowdInv, AgeInv, Sleep
<1>7. WindowInv'
  <2>1. ASSUME NEW a \in Nat \ {0}
        PROVE  Cardinality(Window(a)') <= ConcurrencyBound
    <3>1. Window(a)' \in SUBSET Window(a) /\ Window(a) \in SUBSET handlers
      BY <1>1 DEF Window
    <3>2. /\ Cardinality(Window(a)') <= Cardinality(Window(a))
          /\ Cardinality(Window(a)') \in Nat /\ Cardinality(Window(a)) \in Nat
      BY <3>1, FS_Subset, FS_CardinalityType DEF CrowdInv
    <3>. QED
      BY <2>1, <3>2, TimingAssumption DEF CrowdInv, WindowInv
  <2>. QED
    BY <2>1 DEF WindowInv
<1>. QED
  BY <1>2, <1>4, <1>5, <1>6, <1>7 DEF CrowdInv

\* The next run, and the closing of the server, find only handlers nobody waits
\* for, which are past their client's deadline.
LEMMA QuietCrowd ==
  ASSUME ServerInv, CrowdInv, EndRun \/ Close \/ UNCHANGED vars
  PROVE  CrowdInv'
<1>1. UNCHANGED <<fixture, modes, handlers>>
  BY DEF EndRun, Close, vars, inputs
<1>2. \/ UNCHANGED <<run, pc, attempt, reply>> /\ (main' = "running" => main = "running")
      \/ /\ \A l \in Locks : pc[l] = "done" /\ pc'[l] \in {"idle", "done"}
         /\ main' = "running" => \A l \in Locks : pc'[l] = "idle"
  BY DEF EndRun, Close, vars, control, fetching
<1>3. YoungInv'
  <2>1. CASE UNCHANGED <<run, pc, attempt, reply>>
    BY <1>1, <2>1 DEF CrowdInv, YoungInv, Young, Serves
  <2>2. CASE \A l \in Locks : pc[l] = "done"
    <3>1. \A h \in handlers : h.lock \in Locks
      BY DEF ServerInv, HandlerInv, Handler
    <3>2. Young = {}
      BY <2>2, <3>1 DEF CrowdInv, YoungInv, Young, Serves
    <3>. QED
      BY <1>1, <3>2 DEF YoungInv, Young
  <2>. QED
    BY <1>2, <2>1, <2>2
<1>4. OrderInv'
  BY <1>1, <1>2 DEF CrowdInv, OrderInv
<1>5. ActiveInv'
  <2>1. CASE UNCHANGED pc
    <3>1. Active' = Active
      BY <2>1 DEF Active
    <3>. QED
      BY <3>1 DEF CrowdInv, ActiveInv
  <2>2. CASE \A l \in Locks : pc'[l] \in {"idle", "done"}
    <3>1. Active' = {}
      BY <2>2 DEF Active
    <3>2. Cardinality(Active') = 0
      BY <3>1, FS_EmptySet
    <3>. QED
      BY <3>2, TimingAssumption DEF ActiveInv
  <2>. QED
    BY <1>2, <2>1, <2>2
<1>6. AgeInv' /\ WindowInv' /\ IsFiniteSet(handlers')
  <2>1. \A a : Window(a)' = Window(a)
    BY <1>1 DEF Window
  <2>. QED
    BY <1>1, <2>1 DEF CrowdInv, AgeInv, Sleep, WindowInv
<1>. QED
  BY <1>3, <1>4, <1>5, <1>6 DEF CrowdInv

\* A tick moves every window by one; the youngest one becomes the first of the
\* others.
LEMMA TickCrowd ==
  ASSUME ServerInv, CrowdInv, Tick
  PROVE  CrowdInv'
<1>1. /\ UNCHANGED <<fixture, modes, run, main, pc, attempt, reply>>
      /\ handlers' = {[h EXCEPT !.age = @ + 1] : h \in handlers}
      /\ \A h \in handlers : h.age < Sleep(h.lock) + Slack
  BY DEF Tick, inputs, control
<1>. DEFINE Older(h) == [h EXCEPT !.age = @ + 1]
<1>2. ASSUME NEW h \in handlers
      PROVE  /\ Older(h) \in handlers' /\ Older(h).age = h.age + 1 /\ h.age \in Nat
             /\ Older(h).run = h.run /\ Older(h).lock = h.lock
             /\ Older(h).attempt = h.attempt /\ h.lock \in Locks
  BY <1>1 DEF ServerInv, HandlerInv, Handler
<1>3. \A g \in handlers' : \E h \in handlers : g = Older(h)
  BY <1>1
<1>. HIDE DEF Older
<1>4. IsFiniteSet(handlers')
  <2>. DEFINE f == [h \in handlers |-> Older(h)]
  <2>1. f \in Surjection(handlers, handlers')
    BY <1>2, <1>3 DEF Surjection
  <2>. HIDE DEF f
  <2>. QED
    BY <2>1, FS_Surjection DEF CrowdInv
<1>5. YoungInv'
  <2>1. SUFFICES ASSUME NEW g \in handlers', g.age < Timeout
                 PROVE  Serves(g, g.lock)' /\ ~reply'[g.lock]
    BY DEF YoungInv, Young
  <2>2. PICK h \in handlers : g = Older(h)
    BY <1>3
  <2>3. h.age < Timeout
    BY <1>2, <2>1, <2>2, TimingAssumption
  <2>4. Serves(h, h.lock) /\ ~reply[h.lock]
    BY <2>3 DEF CrowdInv, YoungInv, Young
  <2>. QED
    BY <1>1, <1>2, <2>2, <2>4 DEF Serves
<1>6. OrderInv' /\ ActiveInv'
  <2>1. Active' = Active
    BY <1>1 DEF Active
  <2>. QED
    BY <1>1, <2>1 DEF CrowdInv, OrderInv, ActiveInv
<1>7. AgeInv'
  <2>1. \A l \in Locks : Sleep(l)' = Sleep(l) /\ Sleep(l) \in Nat
    BY <1>1, SleepType DEF Sleep, ServerInv, TypeOK
  <2>2. ASSUME NEW g \in handlers' PROVE g.age <= Sleep(g.lock)' + Slack
    <3>1. PICK h \in handlers : g = Older(h)
      BY <1>3
    <3>2. g.age = h.age + 1 /\ g.lock = h.lock /\ h.lock \in Locks /\ h.age \in Nat
      BY <1>2, <3>1
    <3>3. Sleep(g.lock)' = Sleep(h.lock) /\ Sleep(h.lock) \in Nat
      BY <2>1, <3>2
    <3>4. h.age < Sleep(h.lock) + Slack
      BY <1>1
    <3>. QED
      BY <3>2, <3>3, <3>4, TimingAssumption
  <2>. QED
    BY <2>2 DEF AgeInv
<1>8. WindowInv'
  <2>1. SUFFICES ASSUME NEW a \in Nat \ {0}
                 PROVE  Cardinality(Window(a)') <= ConcurrencyBound
    BY DEF WindowInv
  <2>. DEFINE W == Window(a - 1)  f == [h \in W |-> Older(h)]
  <2>2. IsFiniteSet(W) /\ Cardinality(W) <= ConcurrencyBound
    <3>1. W \in SUBSET handlers
      BY DEF Window
    <3>2. IsFiniteSet(W)
      BY <3>1, FS_Subset DEF CrowdInv
    <3>3. CASE a = 1
      <4>1. W = Young
        BY <1>2, <3>3, TimingAssumption DEF Window, Young
      <4>. QED
        BY <4>1, YoungBound
    <3>4. CASE a # 1
      BY <3>2, <3>4 DEF CrowdInv, WindowInv
    <3>. QED
      BY <3>3, <3>4
  <2>3. f \in Surjection(W, Window(a)')
    <3>1. \A h \in W : Older(h) \in Window(a)'
      BY <1>2, TimingAssumption DEF Window
    <3>2. ASSUME NEW g \in Window(a)' PROVE \E h \in W : g = Older(h)
      <4>1. g \in handlers' /\ a <= g.age /\ g.age < a + Timeout
        BY DEF Window
      <4>2. PICK h \in handlers : g = Older(h)
        BY <1>3, <4>1
      <4>3. h \in W
        BY <1>2, <4>1, <4>2, TimingAssumption DEF Window
      <4>. QED
        BY <4>2, <4>3
    <3>. QED
      BY <3>1, <3>2 DEF Surjection
  <2>. HIDE DEF W, f
  <2>4. /\ Cardinality(Window(a)') <= Cardinality(W)
        /\ Cardinality(Window(a)') \in Nat /\ Cardinality(W) \in Nat
    BY <2>2, <2>3, FS_Surjection, FS_CardinalityType
  <2>. QED
    BY <2>2, <2>4, TimingAssumption
<1>. QED
  BY <1>4, <1>5, <1>6, <1>7, <1>8 DEF CrowdInv

LEMMA CrowdInvariant == Spec => [](ServerInv /\ CrowdInv)
<1>1. ServerInv /\ CrowdInv /\ [Next]_vars => CrowdInv'
  <2>. SUFFICES ASSUME ServerInv, CrowdInv, [Next]_vars PROVE CrowdInv'
    OBVIOUS
  <2>1. ASSUME NEW l \in Locks, Fetch(l) PROVE CrowdInv'
    BY <2>1, FetchCrowd
  <2>2. ASSUME NEW h \in handlers, Answer(h) PROVE CrowdInv'
    BY <2>2, AnswerCrowd
  <2>3. CASE EndRun \/ Close \/ Closed \/ UNCHANGED vars
    BY <2>3, QuietCrowd DEF Closed
  <2>4. CASE Tick
    BY <2>4, TickCrowd
  <2>. QED
    BY <2>1, <2>2, <2>3, <2>4 DEF Next
<1>. QED
  BY InitCrowd, ServerInvariant, <1>1, PTL DEF Spec

-----------------------------------------------------------------------------
(* The windows that cover the longest run *)

\* A finite set of numbers has a greatest element.
LEMMA GreatestExists ==
  ASSUME NEW S, IsFiniteSet(S), S \subseteq Nat, S # {}
  PROVE  \E m \in S : \A s \in S : s <= m
<1>. DEFINE Above(k) == {s \in S : k < s}
            T == {Above(k) : k \in S}
<1>1. \A k \in S : Above(k) \in SUBSET S
  OBVIOUS
<1>2. \A k \in S : IsFiniteSet(Above(k)) /\ Above(k) \subseteq Nat
  BY <1>1, FS_Subset
<1>3. T \subseteq FiniteSubsetsOf(Nat) /\ T # {}
  BY <1>2 DEF FiniteSubsetsOf
<1>4. PICK u \in T : \A t \in T : ~(<<t, u>> \in StrictSubsetOrdering(Nat))
  <2>. HIDE DEF T
  <2>. QED
    BY <1>3, FS_StrictSubsetOrderingWellFounded, WFMin
<1>5. PICK m \in S : u = Above(m)
  OBVIOUS
<1>6. ASSUME NEW s \in S, m < s PROVE FALSE
  <2>1. Above(s) \in T /\ Above(s) \in SUBSET Nat /\ Above(m) \in SUBSET Nat
    BY <1>2
  <2>2. /\ \A k \in S : s < k => m < k
        /\ ~(s < s)
    BY <1>6
  <2>3. Above(s) \subseteq Above(m) /\ s \in Above(m) /\ s \notin Above(s)
    BY <1>6, <2>2
  <2>. QED
    BY <1>4, <1>5, <2>1, <2>3, Zenon DEF StrictSubsetOrdering
<1>. QED
  BY <1>6

LEMMA LongestRunCovers ==
  ASSUME fixture \in Fixtures
  PROVE  LongestRun \in Nat /\ \A l \in Locks : Sleep(l) + Slack <= LongestRun
<1>. DEFINE S == {Sleep(l) + Slack : l \in Locks}
            f == [l \in Locks |-> Sleep(l) + Slack]
<1>1. \A l \in Locks : Sleep(l) + Slack \in Nat
  BY SleepType, TimingAssumption
<1>2. f \in Surjection(Locks, S)
  BY DEF Surjection
<1>3. IsFiniteSet(S)
  <2>. HIDE DEF S, f
  <2>. QED
    BY <1>2, LocksFinite, FS_Surjection
<1>4. S \subseteq Nat /\ S # {}
  <2>1. 1 \in Locks
    BY TimingAssumption DEF Locks
  <2>. QED
    BY <1>1, <2>1
<1>5. PICK m \in S : \A s \in S : s <= m
  <2>. HIDE DEF S
  <2>. QED
    BY <1>3, <1>4, GreatestExists
<1>6. m \in S /\ \A l \in Locks : Sleep(l) + Slack <= m
  BY <1>5
<1>7. LongestRun \in S /\ \A l \in Locks : Sleep(l) + Slack <= LongestRun
  <2>. HIDE DEF f
  <2>. QED
    BY <1>6 DEF LongestRun
<1>. QED
  BY <1>4, <1>7

\* The window of an age.
LEMMA Quotient ==
  ASSUME NEW n \in Nat, NEW d \in Nat, 0 < d
  PROVE  /\ n \div d \in Nat
         /\ d * (n \div d) <= n
         /\ n < d * (n \div d) + d
OBVIOUS

LEMMA QuotientMonotone ==
  ASSUME NEW m \in Nat, NEW n \in Nat, NEW d \in Nat, 0 < d, m <= n
  PROVE  m \div d <= n \div d
BY Quotient

\* A small enough set can be numbered without a number used twice.
LEMMA Numbered ==
  ASSUME NEW S, IsFiniteSet(S), NEW n \in Nat, Cardinality(S) <= n
  PROVE  \E f \in [S -> 1..n] : \A x, y \in S : f[x] = f[y] => x = y
<1>1. Cardinality(S) \in Nat /\ ExistsBijection(1..Cardinality(S), S)
  BY FS_CardinalityType
<1>2. PICK g \in Bijection(1..Cardinality(S), S) : TRUE
  BY <1>1 DEF ExistsBijection
<1>. DEFINE f == [x \in S |-> CHOOSE k \in 1..Cardinality(S) : g[k] = x]
<1>3. \A x \in S : f[x] \in 1..Cardinality(S) /\ g[f[x]] = x
  BY <1>2 DEF Bijection, Surjection
<1>4. \A x \in S : f[x] \in 1..n
  BY <1>1, <1>3
<1>5. \A x, y \in S : f[x] = f[y] => x = y
  BY <1>3
<1>6. f \in [S -> 1..n]
  BY <1>4
<1>. QED
  BY <1>5, <1>6

\* The handlers of each multiple of the deadline fit into the slots, and the
\* ages of all reach no further than the longest run.
LEMMA CrowdBounded == ServerInv /\ CrowdInv => HandlersBounded
<1>. SUFFICES ASSUME ServerInv, CrowdInv PROVE HandlersBounded
  OBVIOUS
<1>. DEFINE D == LongestRun \div Timeout
            Group(q) == {h \in handlers : h.age \div Timeout = q}
<1>1. /\ Timeout \in Nat /\ 0 < Timeout /\ ConcurrencyBound \in Nat
      /\ LongestRun \in Nat /\ D \in Nat
  BY TimingAssumption, LongestRunCovers, Quotient DEF ServerInv, TypeOK
<1>2. ASSUME NEW h \in handlers
      PROVE  h.age \in Nat /\ h.age \div Timeout \in 0..D
  <2>1. h.age \in Nat /\ h.lock \in Locks
    BY DEF ServerInv, HandlerInv, Handler
  <2>2. h.age <= LongestRun
    <3>1. h.age <= Sleep(h.lock) + Slack
      BY DEF CrowdInv, AgeInv
    <3>2. fixture \in Fixtures
      BY DEF ServerInv, TypeOK
    <3>3. Sleep(h.lock) + Slack <= LongestRun
      BY <2>1, <3>2, LongestRunCovers
    <3>4. Sleep(h.lock) \in Nat /\ Slack \in Nat
      BY <2>1, <3>2, SleepType, TimingAssumption
    <3>. QED
      BY <1>1, <2>1, <3>1, <3>3, <3>4
  <2>3. h.age \div Timeout \in Nat /\ h.age \div Timeout <= D
    BY <1>1, <2>1, <2>2, Quotient, QuotientMonotone
  <2>. QED
    BY <1>1, <2>1, <2>3
<1>3. ASSUME NEW q \in 0..D
      PROVE  IsFiniteSet(Group(q)) /\ Cardinality(Group(q)) <= ConcurrencyBound
  <2>1. \A h \in Group(q) : Timeout * q <= h.age /\ h.age < Timeout * q + Timeout
    BY <1>1, <1>2, Quotient
  <2>2. CASE q = 0
    <3>1. Group(q) \in SUBSET Young
      BY <1>1, <2>1, <2>2 DEF Young
    <3>2. IsFiniteSet(Young) /\ Cardinality(Young) <= ConcurrencyBound
      BY YoungBound
    <3>. QED
      BY <1>1, <3>1, <3>2, FS_Subset, FS_CardinalityType
  <2>3. CASE q # 0
    <3>1. Timeout * q \in Nat \ {0}
      BY <1>1, <2>3
    <3>2. Group(q) \in SUBSET Window(Timeout * q) /\ Window(Timeout * q) \in SUBSET handlers
      BY <2>1 DEF Window
    <3>3. /\ IsFiniteSet(Window(Timeout * q))
          /\ Cardinality(Window(Timeout * q)) <= ConcurrencyBound
      BY <3>1, <3>2, FS_Subset DEF CrowdInv, WindowInv
    <3>. QED
      BY <1>1, <3>2, <3>3, FS_Subset, FS_CardinalityType
  <2>. QED
    BY <2>2, <2>3
<1>4. \A q \in 0..D : \E f \in [Group(q) -> 1..ConcurrencyBound] :
        \A x, y \in Group(q) : f[x] = f[y] => x = y
  BY <1>1, <1>3, Numbered
<1>. DEFINE Number(q) == CHOOSE f \in [Group(q) -> 1..ConcurrencyBound] :
                           \A x, y \in Group(q) : f[x] = f[y] => x = y
            Place(h) == <<h.age \div Timeout, Number(h.age \div Timeout)[h]>>
            place == [h \in handlers |-> Place(h)]
            Places == (0..D) \X (1..ConcurrencyBound)
<1>5. \A q \in 0..D : /\ Number(q) \in [Group(q) -> 1..ConcurrencyBound]
                      /\ \A x, y \in Group(q) :
                           Number(q)[x] = Number(q)[y] => x = y
  <2>. HIDE DEF Group
  <2>. QED
    BY <1>4
<1>. HIDE DEF D, Number
<1>6. place \in Injection(handlers, Places)
  <2>1. \A h \in handlers : Place(h) \in Places
    BY <1>2, <1>5
  <2>2. ASSUME NEW x \in handlers, NEW y \in handlers, Place(x) = Place(y)
        PROVE  x = y
    <3>1. PICK q \in 0..D : x.age \div Timeout = q
      BY <1>2
    <3>2. y.age \div Timeout = q /\ x \in Group(q) /\ y \in Group(q)
      BY <2>2, <3>1
    <3>3. Number(q)[x] = Number(q)[y]
      BY <2>2, <3>1, <3>2
    <3>. QED
      BY <1>5, <3>2, <3>3
  <2>. QED
    BY <2>1, <2>2 DEF Injection, IsInjective
<1>7. /\ IsFiniteSet(0..D) /\ Cardinality(0..D) = D + 1
      /\ IsFiniteSet(1..ConcurrencyBound)
      /\ Cardinality(1..ConcurrencyBound) = ConcurrencyBound
  BY <1>1, FS_Interval
<1>8. IsFiniteSet(Places) /\ Cardinality(Places) = (D + 1) * ConcurrencyBound
  BY <1>7, FS_Product
<1>9. Cardinality(handlers) <= (D + 1) * ConcurrencyBound
  <2>. HIDE DEF place, Places
  <2>. QED
    BY <1>6, <1>8, FS_Injection
<1>10. (D + 1) * ConcurrencyBound = ConcurrencyBound * (D + 1)
  BY <1>1
<1>. QED
  BY <1>9, <1>10 DEF HandlersBounded, D

-----------------------------------------------------------------------------
(* What RunPair and ReplayPair promise on their server *)

\* RunPair and runPairModes: every variable keeps its type, and each handler
\* answers a request some run has sent.
THEOREM ServerTypes == Spec => []TypeOK
<1>1. ServerInv => TypeOK
  BY DEF ServerInv
<1>. QED
  BY <1>1, ServerInvariant, PTL

\* RunPair: a lock whose sleep is clear of the deadline has the same evidence in
\* both runs, also when the first run's handlers overlap the second run.
THEOREM PairAgrees == Spec => []RunsAgree
<1>1. ASSUME ServerInv PROVE RunsAgree
  <2>. SUFFICES ASSUME main = "closed",
                       NEW l \in Locks, DeadlineOf(l) # "either"
                PROVE  evidence[1][l] = evidence[2][l]
    BY DEF RunsAgree
  <2>1. RecordInv /\ fixture \in Fixtures
    BY <1>1 DEF ServerInv, TypeOK
  <2>2. \A r \in Runs : evidence[r][l] # ZeroEvidence
    BY <2>1 DEF RecordInv, Runs
  <2>3. \A r \in Runs : evidence[r][l] \in Admissible(ProfileOf(l))
    BY <2>1, <2>2 DEF RecordInv
  <2>4. ProfileOf(l) \in Profile /\ Determinate(ProfileOf(l))
    BY <2>1, ProfileType, SameAnswers DEF Determinate
  <2>. QED
    BY <2>3, <2>4, DeterminateIsUnique DEF Runs
<1>. QED
  BY <1>1, ServerInvariant, PTL

\* RunPair: a client gives up after its deadline and frees its slot while its
\* handler goes on sleeping; however the retries of both runs pile up behind the
\* slots, the server never runs more handlers than the slots can have started
\* during the longest of them.
THEOREM HandlersNeverPileUp == Spec => []HandlersBounded
BY CrowdBounded, CrowdInvariant, PTL

-----------------------------------------------------------------------------
(* The ledgers of the two runs *)

\* A server and the ledgers of its runs speak of the same data.
LEMMA SameZero == \A r : Ledger(r)!ZeroEvidence = ZeroEvidence
BY DEF Ledger!ZeroEvidence, ZeroEvidence, Ledger!None, None

LEMMA SameReply == \A r, p : Ledger(r)!ReplyStatus(p) = ReplyStatus(p)
BY DEF Ledger!ReplyStatus, ReplyStatus, Ledger!ServedBehaviors, ServedBehaviors

LEMMA SameChances ==
  \A r, p : /\ Ledger(r)!CanFail(p) = CanFail(p)
            /\ Ledger(r)!CanAnswer(p) = CanAnswer(p)
BY SameReply
   DEF Ledger!CanFail, CanFail, Ledger!CanAnswer, CanAnswer, Ledger!Dropped,
       Dropped

LEMMA SameUnknown ==
  \A r, s, n : Ledger(r)!UnknownEvidence(s, n) = UnknownEvidence(s, n)
BY DEF Ledger!UnknownEvidence, UnknownEvidence, Ledger!None, None

LEMMA SameAnswer ==
  \A r, p, n : Ledger(r)!AnswerEvidence(p, n) = AnswerEvidence(p, n)
<1>1. \A r, s : Ledger(r)!ReasonForStatus(s) = ReasonForStatus(s)
  BY DEF Ledger!ReasonForStatus, ReasonForStatus
<1>2. \A r, p, n : Ledger(r)!BodyEvidence(p, n) = BodyEvidence(p, n)
  BY SameUnknown
     DEF Ledger!BodyEvidence, BodyEvidence, Ledger!RefutedEvidence,
         RefutedEvidence, Ledger!ClosedEvidence, ClosedEvidence, Ledger!None,
         None
<1>. QED
  BY <1>1, <1>2, SameReply, SameUnknown DEF Ledger!AnswerEvidence, AnswerEvidence

LEMMA SameAdmissible == \A r, p : Ledger(r)!Admissible(p) = Admissible(p)
<1>1. \A r, p : Ledger(r)!AnswerAttempts(p) = AnswerAttempts(p)
  BY SameReply, SameChances
     DEF Ledger!AnswerAttempts, AnswerAttempts, Ledger!IsRetryable, IsRetryable
<1>2. \A r : Ledger(r)!ReusedEvidence = ReusedEvidence
  BY DEF Ledger!ReusedEvidence, ReusedEvidence, Ledger!None, None
<1>. QED
  BY <1>1, <1>2, SameReply, SameChances, SameUnknown, SameAnswer
     DEF Ledger!Admissible, Admissible

\* A run has recorded nothing before its turn, nor for a lock it is not done
\* with.
FreshInv ==
  \A r \in Runs, l \in Locks :
    r > run \/ (r = run /\ pc[l] # "done") => evidence[r][l] = ZeroEvidence

LedgerInv == ServerInv /\ CrowdInv /\ FreshInv

\* What a fetch does to the evidence: nothing, or it enters its lock.
LEMMA FetchRecords ==
  ASSUME LedgerInv, NEW l \in Locks, Fetch(l)
  PROVE  /\ UNCHANGED <<fixture, modes, run, main>> /\ main = "running"
         /\ pc[l] # "done" /\ \A k \in Locks : k # l => pc'[k] = pc[k]
         /\ \/ UNCHANGED evidence /\ pc'[l] # "done"
            \/ /\ pc[l] # "idle" /\ pc'[l] = "done"
               /\ \E e \in Admissible(ProfileOf(l)) :
                    /\ evidence'[run] = [evidence[run] EXCEPT ![l] = e]
                    /\ \A r \in Runs : r # run => evidence'[r] = evidence[r]
<1>. ServerInv /\ CrowdInv
  BY DEF LedgerInv
<1>1. /\ FetchStep(l) /\ pc[l] # "done"
      /\ pc[l] = "idle" => Start(l)
  BY FetchOwn, FetchMoves
<1>2. /\ pc \in [Locks -> {"idle", "attempt", "get", "body", "backoff", "done"}]
      /\ run \in Runs /\ evidence \in [Runs -> [Locks -> Evidence \cup {ZeroEvidence}]]
  BY DEF ServerInv, TypeOK
<1>3. UNCHANGED <<fixture, modes, run, main>> /\ main = "running"
  BY <1>1 DEF FetchStep, inputs, control
<1>4. \A k \in Locks : k # l => pc'[k] = pc[k]
  BY <1>1, <1>2 DEF FetchStep
<1>5. CASE UNCHANGED evidence /\ pc'[l] # "done"
  BY <1>1, <1>3, <1>4, <1>5
<1>6. CASE Ends(l)
  <2>1. PICK e \in Admissible(ProfileOf(l)) : Record(l, e)
    BY <1>6 DEF Ends
  <2>2. pc'[l] = "done" /\ pc[l] # "idle"
    BY <1>1, <1>2, <2>1 DEF Record, Start
  <2>3. evidence'[run] = [evidence[run] EXCEPT ![l] = e]
    BY <1>2, <2>1 DEF Record
  <2>4. \A r \in Runs : r # run => evidence'[r] = evidence[r]
    BY <1>2, <2>1 DEF Record
  <2>. QED
    BY <1>1, <1>3, <1>4, <2>2, <2>3, <2>4
<1>. QED
  BY <1>1, <1>5, <1>6 DEF FetchStep

LEMMA FreshStep == LedgerInv /\ [Next]_vars => FreshInv'
<1>. SUFFICES ASSUME LedgerInv, [Next]_vars PROVE FreshInv'
  OBVIOUS
<1>0. FreshInv /\ run \in Runs /\ TypeOK
  BY DEF LedgerInv, ServerInv, TypeOK
<1>1. ASSUME NEW l \in Locks, Fetch(l) PROVE FreshInv'
  <2>1. /\ run' = run /\ pc[l] # "done" /\ \A k \in Locks : k # l => pc'[k] = pc[k]
        /\ \/ UNCHANGED evidence /\ pc'[l] # "done"
           \/ /\ pc[l] # "idle" /\ pc'[l] = "done"
              /\ \E e \in Admissible(ProfileOf(l)) :
                   /\ evidence'[run] = [evidence[run] EXCEPT ![l] = e]
                   /\ \A r \in Runs : r # run => evidence'[r] = evidence[r]
    BY <1>1, FetchRecords
  <2>2. CASE UNCHANGED evidence
    BY <1>0, <2>1, <2>2 DEF FreshInv
  <2>3. CASE pc'[l] = "done"
    <3>1. ASSUME NEW r \in Runs, r # run PROVE evidence'[r] = evidence[r]
      BY <2>1, <3>1, <2>3
    <3>2. ASSUME NEW k \in Locks, k # l PROVE evidence'[run][k] = evidence[run][k]
      BY <1>0, <2>1, <2>3, <3>2 DEF TypeOK
    <3>3. ASSUME NEW r \in Runs, NEW k \in Locks,
                 r > run \/ (r = run /\ pc'[k] # "done")
          PROVE  evidence'[r][k] = ZeroEvidence
      <4>1. CASE r = run
        BY <1>0, <2>1, <2>3, <3>2, <3>3, <4>1 DEF FreshInv, Runs
      <4>2. CASE r # run
        BY <1>0, <3>1, <3>3, <4>2 DEF FreshInv
      <4>. QED
        BY <4>1, <4>2
    <3>. QED
      BY <2>1, <3>3 DEF FreshInv
  <2>. QED
    BY <2>1, <2>2, <2>3
<1>2. CASE EndRun
  <2>1. /\ UNCHANGED evidence
        /\ \/ run = 1 /\ run' = 2
           \/ run = 2 /\ run' = run /\ pc' = pc
    BY <1>0, <1>2 DEF EndRun, Runs
  <2>. QED
    BY <1>0, <2>1 DEF FreshInv, Runs
<1>3. CASE UNCHANGED <<run, pc, evidence>>
  BY <1>0, <1>3 DEF FreshInv
<1>. QED
  BY <1>1, <1>2, <1>3 DEF Next, Answer, Close, Tick, Closed, vars, control, fetching

LEMMA LedgerInvariant == Spec => []LedgerInv
<1>1. Init => FreshInv
  BY DEF Init, FreshInv, Runs
<1>2. ServerInv /\ CrowdInv /\ FreshInv /\ [Next]_vars => FreshInv'
  BY FreshStep DEF LedgerInv
<1>. QED
  BY <1>1, <1>2, CrowdInvariant, PTL DEF Spec, LedgerInv

\* What must be entered before a lock is entered when its fetch ends.
LEMMA PrerequisitesEntered ==
  ASSUME LedgerInv, main = "running", NEW r \in Runs, r = run,
         NEW l \in Locks, pc[l] # "idle", NEW p \in Ledger(r)!Prerequisites(l)
  PROVE  p \in Locks /\ evidence[r][p] # ZeroEvidence
<1>. DEFINE InOrder == [k \in Locks |-> k]
<1>1. Ledger(r)!Prerequisites(l) =
        IF modes[r] = "sequential" THEN Ledger(r)!Before(l) ELSE {}
  BY DEF Ledger!Prerequisites
<1>2. modes[r] = "sequential"
  BY <1>1
<1>3. PICK k \in DOMAIN InOrder :
        p = InOrder[k] /\ \E j \in DOMAIN InOrder : k < j /\ InOrder[j] = l
  BY <1>1, <1>2 DEF Ledger!Before
<1>4. p \in Locks /\ p < l
  BY <1>3
<1>5. pc[p] = "done"
  BY <1>2, <1>4 DEF LedgerInv, CrowdInv, OrderInv
<1>. QED
  BY <1>4, <1>5 DEF LedgerInv, ServerInv, RecordInv, TypeOK

\* A fetch that ends enters its lock in the ledger of the run under way.
LEMMA EndEnters ==
  ASSUME LedgerInv, main = "running", NEW r \in Runs, r = run,
         NEW l \in Locks, pc[l] \notin {"idle", "done"},
         NEW e \in Admissible(ProfileOf(l)),
         evidence'[r] = [evidence[r] EXCEPT ![l] = e],
         UNCHANGED <<fixture, modes, run, main>>
  PROVE  Ledger(r)!Enter(l)
<1>1. evidence[r][l] = ZeroEvidence
  BY DEF LedgerInv, FreshInv, ServerInv, TypeOK
<1>2. Phase(r) = "open" /\ Phase(r)' = "open"
  BY <1>1 DEF Phase, Runs
<1>3. ~Ledger(r)!Entered(l)
  BY <1>1, SameZero DEF Ledger!Entered
<1>4. \A p \in Ledger(r)!Prerequisites(l) : Ledger(r)!Entered(p)
  BY PrerequisitesEntered, SameZero DEF Ledger!Entered
<1>5. e \in Ledger(r)!Admissible(ProfileOf(l))
  BY SameAdmissible
<1>6. \A k \in Locks : ProfileOf(k)' = ProfileOf(k)
  BY DEF ProfileOf, DeadlineOf, Sleep
<1>. QED
  BY <1>2, <1>3, <1>4, <1>5, <1>6 DEF Ledger!Enter, Ledger!source

\* A run that returns emits a complete ledger.
LEMMA ReturnEmits ==
  ASSUME LedgerInv, EndRun, NEW r \in Runs, r = run
  PROVE  Ledger(r)!Emit
<1>1. /\ main = "running" /\ \A l \in Locks : pc[l] = "done"
      /\ UNCHANGED <<fixture, modes, evidence>>
      /\ IF r = 1 THEN run' = 2 ELSE main' = "closing"
  BY DEF EndRun, inputs
<1>2. Phase(r) = "open"
  BY <1>1 DEF Phase, Runs
<1>3. \A l \in Locks : Ledger(r)!Entered(l)
  BY <1>1, SameZero DEF Ledger!Entered, LedgerInv, ServerInv, RecordInv
<1>4. \A k \in Locks : ProfileOf(k)' = ProfileOf(k)
  BY <1>1 DEF ProfileOf, DeadlineOf, Sleep
<1>5. Phase(r)' = "emitted"
  BY <1>1 DEF Phase, Runs
<1>. QED
  BY <1>1, <1>2, <1>3, <1>4, <1>5 DEF Ledger!Emit, Ledger!source

LEMMA StepImplements == LedgerInv /\ [Next]_vars => LedgersStep
<1>. SUFFICES ASSUME LedgerInv, [Next]_vars, NEW r \in Runs
              PROVE  [Ledger(r)!LedgerNext]_(Ledger(r)!ledgerVars)
  BY DEF LedgersStep
<1>0. run \in Runs /\ TypeOK
  BY DEF LedgerInv, ServerInv, TypeOK
<1>1. CASE UNCHANGED <<fixture, modes, evidence[r], Phase(r)>>
  <2>1. \A k \in Locks : ProfileOf(k)' = ProfileOf(k)
    BY <1>1 DEF ProfileOf, DeadlineOf, Sleep
  <2>. QED
    BY <1>1, <2>1 DEF Ledger!ledgerVars, Ledger!source
<1>2. ASSUME NEW l \in Locks, Fetch(l)
      PROVE  [Ledger(r)!LedgerNext]_(Ledger(r)!ledgerVars)
  <2>1. /\ UNCHANGED <<fixture, modes, run, main>> /\ main = "running"
        /\ pc[l] # "done"
        /\ \/ UNCHANGED evidence
           \/ /\ pc[l] # "idle"
              /\ \E e \in Admissible(ProfileOf(l)) :
                   /\ evidence'[run] = [evidence[run] EXCEPT ![l] = e]
                   /\ \A q \in Runs : q # run => evidence'[q] = evidence[q]
    BY <1>2, FetchRecords
  <2>2. Phase(r)' = Phase(r)
    BY <2>1 DEF Phase
  <2>3. CASE evidence'[r] = evidence[r]
    BY <1>1, <2>1, <2>2, <2>3
  <2>4. CASE /\ r = run /\ pc[l] # "idle"
             /\ \E e \in Admissible(ProfileOf(l)) :
                  evidence'[r] = [evidence[r] EXCEPT ![l] = e]
    <3>1. Ledger(r)!Enter(l)
      BY <2>1, <2>4, EndEnters
    <3>. QED
      BY <3>1 DEF Ledger!LedgerNext
  <2>. QED
    BY <2>1, <2>3, <2>4
<1>3. CASE EndRun
  <2>1. CASE r = run
    BY <1>3, <2>1, ReturnEmits DEF Ledger!LedgerNext
  <2>2. CASE r # run
    <3>1. /\ UNCHANGED <<fixture, modes, evidence>>
          /\ IF run = 1 THEN run' = 2 /\ main' = main
                        ELSE main' = "closing" /\ run' = run
          /\ main = "running"
      BY <1>3 DEF EndRun, inputs
    <3>2. Phase(r)' = Phase(r)
      BY <1>0, <2>2, <3>1 DEF Phase, Runs
    <3>. QED
      BY <1>1, <3>1, <3>2
  <2>. QED
    BY <2>1, <2>2
<1>4. CASE (\E h \in handlers : Answer(h)) \/ Tick \/ Closed \/ UNCHANGED vars
  <2>1. UNCHANGED <<fixture, modes, evidence, run, main>>
    BY <1>4 DEF Answer, Tick, Closed, vars, inputs, control
  <2>. QED
    BY <1>1, <2>1 DEF Phase
<1>5. CASE Close
  <2>1. UNCHANGED <<fixture, modes, evidence>> /\ main # "running" /\ main' # "running"
    BY <1>5 DEF Close, inputs
  <2>. QED
    BY <1>1, <2>1 DEF Phase
<1>. QED
  BY <1>2, <1>3, <1>4, <1>5 DEF Next

\* Whatever the latencies, the deadline and the handlers left over from given-up
\* requests, also of the run before, each run of a pair is a ledger: an entry
\* per lock, in the order of the mode, with evidence the profile of the lock's
\* latency accounts for, nothing before the run's turn or after its return.
THEOREM LedgersImplemented == Spec => ImplementsLedgers
<1>1. Init => \A r \in Runs : Ledger(r)!LedgerInit
  <2>1. SUFFICES ASSUME Init, NEW r \in Runs PROVE Ledger(r)!LedgerInit
    OBVIOUS
  <2>2. Phase(r) = "open" /\ evidence[r] = [l \in Locks |-> ZeroEvidence]
    BY <2>1 DEF Init, Phase, Runs
  <2>. QED
    BY <2>2, SameZero DEF Ledger!LedgerInit
<1>2. LedgerInv /\ [Next]_vars => [LedgersStep]_vars
  BY StepImplements
<1>. QED
  BY <1>1, <1>2, LedgerInvariant, PTL DEF Spec, ImplementsLedgers

=============================================================================
