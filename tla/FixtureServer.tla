---------------------------- MODULE FixtureServer ----------------------------
(***************************************************************************)
(* The fixture server of RunPair and ReplayPair with time: one server for  *)
(* both runs, a handler for each request, which sleeps whatever its client *)
(* does, and clients that give up at their deadline and try again.         *)
(*                                                                         *)
(* FetchRun lets a profile say whether an answer meets the deadline.  Here *)
(* that follows from the declared latency and the two timers, so this      *)
(* module shows that FetchRun's profiles leave nothing out.                *)
(*                                                                         *)
(* Time passes in ticks.  A timer never fires early and at most Slack      *)
(* ticks late, the delay of the connection included; everything else takes *)
(* no time.  The locks of a run depend on nothing, so they are one wave,   *)
(* and no handler drops its connection.                                    *)
(***************************************************************************)
EXTENDS ProofLock, FiniteSets

CONSTANTS
  LockCount,         \* the locks are named by their canonical position
  ConcurrencyBound,  \* concurrency bound of the source
  Fixtures,          \* the fixtures considered, each a declaration per lock
  Timeout,           \* the client's deadline, 60 ms
  Grace,             \* the extra sleep of a timeout lock, 80 ms
  Backoff,           \* backoff_ms of the retry policy
  Slack              \* how late a timer may fire

Locks == 1..LockCount

\* A lock with its fixture record.
Declaration ==
  [behavior : Behaviors, status : HTTPStatuses \ {0},
   coordinate : Fields, digest : Fields, latency : Nat]

ASSUME TimingAssumption ==
  /\ LockCount \in Nat \ {0} /\ ConcurrencyBound \in Nat \ {0}
  /\ {Timeout, Grace, Backoff, Slack} \subseteq Nat
  /\ 0 < Timeout /\ Timeout < Grace
  /\ Fixtures \subseteq [Locks -> Declaration]

VARIABLES
  fixture,   \* the declaration of every lock
  modes,     \* the modes of the two runs
  run,       \* the run under way, 1 or 2
  main,      \* "running", "closing" in server.close, "closed"
  pc,        \* control of the fetch of each lock
  attempt,   \* attempt of each fetch
  elapsed,   \* time since the request, or the backoff, of a fetch began
  reply,     \* the answer to the request of a fetch has arrived
  handlers,  \* the handlers that run
  evidence   \* evidence[r][l]: what run r recorded for lock l

inputs   == <<fixture, modes>>
control  == <<run, main>>
fetching == <<pc, attempt, elapsed, reply>>
vars     == <<inputs, control, fetching, handlers, evidence>>

Runs == {1, 2}

\* A request of a run; its handler adds how long it has been running.
Request == [run : Runs, lock : Locks, attempt : 1..MaxAttempts]

\* How long the handler of a lock sleeps before it answers.
Sleep(l) ==
  fixture[l].latency + (IF fixture[l].behavior = "timeout" THEN Grace ELSE 0)

DeadlineOf(l) ==
  CASE Sleep(l) + Slack < Timeout -> "met"
    [] Sleep(l) > Timeout + Slack -> "missed"
    [] OTHER                      -> "either"

\* The lock as FetchRun sees it.
ProfileOf(l) ==
  [behavior |-> fixture[l].behavior, status |-> fixture[l].status,
   coordinate |-> fixture[l].coordinate, digest |-> fixture[l].digest,
   deadline |-> DeadlineOf(l)]

Status(l) == ReplyStatus(fixture[l])

\* The handler of the request the fetch of l is waiting for.
Serves(h, l) ==
  h.run = run /\ h.lock = l /\ h.attempt = attempt[l] /\ pc[l] = "get"

Waits(l) == pc[l] \in {"get", "body", "backoff"}

-----------------------------------------------------------------------------

Init ==
  /\ fixture \in Fixtures
  /\ modes \in {<<"sequential", "bounded-parallel">>,
                <<"bounded-parallel", "bounded-parallel">>}
  /\ run = 1 /\ main = "running"
  /\ pc = [l \in Locks |-> "idle"]
  /\ attempt = [l \in Locks |-> 0]
  /\ elapsed = [l \in Locks |-> 0]
  /\ reply = [l \in Locks |-> FALSE]
  /\ handlers = {}
  /\ evidence = [r \in Runs |-> [l \in Locks |-> ZeroEvidence]]

Active == {l \in Locks : pc[l] \notin {"idle", "done"}}

\* The sequential loop calls fetchLock in order, the goroutines of a wave do so
\* when they have a slot.
MayStart(l) ==
  IF modes[run] = "sequential"
    THEN \A k \in Locks : k < l => pc[k] = "done"
    ELSE Cardinality(Active) < ConcurrencyBound

Start(l) ==
  /\ main = "running"
  /\ pc[l] = "idle"
  /\ MayStart(l)
  /\ pc' = [pc EXCEPT ![l] = "attempt"]
  /\ UNCHANGED <<inputs, control, attempt, elapsed, reply, handlers, evidence>>

Record(l, e) ==
  /\ evidence' = [evidence EXCEPT ![run][l] = e]
  /\ pc' = [pc EXCEPT ![l] = "done"]

Reuse(l) ==
  /\ pc[l] = "attempt"
  /\ fixture[l].behavior = "reused"
  /\ Record(l, ReusedEvidence)
  /\ UNCHANGED <<inputs, control, attempt, elapsed, reply, handlers>>

\* Fault: every request of a lock is its first.
FaultyNextAttempt(l) == 1

NextAttempt(l) == attempt[l] + 1

\* client.Get, and the handler it starts.
Send(l) ==
  /\ pc[l] = "attempt"
  /\ fixture[l].behavior # "reused"
  /\ attempt' = [attempt EXCEPT ![l] = NextAttempt(l)]
  /\ elapsed' = [elapsed EXCEPT ![l] = 0]
  /\ reply' = [reply EXCEPT ![l] = FALSE]
  /\ handlers' = handlers \cup
       {[run |-> run, lock |-> l, attempt |-> NextAttempt(l), age |-> 0]}
  /\ pc' = [pc EXCEPT ![l] = "get"]
  /\ UNCHANGED <<inputs, control, evidence>>

\* Fault: an answer is taken for that of the request sent last.
FaultyDelivered(h) ==
  [l \in Locks |-> reply[l] \/ (h.lock = l /\ pc[l] = "get")]

\* The answer reaches the request it belongs to, if its client still waits.
Delivered(h) == [l \in Locks |-> reply[l] \/ Serves(h, l)]

\* A handler wakes up and answers.
Answer(h) ==
  /\ h \in handlers
  /\ h.age >= Sleep(h.lock)
  /\ handlers' = handlers \ {h}
  /\ reply' = Delivered(h)
  /\ UNCHANGED <<inputs, control, pc, attempt, elapsed, evidence>>

GetAnswers(l) ==
  /\ pc[l] = "get"
  /\ reply[l]
  /\ pc' = [pc EXCEPT ![l] = "body"]
  /\ UNCHANGED <<inputs, control, attempt, elapsed, reply, handlers, evidence>>

\* Fault: the deadline is taken for nanoseconds.
FaultyExpired(l) == elapsed[l] >= 0

Expired(l) == elapsed[l] >= Timeout

\* Fault: one attempt too many.
FaultyAttemptsLeft(l) == attempt[l] <= MaxAttempts

AttemptsLeft(l) == attempt[l] < MaxAttempts

\* time.Sleep before the next attempt.
BackOff(l) ==
  /\ AttemptsLeft(l)
  /\ pc' = [pc EXCEPT ![l] = "backoff"]
  /\ elapsed' = [elapsed EXCEPT ![l] = 0]
  /\ UNCHANGED evidence

\* The deadline ends the request; its handler goes on.
GetFails(l) ==
  /\ pc[l] = "get"
  /\ Expired(l)
  /\ \/ BackOff(l)
     \/ /\ ~AttemptsLeft(l)
        /\ Record(l, UnknownEvidence("HTTP_TIMEOUT", attempt[l]))
        /\ UNCHANGED elapsed
  /\ UNCHANGED <<inputs, control, attempt, reply, handlers>>

BodyFails(l) ==
  /\ pc[l] = "body"
  /\ Expired(l)
  /\ Status(l) = 200
  /\ Record(l, UnknownEvidence("HTTP_BODY_READ_FAILED", attempt[l]))
  /\ UNCHANGED <<inputs, control, attempt, elapsed, reply, handlers>>

RetriesAnswer(l) ==
  Status(l) # 200 /\ IsRetryable(Status(l)) /\ AttemptsLeft(l)

BodyRead(l) ==
  /\ pc[l] = "body"
  /\ \/ /\ RetriesAnswer(l)
        /\ BackOff(l)
     \/ /\ ~RetriesAnswer(l)
        /\ Record(l, AnswerEvidence(fixture[l], attempt[l]))
        /\ UNCHANGED elapsed
  /\ UNCHANGED <<inputs, control, attempt, reply, handlers>>

Resume(l) ==
  /\ pc[l] = "backoff"
  /\ elapsed[l] >= Backoff
  /\ pc' = [pc EXCEPT ![l] = "attempt"]
  /\ UNCHANGED <<inputs, control, attempt, elapsed, reply, handlers, evidence>>

\* The run returns; the next one has a client of its own on the same server.
EndRun ==
  /\ main = "running"
  /\ \A l \in Locks : pc[l] = "done"
  /\ IF run = 1 THEN run' = 2 /\ UNCHANGED main
                ELSE main' = "closing" /\ UNCHANGED run
  /\ pc' = IF run = 1 THEN [l \in Locks |-> "idle"] ELSE pc
  /\ attempt' = [l \in Locks |-> 0]
  /\ elapsed' = [l \in Locks |-> 0]
  /\ reply' = [l \in Locks |-> FALSE]
  /\ UNCHANGED <<inputs, handlers, evidence>>

\* The deferred server.close waits for the handlers.
Close ==
  /\ main = "closing"
  /\ handlers = {}
  /\ main' = "closed"
  /\ UNCHANGED <<inputs, run, fetching, handlers, evidence>>

\* Nothing is due: no step that takes no time is left to take, and no timer is
\* at the end of its slack.
Idle(l) ==
  \/ pc[l] = "done"
  \/ pc[l] = "idle" /\ main = "running" /\ ~MayStart(l)
  \/ pc[l] = "get" /\ ~reply[l] /\ elapsed[l] < Timeout + Slack
  \/ pc[l] = "backoff" /\ elapsed[l] < Backoff + Slack

Tick ==
  /\ \A l \in Locks : Idle(l)
  /\ \A h \in handlers : h.age < Sleep(h.lock) + Slack
  /\ handlers # {} \/ \E l \in Locks : pc[l] = "backoff"
  /\ elapsed' = [l \in Locks |-> IF Waits(l) THEN elapsed[l] + 1 ELSE elapsed[l]]
  /\ handlers' = {[h EXCEPT !.age = @ + 1] : h \in handlers}
  /\ UNCHANGED <<inputs, control, pc, attempt, reply, evidence>>

Fetch(l) ==
  \/ Start(l) \/ Reuse(l) \/ Send(l) \/ GetAnswers(l) \/ GetFails(l)
  \/ BodyFails(l) \/ BodyRead(l) \/ Resume(l)

Closed == main = "closed" /\ UNCHANGED vars

Next ==
  \/ (\E l \in Locks : Fetch(l)) \/ (\E h \in handlers : Answer(h))
  \/ EndRun \/ Close \/ Tick \/ Closed

\* The machine goes on, and time with it.
Spec == Init /\ [][Next]_vars /\ WF_vars(Next)

-----------------------------------------------------------------------------
(* Properties *)

\* The type of every variable.
TypeOK ==
  /\ fixture \in Fixtures
  /\ modes \in [Runs -> {"sequential", "bounded-parallel"}]
  /\ run \in Runs /\ main \in {"running", "closing", "closed"}
  /\ pc \in [Locks -> {"idle", "attempt", "get", "body", "backoff", "done"}]
  /\ attempt \in [Locks -> 0..MaxAttempts]
  /\ elapsed \in [Locks -> Nat] /\ reply \in [Locks -> BOOLEAN]
  /\ \A h \in handlers :
       /\ h.age \in Nat
       /\ [run |-> h.run, lock |-> h.lock, attempt |-> h.attempt] \in Request
  /\ evidence \in [Runs -> [Locks -> Evidence \cup {ZeroEvidence}]]

\* What run r has promised so far: nothing to be emitted before it returns.
Phase(r) == IF run > r \/ main # "running" THEN "emitted" ELSE "open"

\* Of the dependencies a run waits for, MayStart keeps only how many fetches
\* there are at once.
Ledger(r) == INSTANCE EvidenceLedger WITH
  fixture <- [l \in Locks |-> ProfileOf(l)],
  deps    <- [l \in Locks |-> {}],
  Order   <- [l \in Locks |-> l],
  mode    <- modes[r],
  ledger  <- evidence[r],
  phase   <- Phase(r)

\* runner.go:41: "the client deadline, rather than a guessed zero duration,
\* determines the UNKNOWN result".  Whatever handlers of given-up requests still
\* run, of this run or of the one before on the same server, each run of a pair
\* is a ledger like that of FetchRun: a lock is entered once, in the order of
\* the mode, with evidence its profile accounts for, so a late answer is never
\* taken for that of a retry, and nothing is entered in a run before its turn
\* or after its return.
LedgersStep == \A r \in Runs : [Ledger(r)!LedgerNext]_(Ledger(r)!ledgerVars)

ImplementsLedgers == (\A r \in Runs : Ledger(r)!LedgerInit) /\ [][LedgersStep]_vars

\* The declared bound is one of clients: abandoned handlers come on top of it,
\* but a slot abandons one only every Timeout, so while the longest handler
\* runs it leaves no more behind than fit into that time.
LongestRun == CHOOSE n \in {Sleep(l) + Slack : l \in Locks} :
                \A l \in Locks : Sleep(l) + Slack <= n

HandlersBounded ==
  Cardinality(handlers) <= ConcurrencyBound * (LongestRun \div Timeout + 1)

\* Where no latency races the deadline, the two runs of a pair record the same,
\* although they share a server that has not finished with the first.
RunsAgree ==
  main = "closed" =>
    \A l \in Locks :
      DeadlineOf(l) # "either" => evidence[1][l] = evidence[2][l]

\* RunPair and ReplayPair return: server.close waits only for handlers that
\* wake up by themselves.
PairReturns == <>(main = "closed")

=============================================================================
