# A TLA+ model of the deterministic proof fetch scheduler

The program (`src/`, one Go module) fetches 53 *proof locks* over HTTP from a
fixture server on the loopback interface, first one after the other and then
with at most eight requests in flight. It compares the evidence of the two runs,
replays the parallel one twice, evaluates nine canonical cases and writes a
report. The claim behind it is that concurrency, completion order, retries and
timeouts leave no trace in the evidence, except where an answer really races
the client's deadline.

These modules model that program, TLC checks them on small instances, and TLAPS
proves every invariant, action property and refinement that is checked for every
value of the constants.

## 1. Inventory

| Component | Code | State | Operations | What makes it correct |
|---|---|---|---|---|
| Scheduler run | `internal/scheduler/runner.go` `run`, `buildWaves`, `fetchLock`, `summarizeMetrics` | wave of each lock, WaitGroup, semaphore, one goroutine per lock of a wave, attempt of each fetch, evidence slice | refuse or start, number the waves, spawn, acquire, send, fail, answer, retry, record, release, signal, next wave, return | requests bounded, dependencies first, every slot written once, all or nothing, always returns, the evidence is what the lock's profile accounts for |
| In-flight meter | `runner.go` `inflightMeter` | two atomic counters | `begin` (add, load, compare-and-swap loop), `end` | the peak neither over- nor understates |
| Source validation | `source.go` `Validate`, `validateDAG`; `model.go` `validateSource` | degrees, ready queue | checks in order, build the graph, pop, compare | accepted exactly when there is no cycle; always returns |
| Commands and comparison | `main.go`, `runner.go` `RunPair`, `ReplayPair`, `ComparePair`, `EvaluateCanonicalCases`, `output.go` (decision) | results of up to four runs, decision | load, run, compare, replay, evaluate, write, exit | the verdict misses and invents no difference; a closed report rests on exact runs |
| Fixture server | `runner.go` `newFixtureServer`, `RunPair`, `ReplayPair` | the handlers that run, of both runs of a pair | sleep, answer, outlive a client that gave up, close | a late answer is never taken for that of a retry; both runs agree; `Close` returns |
| Evidence output | `output.go` `WriteOutputs`, `digestOutputs`; `main.go` | ten file names in a directory of the caller | truncate, fill, digest, write the report last, stop anywhere | files that agree with the digests of a report are of one invocation |
| Parser and loaders | `source.go` `ParseSourceBytes`, `Load*` | the source so far | scan a line, refuse it, load the fixtures | of each declaration the last counts; each lock and case has one record |
| Worker generator | `generator.go` | none | source to Go text | deterministic text |
| Memory measurement | `measurement.go` | none | ask `getrusage`, else the Go runtime | none the rest depends on |
| CI and release | `.github/workflows`, `scripts/` | tag, releases, jobs | look, check the tag, conform, draft, publish, verify, die, rerun | what is published is the closed output of the tag's commit and stays |

How they interact. A command loads its inputs (parser, loaders), validates them
(source validation) and calls `RunPair`, and the conformance `ReplayPair` too.
Each of these starts one fixture server for its two runs and closes it when it
returns. A run has a client and a meter of its own, but the handlers of requests
that its client gave up on go on in the shared server while the second run is
under way. Inside one run the main goroutine and the fetch goroutines share the
meter (atomics), the semaphore (a buffered channel made afresh for each wave),
the WaitGroup and the evidence slice (each goroutine writes one index of it).
Nothing is persisted before the output is written, and the release job sees
nothing of the program but that output.

What is hard here:

- the interleaving of the goroutines of a wave with one another and with the
  main goroutine, and the hand-over from one wave to the next;
- the 60 ms client deadline racing an answer, before the headers and again
  before the body, and the retries that follow;
- the compare-and-swap loop of the meter;
- the counting of dependency entries in `validateDAG` when a list repeats one;
- handlers that outlive their client, and the second run of a pair that meets
  them on the same server;
- what timing may and may not do to the verdict of a pair or of a replay;
- the file sequence of the output, which can stop half way in a directory that
  holds an earlier one;
- the release job, which can die anywhere, be run again, and race another.

`PROJECT.json` lists each hazard at its line with the properties aimed at it.

## 2. Modules

| Module | Models |
|---|---|
| `ProofLock` | the data of one lock, what the fixture server answers for it, what evidence an answer becomes, and the evidence a whole fetch may end with (`Admissible`) |
| `EvidenceLedger` | the abstract specification of a run: an append-only ledger, one entry per lock, in an order the mode promises |
| `FetchRun` | `run` with all it calls, both modes; implements `EvidenceLedger` |
| `InflightMeter` | `begin` and `end` at the grain of one atomic operation |
| `FixtureServer` | `RunPair` and `ReplayPair` with time: two runs, their clients' deadlines and the handlers of the server they share; each run implements `EvidenceLedger` |
| `InputLoading` | `ParseSourceBytes`, `LoadContract`, `LoadFixture`, `LoadCasesFixture` in the order of `loadInputs` |
| `SourceValidation` | `Validate`, `validateSource`, `validateDAG` |
| `Commands` | compile, integration and conformance over validated inputs |
| `EvidenceOutput` | the files of the three commands, written in their order and interrupted anywhere |
| `ImmutableRelease` | the release job, several at once, composed with `EvidenceOutput` |
| `MC*` | the instances TLC checks |
| `ProofLock_proofs` | lemmas on the evidence of one lock, and on counting fetches, used by three of the modules below |
| `FetchRun_proofs`, `InflightMeter_proofs`, `InputLoading_proofs`, `SourceValidation_proofs`, `Commands_proofs`, `FixtureServer_proofs`, `ImmutableRelease_proofs` | the theorems |

How they fit together, from the input to the release:

- `InputLoading` decides which sources reach `SourceValidation`, and that decides
  which reach `FetchRun`.
- `FetchRun` takes from a lock's profile whether an answer meets the deadline.
  `FixtureServer` derives just that from the declared latency and the timers,
  over both runs of a pair, and each of them implements the same ledger as
  `FetchRun` does (`ImplementsLedgers`), so the profiles leave nothing out. `InflightMeter` justifies that `FetchRun` takes `begin` as one step.
- `FetchRun` refines `EvidenceLedger`: checked by the runs `fetch_graphs` and
  `fetch_sweep`, proved in `FetchRun_proofs`. `FixtureServer` refines it once for
  each of its two runs: checked by the run `server`, proved in
  `FixtureServer_proofs`.
- `Commands` composes two or four runs and takes each from the ledger's point of
  view: any complete slice of `Admissible` evidence.
- `EvidenceOutput` writes what `Commands` decides, and `ImmutableRelease` has its
  jobs conform in a directory each.

### FetchRun

A goroutine is named by the position of its lock in the canonical order.

| TLA+ | Go |
|---|---|
| `main`, `cursor`, `wave` | where `run` (and `buildWaves` inside it) is |
| `waveByID`, `maxWave` | the same names in `buildWaves` |
| `group`, `slots` | counter of `sync.WaitGroup`, tokens in `semaphore` |
| `pc[i]` | `queued` before the channel send, `attempt` at the head of the retry loop, `get` inside `client.Get`, `body` after it, `release` and `signal` the two deferred calls |
| `attempt[i]`, `evidence[i]` | `attempt` of `fetchLock`, `evidence[index]` |
| `inflight`, `peak` | `inflightMeter` |
| `fixture`, `deps`, `mode`, `concurrency` | the inputs, fixed for a run |

What the model abstracts:

- A lock is a `Profile`: behavior, HTTP status of the fixture, whether the
  observed coordinate and digest are the declared ones, others or empty, and
  whether its answer meets the deadline always, never or sometimes. Declared
  latency is part of that last field. A `timeout` lock never surely meets it.
- Status 0 stands for every value `WriteHeader` panics on: the connection drops
  without an answer. Informational (1xx) statuses are left out: `net/http`
  treats them as interim. A redirect status without a Location header is
  returned as an answer, which is what the client does.
- `Attempts` and `RequestCount` are always equal and share a field. The UNKNOWN
  reason stands for the six-field tuple it selects. The backoff before a retry
  is not a step: a goroutine may rest before any step.
- Lock IDs that contain a slash, which `path.Base` would cut, are left out. So
  are the `json.Marshal` errors of plain structs and the last return of
  `fetchLock`, which no path reaches.
- `OrderAssumption`: each lock is in the canonical order once. `Validate` does
  not quite enforce this, see finding 2. Without it two goroutines would write
  one slot, a data race, and the model would have nothing to say.
- A lock's wave is found as the `w` that `IsWaveOf` determines; `0..Len(Order)`
  bounds the search and loses nothing, a wave number never exceeds the number of
  locks.

### InflightMeter

`Add`, `Load`, `Swap`, `End` are single atomic operations. `high` is a history
variable. Between `Add` and the end of `begin` the peak may lag; whenever no
`begin` is under way it is exact, and `run` reads it only after all fetches are
over.

### FixtureServer

| TLA+ | Go |
|---|---|
| `run`, `main` | the call of `run` under way in `RunPair` or `ReplayPair`; the deferred `server.close` |
| `pc[l]`, `attempt[l]` | as in `FetchRun`, without the goroutines' hand-over |
| `elapsed[l]` | the client's timer of a request, or the sleep of a backoff |
| `handlers` | the running handlers, each with its request and the time it has slept |
| `reply[l]` | the answer to the request that is waited for has arrived |
| `Sleep(l)` | the declared latency, and 80 ms more for a `timeout` lock |

Time passes in ticks, and only when nothing else can be done. Every timer fires
at its time or up to `Slack` ticks late, and the slack also stands for the time a
connection takes; hence an answer *meets*, *misses* or *races* the deadline
(`DeadlineOf`). The locks of a run depend on nothing, so that they are one wave:
the waves are `FetchRun`'s. Handlers that drop the connection (status 0) are left
to `FetchRun` as well, because `net/http` may by itself repeat a request on a
connection that was kept alive. `Close` comes after the comparison, since it is
deferred.

### InputLoading

A line is its first word and its fields; the split of a line (`parseFields`,
comments) and JSON decoding come before the model. Every value, a name too, is the
list of its parts between commas, so `parseInt` refuses a value with two of them
and `splitList` drops empty ones and `-`. The forbidden validations of a guardrail,
which the code splits at bars, stand as their value. Every line that
`ParseSourceBytes` refuses fails the load with an empty source; so does one that
does not fit the scanner's buffer (`fits`), which `scanner.Err` reports. Each of
the files, the source included, may be unreadable (`UnreadableSource`,
`Unreadable`). A record keeps what `LoadFixture` looks at: the lock, the status,
whether coordinate and digest are there, the mode.

### SourceValidation

IDs are integers ordered as the strings are. Checks on data nothing else depends
on (headers, digests, authority, the other fields of the contract) are *opaque*: a
source fails them or not, at their place in the sequence. The number of locks is
compared with the contract's `fixedLockCount` and with 53 (`LockDenominator`). The code looks at one lock after another,
at its ID and then at its fields; the model checks all IDs, then all fields, and
does not keep which of the two an error names first. The queue is kept as how often it holds
each ID, because `validateDAG` sorts it before every pop; for the same reason
the iteration order of Go's maps never shows.

### Commands

One action per call that can fail or end a phase. The wall times of a pair are a
free choice of which is lower. A semantic root is the slice itself (a digest
without collisions). `ordered` says whether `buildWaves` accepts the order; it
fails only after the sequential baseline was fetched, as in `RunPair`. The case
kind `exact` stands for every kind without a rule of its own. A declared case
without a fixture is excluded by `LoadCasesFixture` (`FixturesComplete`).

### EvidenceOutput

| TLA+ | Go |
|---|---|
| `Writes(command)` | the calls of `os.WriteFile` of a command, in their order |
| `Open`, `Fill` | the two halves of `os.WriteFile`: create or truncate, then write |
| `Digests` | `digestOutputs`, which reads back six artifacts for the human report and seven for the report |
| `Stop` | an error of any call, or a kill |
| `dir[o][f]` | the file, with the invocation that opened it last |

Files with a wall time in them differ between any two invocations, the others
between *versions*: the inputs and what timing made of the evidence. Equal bytes
have equal digests and no others do. Each owner has one directory and runs one
command in it at a time, which is what the documentation means by a caller-owned
output directory; two commands at once in one directory are not promised
anything.

### ImmutableRelease

| TLA+ | `immutable-release.yml` |
|---|---|
| `PushTag`, `Rerun` | `on.push.tags`; a failed job is started again for the commit it had |
| `Look` | the lookup of an existing release |
| `CheckTag` | the tag is annotated and points to `GITHUB_SHA` |
| `Conform`, `Conformance`, `Decide` | build, tests and audit, the conformance, `jq` on its report |
| `Create`, `Publish` | `gh release create --draft`, `gh release edit --draft=false` |
| `Verify`, `ForGood` | the check that the release of the tag is no draft and immutable |
| `Fail` | the end of a step with an error, or of the runner |

GitHub and `gh` are external, modelled by how the job uses them: a lookup that
gets no answer reads as "no release"; drafts are found like published releases; a
tag has at most one published release; with immutable releases the tag of a
published one can no longer move. The workflow has no lock around the job and does not look at the tag again
before it creates the release. `alone` and `moved` are history variables that say
which promises this costs: of two jobs that overlap, or of one whose lookup got no
answer, the tag may be left with two releases (`OneRelease`), and a tag that moves
after the check leaves a release of the commit it had (`PublishedCommitTagged`).
Neither property says anything of those two races. What holds in them all the same
is stated without the two variables: nothing partial, mixed or open is published
(`PublishedIsClosed`), and once a job has succeeded, what is published and the
tag stay as they are, whatever its rivals still do (`SuccessIsFinal`).
`caller` tells the behaviors with jobs from those in which someone at a shell runs
the three commands in one directory again and again.

Three things the model shows of the job without a run of their own. README line 64
says that the tag is verified to point to "the exact main commit"; the job
compares it with `GITHUB_SHA` and never with `main`. The test of
`target_commitish` after publication ends in `|| true` and decides nothing; what
makes the commit right is the check before, up to a tag that moves in between
(`PublishedCommitTagged`). A job that dies between draft and publication leaves
its draft, and every rerun refuses it until someone removes it by hand.

## 3. Runs

| Run | Instance | Question |
|---|---|---|
| `fetch_graphs` | 4 locks, 3 graphs, 2 slots, concurrency 0 to 3, 2 fixtures, 2 attempts | Does every interleaving keep the bound and the barrier, return all or nothing, account for every request, terminate, and implement the ledger? |
| `fetch_sweep` | 1 lock, every behavior, 8 statuses, every field value, every deadline, 3 attempts | Is each verdict sound, and determined by the profile where nothing races? |
| `meter` | 3 goroutines for ever | Is the peak exact and monotone, and does `begin` return? |
| `source` | 3 locks, every list of up to 2 entries over 4 IDs; every order of up to 4 entries; every check | Is a source refused for a cycle exactly when it has one? |
| `commands` | 2 locks of 8 kinds, 3 case lists, all commands | Is each verdict exactly what the slices justify? |
| `server` | 3 locks on 2 slots, both runs, 2 attempts; a tick of 20 ms, deadline 3 ticks, slack 1; three fixtures | What do handlers that outlive their client do to the ledger of each run, to the second run, to the number of requests the server holds, and to `Close`? |
| `inputs` | a pool of 25 lines, every text of up to 2 and every well-formed one of 3; fixtures and cases of up to 2 records | Which declaration counts, and has every lock its record? |
| `delivery` | 3 commands in one directory; 2 jobs, 2 commits, a tag that may move | Can a mixed output pass for a whole one, what can be published, and does a success stay? |
| `fetch_order`, `source_order`, `source_authority`, `commands_replay` | as above, one property each | The findings of section 6. |

Why the bounds are enough:

- Two slots with a wave of three locks (`Fan`) make goroutines queue; a wave of
  two between two single ones (`Diamond`) makes the barrier matter in both
  directions; `Backward` makes `buildWaves` refuse. Requested concurrencies 0
  and 3 are the two refusals. Two attempts already give a retry that succeeds,
  one that fails and a last one.
- The classification treats each lock alone, so one lock with every profile
  covers it. `Statuses` has each status the code singles out, 500 (the
  handler's default), and 0. Statuses 408, 429 and 500 retryable and the others
  not gives both branches for the same reason code.
- Three goroutines are needed for a swap to fail because of one thread while a
  second has passed; the theorem covers any number.
- Three locks give self-loops, two-cycles, three-cycles and repeated entries;
  the fourth ID is the undeclared one.
- Verdicts of a comparison are about the first differing lock, so two locks
  suffice to have one that agrees before one that differs. The conformance
  command, with four runs, races at most one of its locks; integration races
  both.
- In `server`, a latency of one tick meets the deadline, three race it, and a
  `timeout` lock misses it with a handler that outlives its client by one to three
  ticks: long enough to meet the retry, the third lock's start and the second
  run. The fixture of three `timeout` locks on two slots is the one that holds
  the most handlers. Races are for two attempts what they are for three.
- In `inputs`, repetition shows in two lines of a kind; the third lets another
  declaration come between them, and `TwoOfEach` has two locks with two cases.
  Locks, cases and repeated declarations differ in every field, so a field that is
  lost, swapped, merged or out of order shows.
- In `delivery`, a second invocation leaves a mixture with the first and a third
  meets a directory that is one already. Two jobs give every race of a job with a
  rival or with its rerun; a third could only repeat one of the two. `Limit` caps
  the invocations of an owner.

`MaxAttempts` is a constant of the program's input (1 to 3), not a cap added for
the model. The only unbounded behaviour is the meter's, whose state is finite.

**Fairness.** `FetchRun` assumes weak fairness of the main goroutine and of each
fetch goroutine. The Go scheduler runs every runnable goroutine, a blocked
channel send or `Wait` is not enabled in the model either, and the client
`Timeout` makes every `Get` and every body read return. No fairness is assumed
for which goroutine gets a slot, nor that a race is ever won.
`InflightMeter` assumes weak fairness only inside `begin`, never that a
goroutine begins or ends a request. `SourceValidation` is one goroutine that
runs until it returns. `FixtureServer` assumes weak fairness of the next-state
relation as a whole: some step is taken as long as there is one, and so time goes
on, which is all `server.close` waits for. `Commands`, `InputLoading`,
`EvidenceOutput` and `ImmutableRelease` state safety only and need none; a
command or job may stop anywhere.

Deadlock is checked in every run: the terminal states have an explicit
stuttering action (`Returned`, `Exited`, `Closed`, `Over`), so any other stop is
an error. For `FixtureServer` this matters most: a state where no step is due and
time cannot pass would be one in which the timers contradict each other.

**Broken on purpose.** For every property of a passing run, `PROJECT.json` names
a faulty variant of one definition of the model, and substituting it makes TLC
find the property violated: a slot kept back, a wave too low, an attempt too
many, an uncompared swap, a degree that counts repeats once, a replay left out
of the report and so on. The variants stand before the definition they alter,
under a name that begins with `Faulty`.

## 4. Proofs

All theorems hold for any number of locks, threads, owners or jobs, any graph,
order, fixture, latency and bound allowed by the named assumptions
(`RetryAssumption`, `SourceAssumption`, `OrderAssumption`, `ThreadAssumption`,
`ParseAssumption`, `InputAssumption`, `CommandsAssumption`, `TimingAssumption`, `OutputAssumption`,
`JobAssumption`), each of which TLC evaluates in a run.

Every invariant, action property and refinement that a passing run checks is
stated by a theorem. Liveness stays with TLC.

**`ProofLock_proofs`** has what the others need of a lock: each way `fetchLock`
ends yields evidence in `Admissible`; admissible evidence is well formed
(`AdmissibleType`) and sound (`AdmissibleSound`); and it is unique if no answer
races the deadline (`DeterminateIsUnique`). It also has the arithmetic of
fetches that move between groups of states (`At`, `AtMove`), on which the meter,
the semaphore, the WaitGroup and the server's slots rest.

**`FetchRun_proofs`** proves `[]TypeOK`, `[]InFlightBounded`,
`[]DependenciesFirst`, `[]AllOrNothing`, `[]EvidenceDetermined`,
`[]VerdictSound`, `[]MetricsAccount` and `Spec => ImplementsLedger` through five
inductive invariants, each of which includes the one before:

1. `TypeInv`: types, with two additions. `AttemptInv` says that a goroutine
   about to send has an attempt left, without which `attempt` would not stay in
   its type; `ControlInv` says which fetches can be active at each place of the
   main goroutine.
2. `BoundInv` adds `CountInv` (the meter, the semaphore and the WaitGroup each
   equal the number of goroutines in the states they count) and `PeakInv`.
   `InFlightBounded` alone is not inductive: a request is sent without looking
   at the meter, and it is the semaphore that keeps the number down.
3. `RunInv` adds `RecordInv` (evidence is written exactly between the end of a
   fetch and the deferred calls), `BuildInv` (a lock's wave is above its
   dependencies') and `WaveInv` (lower waves are over, higher ones have not
   begun). `DependenciesFirst` follows from the three together.
4. `EntryInv` says what the attempts of a fetch tell of its profile: a second
   attempt means that the first may have failed or was told to retry, a body that
   an answer can arrive. Without it, the evidence at the end could not be shown
   admissible. `EvidenceDetermined` and `VerdictSound` follow with the lemmas of
   `ProofLock_proofs`.
5. `RequestInv` says that the attempts a fetch records are the requests it has
   sent, and that a reused lock sends none. `MetricsAccount` follows, since the
   groups of `summarizeMetrics` partition the locks (`GroupsCounted`); the two
   sums are of equal functions, so no induction over a fold is needed.

For the refinement, the ledger of a run is its evidence slice, named by lock
(`LedgerOf`). The end of a fetch enters one lock, whose prerequisites are in by
`WaveInv` or by the order of the sequential loop; the two ways to return are
`Emit`, the two errors `Refuse`, and every other step leaves the ledger as it is.

`RefusedForCause` says what a run is refused for, with an invariant of its own
(`RefusalInv`: `buildWaves` has come as far as the order respects the
dependencies). It is a concurrency out of range or, in parallel mode, an order
in which a lock precedes one it depends on, and nothing else; a run that gets
further is free of both. That is the exact extent of finding 1.

**`InflightMeter_proofs`** proves `[]TypeOK`, `[]PeakExact` and `PeakMonotone`
from `MeterInv`: the counter equals the number of threads past `Add`, and
whenever the peak is below the highest count some thread inside `begin` is
carrying that count (`PeakOnItsWay`).

**`SourceValidation_proofs`** proves `[]TypeOK`, `[]GraphBooks`,
`[]AcceptedIsAcyclic` and `[]CycleIsReal` from `GraphInv`: the books hold, no popped lock is in a core (a
set whose members all depend on members), and when the queue is dry the locks
left over form one. Both directions of the verdict follow without induction
over paths.

**`InputLoading_proofs`** proves `[]TypeOK`, `[]LastWordCounts` and
`[]FixturesComplete`. `LastWordCounts` says of the text as a whole what the parser
does line by line: of each declaration that replaces the earlier one there is a
latest line (`Latest`), or none, that gives the source every field of that
declaration; locks and cases stand, field by field, at the rank of their line among
the lines of their kind (`Rank`). It is a conjunction of named parts
(`LastAuthority` to `LastCanonical`, `EveryLock`, `EveryCase`), and says what a line
gives to a key (`Given`) without the functions the parser is modelled with; `GivenOnce`,
`ValueGiven` and `NumberGiven` show that the two agree. The proof goes by what one line
does: it says what it declares (`Said`), leaves every kind but its own alone
(`DeclareParts`) and has the next rank among its own (`RankBounds`).
`FixturesComplete` is a pigeonhole argument (`CountedOneToOne`): as many records as
declarations, each a declared ID and none seen before, name every ID exactly once,
and so no ID was declared twice. `LoadedInv` keeps it until the last loader is
done. `InputAssumption` has what is needed of the inputs: texts are sequences of
lines, and `Atoi` is a partial function to the integers that does not accept the
empty string, as `strconv.Atoi` does not; hence a line without its numbers is
refused.

**`Commands_proofs`** proves `[]TypeOK`, `[]PairVerdictExact`,
`[]CounterexampleShown`, `[]VerdictPrecedence`, `[]TimingCannotRefute` and
`[]ClosedReport` from `CommandInv`: the inputs are as loaded (`InputInv`), the
comparison is that of the two slices (`PairInv`), the receipt that of the two
replays (`ReplayInv`), and the decision follows from both and from the cases
(`DecisionInv`). That two different slices have a first difference rests on the
well-foundedness of the finite sets of positions, not on their number.

**`FixtureServer_proofs`** proves `[]TypeOK`, `[]RunsAgree`, `[]HandlersBounded`
and `Spec => ImplementsLedgers` from three inductive invariants:

1. `ServerInv`. Its heart is `TimeInv`: as long as a request is under way, its
   client and its handler have measured the same time, and exactly one handler
   serves it. So a client that gives up has a handler that could not surely have
   answered (`ExpiredCanFail`), and an answer comes from a sleep that fits into
   the deadline (`AnsweredCanAnswer`). `HandlerInv` (the handlers of the current
   run have at most the attempt of their lock, all others serve nobody) is what
   keeps late answers away from a retry and from the second run. `AttemptInv`
   plays the part of `EntryInv` above.
2. `CrowdInv` bounds the handlers. A handler younger than the deadline still has
   its client (`YoungInv`), and there is one client for each active fetch, of
   which there are no more than slots (`ActiveInv`; in the sequential mode because
   of `OrderInv`). As all ages grow together, handlers that started within one
   deadline of each other were young at the same time and are no more than that
   either (`WindowInv`). No handler outlives its sleep by more than the slack
   (`AgeInv`), so the windows that cover the longest sleep cover all handlers.
3. `FreshInv`: a run has recorded nothing before its turn, nor for a lock it is
   not done with.

For the refinement, `Ledger(r)` instantiates `EvidenceLedger` once for each run,
with its slice and with the phase its return puts it in. A fetch that ends
enters its lock into the ledger of the current run, with evidence that is
admissible by `ServerInv`, once by `FreshInv` and in order by `OrderInv`; the
return of a run emits it; every other step leaves both ledgers as they are. The
locks of this module have no dependencies, so the waves are `FetchRun`'s promise
alone.

**`ImmutableRelease_proofs`** proves the seven properties of the run `delivery`
from one inductive invariant, in two layers. For each owner, `OutputInv` says
which files the invocation under way has written (`WrittenInv`), that no file is
of a later invocation (`AgeInv`), which are older (`OlderInv`), what stands beside
a complete report (`BesideInv`), and that its digests are of what its own
invocation wrote (`DigestInv`), from which `MixtureNoticed` follows. For the jobs,
`ConformanceInv` ties a job that creates a release to a closed report, and four
promises about releases have a part each. `CompleteInv` and `AssetsInv` carry
`PublishedIsClosed`: a release that holds anything is complete, and once a job is
about to publish there is a complete one. `TaggedInv` carries
`PublishedCommitTagged`, `AloneInv` carries `OneRelease`: of the jobs that had the
tag for themselves at most one is between its lookup and its draft, and then none of
them has a release yet. `DoneInv` carries `SuccessIsFinal`: after a
success there is a published release in a repository that protects it, and no step
takes either away (`ForGoodStays`). `OutputImplemented` shows the composition faithful to its part: whatever
the jobs do, the directories behave as `EvidenceOutput` says.

Only model-checked: liveness (`Termination`, `BeginReturns`, `ValidateReturns`,
`PairReturns`). Fairness and ENABLED are out of the prover's reach.

## 5. Not modelled

- The worker generator (`generator.go`): text without state.
- The memory measurement (`measurement.go`): a number nothing depends on. With
  it the rendering of reports and `MeasureInventory`, which count and format, and
  `buildSchedule`, which sorts data for the report.
- The split of a line into fields, comments, and the JSON decoder; flags.
- Hashes: a semantic root and a digest are what they are taken of.
- `ci.yml` and the scripts: the same commands one after another, nothing kept.
- A comparison of the replays with the candidate: the code makes none, and no
  document promises one.
- `FixtureServer` and `FetchRun` are not one module. The first has time and
  abandoned handlers, the second waves, the semaphore and the meter; they meet in
  `Admissible`, and a product of the two would be out of TLC's reach.

What could still be added: `InputLoading` composed with `SourceValidation`, so
that the sources considered are those that texts can say; `FetchRun` with
`InflightMeter` in place of the single step it takes `begin` for; and a meter in
`FixtureServer`, which would show that the reported peak counts clients and
never handlers.

## 6. Findings

1. **Canonical order restricts scheduling** (run `fetch_order`).
   `docs/protocol-v1.md` says the order "is used only for emission and
   comparison". `buildWaves` (`runner.go:207`) walks it and gives up at a lock
   that sorts before one it depends on. Such a source passes `Validate`, its
   baseline is fetched in full, and then the pair fails.
2. **"every lock exactly once" is not checked** (run `source_order`). The check
   at `model.go:352` compares lengths and membership. An order that repeats a
   lock and omits another passes, and two goroutines then write one slot.
3. **Runtime authority is not checked** (run `source_authority`).
   `validateSource` compares the counters of `source.Authority` with zero and
   never those of `Guardrail.RuntimeAuthority`, while the human report states
   that all of them are zero.
4. **A replay that differs is UNKNOWN** (run `commands_replay`). The README
   says that a race or semantic difference is REFUTED; `ReplayPair` reports
   `REPLAY_ROOT_MISMATCH` as UNKNOWN.
