# Verification of durable-agent-engine

TLA+ models of the engine in `src/src/durable_agent`, model-checked with TLC on
small instances, with theorems about them checked by TLAPS for every instance.
File names without a directory are in `src/src/durable_agent`; `tests/`,
`README.md` and `docs/` are the repository's, under `src/`.

## The system

A caller submits a run: a plan (an ordered list of named steps), a payload and an
idempotency key. Workers, any number of processes over one database, call
`Engine.run(run_id, plan)`. A call executes the steps that have no checkpoint,
writes a checkpoint after each, and settles the run. Nothing in memory outlives a
call: resuming after a crash is calling `run` again.

| component | state it keeps | operations | interacts with |
|---|---|---|---|
| `engine.py` `Engine.run` | locals of a call: loaded state, loop index, `previous` | load, check the plan, lock, set RUNNING, per step handler and checkpoint, settle | store, run lock, handlers |
| `engine.py` `Engine.submit`, `Engine.submit_or_attach` | none | INSERT, or find the run in the way | store |
| `engine.py` `StepContext.ask` | attempt, corrections, current prompt; `_corrections` for the whole step | call the model, retry, correct, escalate | provider, healing |
| `healing.py` | none, pure functions | `json_candidates`, `parse_or_faults`, `build_retry_prompt` | ask |
| `store.py`, `postgres.py` tables | `runs`, `step_records` | `create_run`, `find_by_key`, `load`, `append`, `set_status` | every call, concurrently |
| `store.py` lease | `locks(lock_id, owner, expires_at)` | purge and insert, delete by owner | clock, the other workers |
| `postgres.py` session lock | advisory locks of a connection | `pg_try_advisory_lock`, unlock and close | death of a connection |
| `models.py` | contracts | `next_index`, `effect_token`, `advisory_lock_id` | engine, store |
| `providers.py` | counters of test doubles | `complete` | ask |
| external systems | effects performed, by token | act once per token (`demo.py` `Gateway`) | handlers |
| `demo.py`, `scripts/benchmark.py` | none | print and measure | engine |

What is hard about it:

* **Concurrency.** Two workers may execute one run: `run` loads the run, checks
  the plan and computes the resume point *before* it takes the lock
  (`engine.py:240` and 248), and the lease is never renewed. The documentation
  calls the lock an optimisation (`docs/ARCHITECTURE.md`, `tests/test_lock_is_an_optimisation.py`),
  so the guarantees must come from the two unique indexes and the tokens.
* **Crashes.** Between an effect and its checkpoint; between the two writes of a
  failure; while holding a lease.
* **Partial failure.** Any statement may raise; handlers may raise, or return
  what cannot be stored.
* **Three transactions for one answer.** A submission that loses INSERTs, finds and
  loads in turn; what it lost to may be over, or followed by another, in between.
* **Clocks.** The lease is granted by a clock read before a wait of up to ten seconds;
  `created_at` orders the runs of a key by whole seconds on SQLite.
* **Deploys.** The plan passed to `run` is whatever the deployed caller has now.
* **Retries.** Attempts and correction rounds are counted separately and meet at
  the last attempt; responses hold examples, fences and stray punctuation.

What makes each part correct:

* store: at most one active run of a key; checkpoints are immutable;
* run: the rows are a prefix of the plan, an effect is at most one step ahead of
  them and happens under one token, a completed run has done every step, a run
  that is over stays so and says why, no recorded work is repeated, each step is
  computed from the recorded outputs of those before it, every run settles;
* submission: everyone who asks for a key while it has an active run is given that
  run, and nobody leaves without one;
* lock: calls exclude each other as long as leases and sessions last, only an owner
  or a lapse frees a lock, a lease lasts for most of its ttl whatever the others do,
  and the lock of a dead worker comes free;
* ask and healing: the last valid object is the answer, a retry repairs the last
  response, escalation comes only when everything is spent, every question ends.

## Modules

| module | what it is |
|---|---|
| `RunStore` | the two tables: what a SELECT sees, and the writes with the unique index and the primary key |
| `Engine` (extends `RunStore`) | all calls of `run` on all workers, both kinds of run lock, external systems, faults |
| `EngineProperties` | the properties of `Engine` |
| `DurableRun` | abstract specification: a run as its caller sees it, with no workers, locks or crashes |
| `EngineRefinement` | `Engine` with one worker implements `DurableRun` |
| `MCEngine` | constants for TLC |
| `Submission` (extends `RunStore`), `MCSubmission` | `submit` and `submit_or_attach` as their callers run them, with properties |
| `RunLock` | abstract specification: what the engine takes a run lock to be |
| `Locks`, `MCLocks` | `lock()` of both backends from the inside, with its clock and sessions; implements `RunLock` |
| `EngineProofs`, `EngineLockProofs`, `SubmissionProofs`, `LocksProofs` | theorems about these, for any number of workers or callers |
| `SoloProofs` | theorems about `Engine` with one worker at a time, the refinement of `DurableRun` among them |
| `Healing` | candidates, scanner, choice and retry prompt, as operators on responses |
| `Ask` (extends `Healing`) | a handler and its questions |
| `AskProperties`, `MCAsk` | properties and constants of `Ask` |
| `HealingProofs`, `AskProofs` | theorems about the reading of a response, and about `Ask`, for responses of any length |

Operators whose name starts with `Broken` are not used by any specification. Each
is a plausible bug in the definition that follows it. Putting it in that
definition's place makes TLC refute a property, which shows that the property
depends on that piece of code.

### Engine and the code

`pc[w]` says where the call of worker w stands, and each store call is one action:

| code | actions |
|---|---|
| `submit`, INSERT that wins | `Submit` |
| `engine.py:240-247` load, terminal check, plan check, resume point | `Load` (SQLite: one transaction); `SelectRun`, `SelectSteps`, `PlanChanged` (Postgres: `load` is two autocommitted SELECTs) |
| `lock()` entered | `Acquire`, `LockUnavailable` |
| `engine.py:249` | `Start`, or `StartConflict` when the unique index refuses |
| handler | `PerformEffect`, then `HandlerReturns` or `HandlerRaises` |
| `engine.py:322-334` | `AppendRecord`, or `AppendRefused` for an output that cannot be stored |
| `engine.py:273-311` | `RecordFailure` (the row), then `Settle` (the status), two transactions |
| `engine.py:336` | `Finish` |
| `lock()` left | `Release`, `ReleaseFails` |
| the world | `LeaseLapses`, `SessionLost`, `StoreFails`, `Interrupted`, `Die` |

A row of `records` has the columns that decide something (run, index, name,
outcome, output) and one history field `given`, the outputs the handler was
called with. `charges` is what external systems have done; they act once per
token, like `Gateway.charge`. RETRIED is never written by the engine and OK and
HEALED are one outcome here, since no reader of a row tells them apart; `Ask` has
the difference. An output is stored as JSON: `Stored` gives what an answer is once
it has been written and read back, and `HistoryIsConsistent` compares up to that.
A call that dies before the store is touched has no effect; a
statement that took effect before raising is that statement followed by a fault.
`blake2b` is taken to be injective on what it is given.

A lease may lapse at any time after it was taken, and a session may end under its
owner or by its death: this module has no clock, and `LocksHold = TRUE` restricts
lapses to calls that are over, that is, to locks that outlast their calls. What a
lock is to `Engine` is the abstract specification `RunLock`, an owner on record
that may have lapsed: `Engine` implements it (`EngineProperties!ImplementsRunLock`)
and so do the two real locks in `Locks`. The composition of the two sides is this
interface; neither knows more of the other.

### Submission and the code

| code | actions |
|---|---|
| `engine.py:218` a fresh uuid and the call of `create_run` | `Begin` |
| `store.py:137-150`, `postgres.py:157-170` the INSERT and its stamp | `InsertWins`, `InsertLoses` |
| `store.py:151-155` `find_by_key`, the latest row of the key | `Find` |
| `engine.py:227-232` `load` of the run named | `Attach` |
| the world | `Fail`, `WorkerSets` (what calls of `run` do to a status), `Tick` |

`created_at` is read under the write lock by SQLite (`datetime('now')`) and at the
start of the statement by Postgres (`now()`), so a row is stamped with the clock at
the INSERT or at some moment since the call of it. `before` (runs that were over
when a call began), `lost` (the run in the way of the INSERT) and `inOrder` (no
run was reopened, and each row of a key has a later stamp than those before it)
are history. A call that is over can be made again: this covers the caller that
retries because the answer was lost.

### Locks and the code

| code | actions |
|---|---|
| `store.py:246` `now`, `postgres.py:279` connect | `Enter` |
| `store.py:248-256` one immediate transaction: purge what is over, look, insert | `TakeLease`, `LeaseRefused` |
| `postgres.py:282-286` | `TakeSession`, `SessionRefused` (with the close) |
| `store.py:262-263`, `postgres.py:288-292` | `LeaveLease`, `LeaveSession` |
| the world | `Abandon` (death, a failed statement, the busy timeout), `SessionEnds`, `Tick` |

`now` is the reading of before the wait for the one writer of SQLite; `MaxWait` is the
busy timeout (`store.py:109-115`), which bounds that wait. A caller that stands still
for longer between reading the clock and its transaction has a lease that is the
shorter for it; `MaxWait` then stands for that time. The processes that share a
database file share a clock that does not go back. A lock is named by its id: calls
for two keys with one `advisory_lock_id` are calls for one lock, as they are in the
code. The row is purged by the next caller only, hence `Available`, which is what the
purge makes of a row: gone if it is over. One `Locks` call is one uuid or connection.

### Ask, Healing and the code

A response is a sequence of the parts the reader reacts to: objects, bare or in a
fence, and the marks of prose that move the scanner, a quotation mark or a brace.
`ScanPart` is the scanner of `_balanced_objects` reading one part: outside a
string an object leaves its counters where they were; inside one (after a stray
quotation mark) the quotation marks of an object come in pairs and its braces are
not seen. This holds for objects with a key whose strings have no brace or
backslash, the abstraction `Healing` states. JSON values that are not objects,
and fences around anything but one object, are left out: they only add
candidates the schema refuses or nothing.

A candidate is a pair: which of the four ways of reading found it (a fence, the
widest span, the scan, the whole response) and the place of the object. `InOrder`
on such pairs is the order of the list `json_candidates` returns, so that the loop
over `reversed(values)` takes the `Latest` pair the schema accepts and is left with
the error of the `Earliest`. `Scan` is the loop of `_balanced_objects` as a recursive
function: the state of the scanner behind each part.

`AnswerIsFound` says of which responses the last valid object is the answer: those
without a quotation mark or an open brace ahead of it (`Undisturbed`); placeholders
and stray closing braces do no harm, and what follows the answer does not matter.
Finding 5 is what one mark does. `FencedAnswerSurvives` says what a fence is worth
then: it is tried after every other way of reading, so it saves the last valid object
exactly as far as the scanner sees no other valid one. An object behind an odd number
of quotation marks is not seen (`Hidden`); one that stands ahead of the mark is, and
wins over the fence, which is finding 5 again. `FaultsFitAnswer` bounds what a correction may
complain about: an object of the response it quotes, and one that was refused.

`Ask` has one action per way a provider call ends. The variables `answer`,
`result`, `rejected` and `repaired` are history for the properties.

## Runs

| run | instance | shows |
|---|---|---|
| `engine_sqlite` | 2 workers, 2 runs of one key, plan of a model step and an effect step, leases lapse freely, 1 fault | the safety properties that need no lock; `Engine` is a user of `RunLock` |
| `engine_live` | 2 workers, 2 runs, locks hold, 1 fault, fairness | mutual exclusion, calls end and keep no lock that does not lapse, every run settles |
| `solo_durable` | 1 worker, 2 runs, 2 faults, both verdicts, fairness | refinement of `DurableRun`; failures are on record; runs settle for good |
| `solo_history` | 1 worker, Postgres, two plans that swap their steps, four answers, of which one is changed by JSON and one cannot be stored, handlers that fail or escalate, 3 faults | history is of one plan, consistent up to the first failure, repeated only behind one; terminal is final |
| `ask` | 2 questions, budgets 0, 1, 4, all responses of two parts, and of three without drafts in which only the verdict has a fence | the properties of `AskProperties` |
| `submission` | 2 callers, three runs of one key and one of another, reopened runs, a clock of 3 stamps | a loser is given a run of its key; while none is over, everyone has the same; it was in flight if the stamps are in order |
| `locks` | 3 calls, 2 lock ids, either backend, ttl 3, wait 1, clock to 6, fairness | both locks implement `RunLock`, last as long as promised, come free |
| `reopened` | 2 workers, locks hold, no fault | finding: a finished run is reopened |
| `two_tokens` | 1 worker, a deploy inserts a step, 1 fault | finding: an effect happens twice |
| `repeated` | 1 worker, 2 faults | finding: recorded work is repeated |
| `poisoned` | 1 worker, no fault, fairness | finding: a run never settles |
| `example_returned` | 1 question, 1 attempt | finding: the example is returned as the answer |

**Bounds.** Two workers are what every race in `run` takes: one that loaded
early and one that went ahead. Two runs of one key are a submission and a
re-submission, which is when the unique index matters. Two steps give a step
before and a step at the resume point, an effect that follows a checkpoint and
one that precedes it. The two-worker runs have the load of SQLite; on Postgres, where
`load` is two SELECTs of two moments, the theorems about `History`, `CompletedMeansDone`
and `RunLock` hold for any number of workers. `MaxFaults` counts deaths, failed statements, interrupts
and failed releases: one is enough between any two steps of two workers, and the
single-worker runs take two or three because recovery can fail too. Lapses are
not counted. A budget of 4 is one more than the three responses ask will pay
for, 1 is the smallest a step can declare, 0 can be passed to `ask`. Three parts
are what it takes to put a mark between two objects, or two marks ahead of one, with
the answer in a fence or not; a fence around the example is in the responses of two.
In `submission`, three runs of one key are a first, its re-submission and the caller
who loses to that; three stamps let them be in order, tie, or be late. In
`locks`, three calls are an owner, the one that takes over and the one whose clock
reading is out of date by then; two ids let a call be a bystander; a ttl of 3
with a wait of 1 lets a lease be granted late and end early, twice before the clock
stops. A call does not enter unless its lease ends within the clock's bound.
`CHECK_DEADLOCK FALSE` everywhere: when all runs are over, or a handler is, the
system stops, and a bounded clock stops too.

**Fairness.** `WF(CallStep(w))`: a call that lives goes on, because handlers return
or raise and statements end. `WF(LeaseLapses(k))`: time passes; it is what makes
the lock of a dead worker, or of one whose release failed, available, and `CallsEnd`
depends on it: a lock that still names a worker whose call is over has lapsed. `WF(Resume(r))`: somebody calls `run` for a
run that is not over whenever a worker is idle; the engine has no scheduler, so
this is an assumption about callers, and I-4 of the repository's README is
meaningless without it. Weak fairness on `Resume` suffices although a call may
find the lock taken: the lock is free once its owner's call has ended and, after
a death, once the lease has lapsed. Nothing is assumed of submissions, faults or
the choice of plan. In `Locks`, `WF(CallStep(c) \/ Abandon(c))`: a call that is inside comes out by its
release or without it (a handler that hangs for ever keeps a session lock, the limit
`postgres.py:259-261` names); `WF(Tick)`: time passes; `WF` of `SessionEnds` for calls
that are over: the server notices a dead client. `WF(CallEnds)` in `Ask`: a provider call ends, by an answer
or by its deadline.

## Findings

1. **A finished run is reopened** (`reopened`). `engine.py:249` sets RUNNING
   whatever the status is, and the check that the run is not over was made at 242
   on a state loaded before the lock. Two workers and locks that hold are
   enough. The same stale load decides the plan check and the resume point, so with two workers `NoRepeatedWork`, `FailureIsOnRecord` and
   `HistoryIsConsistent` fail as well; this is why those are checked with one worker
   at a time. What survives any number of workers is proved below.
2. **An effect under two tokens** (`two_tokens`). `engine.py:181` lets the plan
   change from the resume point on, but the effect at that point may have
   happened already; a step inserted there moves it to another index and token.
   `EffectUnderOneToken` holds, and is proved, when the plan does not change.
3. **Recorded work is repeated** (`repeated`). A crash between the two writes of a
   failure leaves a FAILED row that `INSERT OR IGNORE` never replaces;
   `next_index` stops there for ever, and every resume executes the steps from it
   on again, each with the answers of the new call, not those on record.
   `RepeatsFollowFailure` and the premise of `HistoryIsConsistent` are what remains:
   nothing is repeated or inconsistent ahead of the first failure.
   `docs/ARCHITECTURE.md:58` says resume starts at the first index with
   no row; `models.py:129` says no *successful* row, and that difference is the
   defect. A run in this state can still reach a terminal status.
4. **A run that never settles** (`poisoned`). An output that `StepRecord` or
   `json.dumps` refuses raises at `engine.py:323`, outside the `try`.
5. **The example is returned as the answer** (`example_returned`). One quotation
   mark in the prose between two valid objects.

TLC refutes three more claims when an instance is widened; no run of the table has them:

* *Rows of two plans.* `docs/ARCHITECTURE.md:77` and I-2b promise `PlanChanged` when the
  recorded names do not match. The check (`engine.py:246`) reads the history of before
  the lock, so of two workers with the two plans of `solo_history` the second may have
  loaded the run while it had no rows. It goes through its own plan: its first append
  is ignored, its second is not, and the run is marked completed. `RowsFitOnePlan` is
  therefore checked and proved for one worker at a time.
* *A step computed from nothing on record.* A worker whose INSERT was ignored is not told
  and goes on with its own answer (`engine.py:334`). Its next steps, effects included,
  follow from that answer, and their rows stand next to the answer of the other worker.
  Two workers, two answers and a lapsed lease refute `HistoryIsConsistent`, so losing
  the lock costs more than tokens (`docs/ARCHITECTURE.md:239`).
* *A finished run for one in flight.* `submit_or_attach` promises "the run already in
  flight" (`engine.py:221`). When two runs of a key were inserted within one second,
  `store.py:199` may return either. A reopened older run (finding 1) leads there too, and
  so does a Postgres INSERT that waited longer than the next one (`postgres.py:63`, the
  default is evaluated when the statement begins). `LoserSeesRunInFlight` holds with its
  premise `inOrder`, which excludes the three, and fails without.

Read while modelling and not run: `tests/test_concurrency.py` calls the Postgres lock
transaction-scoped, `postgres.py:252` makes it session-scoped. The call that produced
an output passes it to later handlers as it was, a resumed call as JSON returned it,
so a handler may see a tuple or a list depending on where the worker died
(`engine.py:251` and 334); `HistoryIsConsistent` compares up to that. The faults sent
with a correction are those of the *first* candidate, often the example, since
candidates are tried last to first and the last error is kept (`healing.py:213-221`;
`FaultsFitAnswer` is what holds). `docs/ARCHITECTURE.md:39` has the prompt chosen by
cost, the code chooses by whether there is anything to repair (`healing.py:184`).

## Proofs

All theorems hold for any sets of workers, runs, keys, plans, answers and any
number of faults, under the assumptions stated with the constants.

`EngineProofs`. `TypeInv` is `TypeOK` with the data each label of `pc` needs.
The inductive invariant is

    IInv == TypeInv /\ Core
    Core == History /\ EffectsFollowHistory /\ OkMeansActed
              /\ CompletedMeansDone /\ PositionOf for every worker

`PositionOf(w)` says where a call in progress stands against the store: every
step ahead of its index has a row and, if it is an effect, has acted; a call
past its effect has performed it. It is what the properties lack to be
inductive: a row may be appended without leaving a gap because the worker, however
stale, knows rows only ever get added. Lock and status play no part in the
argument, which is the precise sense in which the lock is an optimisation:
`HistoryHolds`, `EffectsFollowHistoryHolds`, `OkMeansActedHolds` and
`CompletedMeansDoneHolds` need no lock at all.

`EngineLockProofs`:

* `OneActiveRunPerKeyHolds`: every change of a status passes the unique index,
  including the unconditional one of `engine.py:249` on a finished run;
* `CheckpointsAreImmutableHolds`: the action property, from the one way rows change;
* `EffectUnderOneTokenHolds`: assumes that all calls pass the same plan; by
  `ChargesFitPlans`, an effect sits at the one index its name has in the plan;
* `ExclusiveHolds`: assumes `LocksHold` inside the property; by `OwnersHold`, a call
  under the lock owns it;
* `EngineImplementsRunLock`: every step of `Engine` is a step or a stutter of `RunLock`;
  by `LapsedHaveOwners`, only locks with an owner have lapsed;
* `NothingBeforeRunningHolds`: by `PastTheStart`, a call gets past the start only by
  setting its run to running.

`SoloProofs` is about one worker at a time (`OneWorker`), which is what finding 1 leaves
of the stronger promises. The worker may die anywhere and hold a lease that lapses. Two
further assumptions: some plan is deployed, and JSON returns `{"error": reason}`
unchanged (`ErrorsKeepTheirShape`). The invariant is

    SoloInv == IInv /\ FailuresSaySo /\ FailureIsOnRecord /\ RowsFitOnePlan
                 /\ SoloOf for the worker

`SoloOf(w)` says what the checks made before the lock are still worth under it: the
run has not ended, the plan still fits all its rows, and the step about to be done has
a row only if an earlier call failed there (finding 3 is this last clause). With a
second worker each of the three may be stale. From it:

* `FailureIsOnRecordHolds`, `RowsFitOnePlanHolds`, `TerminalIsFinalHolds`, for any
  deployed plans and any handlers;
* `RepeatsFollowFailureHolds`: by `RepeatOf`, the step a call is about to do has no row
  unless a step up to it is on record as failed. For handlers that do not raise
  (`Verdicts = {}`) this is `NoRepeatedWorkHolds`; finding 3 is what happens when they do;
* `HistoryIsConsistentHolds`: by `GivenOf`, what a call passes to a step without a row
  is what the rows ahead of it say, up to JSON, if none of those is a failure. The step
  at hand may have a row the call did not load, so this needs `RepeatOf` to go on from
  one step to the next;
* `EngineImplementsDurableRun`, for callers that agree on the plan (`OnePlan`; finding 2
  is what happens when they do not): by `DoneInv` a run with n rows has rows 0 to n - 1,
  so that counting rows is a refinement mapping, and every step of the engine is one of
  `DurableRun` or does not show there.

`SubmissionProofs`, for any callers, keys and run ids: all four properties of
`Submission`, from `SInv`. `OneActive` is the unique index again. `CallInv` ties a
loser's `lost` and `found` to its key and to each other. `OrderInv` is what makes the
latest row the right one: while `inOrder`, the active run of a key is its latest, and
runs that were over when a call began are older than the one it lost to.
`HasNewest`, that a key with rows has a latest one, would need an induction over
the rows; each INSERT keeps it, so the induction is the one over steps.

`LocksProofs`, for any calls, locks, ttl and busy timeout below the ttl: `LInv` says
that owners on record were granted their lock, and that a call inside owns its lock
with the expiry of its own clock reading, unless that lease or session is over. From
it, `LockLastsHolds`, and `LocksImplementRunLock` by `StepImplements`. The bound is
tight in the code's favour only up to the wait: a lease is worth its ttl less the
busy timeout. What a stale `now` cannot do is purge a lease that is not over, because
the clock has moved on, not back, since it was read.

`HealingProofs`, for responses of any length. The scanner is a recursive function, and
what it computes needs an induction over the response. The induction theorems of the
library cannot be instantiated here, so it is done with a set of numbers: if 0 is in S
and n + 1 is whenever n is, `AllNumbers` has all of Nat in S, because the least number
missing would have a predecessor in S. `LeastNumber` is the well-foundedness of `<`.
From it:

* `ScanUnfolds`: the scanner exists and is what its equation says, so that its value
  behind a part can be computed from the one before;
* `UndisturbedScan`: it is outside of strings and braces wherever an object with no
  stray mark ahead begins; the hypothesis of the induction is that the depth is 1
  behind the opening brace of a placeholder and 0 behind anything else;
* `LatestExists`, `EarliestExists`: the choice among candidates is determined;
* `ReadingIsOfTheResponse`: what is parsed is a valid object of the response, what is
  faulted is one the schema refuses, and `<response>` is named only if there was no
  candidate;
* `LastValidIsParsed`: of responses without a stray mark ahead of it, the last valid
  object;
* `HiddenIsNotScanned`: behind n parts the scanner is in a string exactly if the number
  of quotation marks among them is odd, whatever braces it has counted; so no object
  behind an odd number is a candidate of the scan;
* `LastFencedIsParsed`: a last valid object in a fence is parsed if every other valid
  object is hidden. The fences of others stand ahead of it, the widest braces hold a
  single object only if it is this one, and the scan finds none of the others.

`AskProofs`, for any budgets, number of questions and responses:
`EscalatedMeansExhaustedHolds`, `HealedMeansRepairedHolds`
from `CountsInv`: while a call is out, every rejection so far took a correction round
and an attempt is left. `AskTypeCorrect` needs it for the bounds. `AnswersHold` is the
invariant of answers: what `ask` returned is what the last response reads as, and
while a call is out the prompt in hand is `PromptAfter` that response, whatever
failures came between. With the theorems of `HealingProofs` it gives
`AnswerIsFoundHolds`, `FencedAnswerSurvivesHolds`, `RetryFitsAnswerHolds` and
`FaultsFitAnswerHolds`.

Model-checked only: liveness under fairness (`CallsEnd`, `RunsSettle`,
`RunsStaySettled`, `AsksEnd`, `LockComesFree`), which the prover does not do. Every
invariant and every other property of the passing runs is proved.

## Not modelled

* The check of `submit` that every step has a handler (`engine.py:215-217`), which
  touches no state, and the schema set-up of the stores.
* A clock that is set back, or workers on hosts whose clocks differ: SQLite's file is
  shared by processes of one host.
* Payloads, error texts, timestamps, token and attempt counts: no decision of the
  engine reads them.
* `providers.py`, `demo.py`, `scripts/benchmark.py`: stand-ins and measurement; the
  provider's failures and the gateway's deduplication are in `Ask` and `Engine`.

## Plan

Done: the tables and `run`, its abstract specification and refinement, `submit_or_attach`,
both locks from the inside and their common abstract specification, `ask` and
`healing`; theorems for every safety property of all of them, and for the
refinements. What is left is smaller:

1. What stray quotation marks do in pairs: `Undisturbed` allows placeholders, and could
   allow quoted words, which the scanner skips as well.
2. `HistoryIsConsistent` behind a failure: which of the answers of finding 3 a later
   step may have seen.
