# A verification of the Enterprise Crawler Framework

TLA+ models of the framework's stateful parts, TLC runs over small instances of
them, and TLAPS proofs of their main properties for instances of any size.
`PROJECT.json` lists the components, the runs, the source lines each definition
stands for, the hazards, and the theorems. Paths below are relative to
`enterprise_crawler/`.

The core of the framework, and of this project, is its event pipeline: events
are published to a durable queue, workers claim them under a lease, a handler
runs, and a failure is retried later, discarded, or moved to a dead-letter
queue. Around it stands the crawler: a facade runs a bot through its lifecycle,
the bot sends requests through a circuit breaker, stores files and records, and
turns documents into values; plugins are found, registered and called.

    publishers -> SQLite queue -> workers -> dispatcher -> handlers
                      ^  ack, nack  |  \
                      +-------------+   +-> retry policy -> dead-letter queue

    Crawler -> BaseBot -> LifecycleRunner -> hooks -> HttpClient -> session
                                               |-> Downloader, StorageManager -> files
                                               |-> LocalStateStore
                                               +-> ProcessingPipeline -> processors

## 1. Inventory

| Component | State | Operations | What makes it correct |
|---|---|---|---|
| Queue contract (`events/queue.py`) | - | publish, claim, ack, nack | a claim is exclusive until its holder ends it or the queue revokes it |
| Durable queue (`events/sqlite_queue.py`) | table of rows: state, delivery count, token, lease, next attempt, sequence | publish, claim, recover_stale_leases, ack, nack, close | exclusive claims; first deliveries in order; stale tokens change nothing; counts survive everything |
| In-memory queue (`events/queue.py`) | entries, pending order | the same, without leases | the same contract |
| Retry policy (`events/retry.py`) | constants | decide, retry_delay_for_delivery | a budget of deliveries, bounded growing delays, an end |
| Worker (`events/worker.py`) | run lock, stop event, counters, last decision | run_once, run_until_empty, run_forever, request_stop, close | no event lost; fail-closed dead-lettering; run state released |
| Dispatcher (`events/dispatcher.py`) | handler registry | register, dispatch, dispatch_claimed | one handler per event; ack only after success |
| Dead-letter queues (`events/dead_letter.py`, `events/sqlite_dead_letter.py`) | records, their order | store, get, remove, close | what was stored stays until it is removed, and is handed to one caller |
| Crawler, bots, lifecycle (`core/`) | run state, run lock, stop flag and stop event, last result | run, request_stop, reset_stop_request | one run at a time; cleanup always; a stop is not lost; the last result is that of the last run |
| HTTP client, breaker, sessions (`core/http_client.py`, `core/session.py`) | circuit per domain, closed flags, connection pools | request, rebuild, close | an open circuit stays shut for its time and opens again; nothing is held after close |
| Downloader, atomic writer (`core/downloader.py`, `storage/atomic.py`) | files | download, write_bytes | the target is the old file or the new one, after every failure |
| Storage façade (`storage/local.py`, `storage/storage_manager.py`) | closed flag | write, delete, close | as the files below it |
| State store (`storage/local_state_store.py`) | seen records, values | mark_seen, forget_seen, put, delete, clear_namespace, close | exactly one caller is told that a key is new |
| Plugin manager, registry, auto-loader (`plugins/`) | registry, runtime states, order | register, enable, disable, unregister, load_many, close | registry and runtime state agree; hooks match the state; a batch ends at its first failure |
| Plugin discovery, loader (`plugins/`) | - | discover, load | the result does not depend on the order of the entry points |
| Processing pipeline (`processing/pipeline.py`) | run lock, closed flag, last result and error | run, close | stages in order; what is written was validated; a closed pipeline is quiet |
| CSV processor (`processing/csv.py`) | - | parse, from_dicts, to_dicts, serialize, column | no cell is lost or moved |
| HTML tree builder (`processing/html.py`) | open elements, tree | start tag, end tag, data; text, find_all | the tree is the one the tags describe |
| Configuration (`config/`) | - | from_mapping, from_env | layers in order, none hides another's error |
| Feed, XML, JSON, PDF; contracts, exceptions; CLI | - | pure functions, I/O | see section 5 |

Interactions: a worker calls the queue, the dispatcher, the policy and the
dead-letter queue, each call on its own; the queues are separate databases, so
no transaction spans two of them. Processes share only the database files, the
files and the clock. The worker never learns that its lease has run out except
by the error of its next queue call. A crawler calls its bot under no lock, so a
stop request reaches the two one after the other; a bot hands the first session
of its manager to the HTTP client for good. A plugin manager calls the hooks of
plugins between its uses of two locks.

What is hard here: several processes on one table; leases that run out while a
handler runs; a crash between any two calls; the dead-letter store and the
removal being two transactions; a decision made from a claim that may be stale;
a row that is claimed and then cannot be decoded; flags that are read and
cleared in two steps while other threads begin runs; interrupts that arrive in a
hook; requests in flight while a circuit opens or a session closes; losses of
power between a write and the fsync; hooks that raise half way through a
registration or a close.

## 2. Modules

| Module | Models | Uses |
|---|---|---|
| `EventQueueProtocol` | the abstract contract of a queue: status, holder, attempts of each message | - |
| `SQLiteEventQueue` | the durable queue: one action per transaction | instance of the contract, under a refinement mapping |
| `InMemoryEventQueue` | the process-local queue: entries, deque, delays that overflow | instance of the contract |
| `DeliveryHistory` | the durable queue and a record of every claim it granted | `SQLiteEventQueue` |
| `RetryPolicy` | the policy as operators on a policy value | - |
| `RetryHistory` | one event that fails at each delivery, under one policy | `RetryPolicy` |
| `EventPipeline` | publishers, the durable queue, workers, dead letters, crashes and failing calls | `SQLiteEventQueue`, `RetryPolicy` |
| `EventWorkerRun` | one worker object and the threads that run, stop, reset and close it | - |
| `DeadLetterQueueProtocol` | the contract of a dead-letter queue: letters in the order of their storing | - |
| `SQLiteDeadLetterQueue` | the durable one, statement by statement, with its locks | instance of that contract |
| `InMemoryDeadLetterQueue` | the process-local one: dict, order, counters | instance of that contract |
| `CrawlerRun` | a crawler, its bot, the lifecycle runner, and their threads | - |
| `HttpClient` | circuit breaker, requests in flight, session and close | - |
| `ProcessingPipeline` | a pipeline of stages, run and closed by threads | - |
| `CsvProcessor`, `HtmlTree`, `ConfigLoader` | a document, a page, a configuration, through their operations | - |
| `FileStore` | one target file, its writers, downloads, deletions, kills, losses of power | - |
| `LocalStateStore` | one namespace, threads, objects, checkpoints, losses of power | - |
| `PluginManager` | registry, runtime states and hooks, operation by operation, and batches | - |
| `PluginDiscovery` | entry points to descriptors to plugins | - |
| `MCEventPipeline`, `MCEventPipelineLive`, `MCEventWorkerRun`, `MCCrawlerRuntime`, `MCStores`, `MCPlugins` | constants and scenarios of the runs | the modules above |
| `SQLiteEventQueue_proof`, `DeliveryHistory_proof`, `InMemoryEventQueue_proof`, `EventPipeline_proof`, `EventWorkerRun_proof`, `CoreRuntime_proof` (of `MCCrawlerRuntime` and the modules under it), `Storage_proof` (of `MCStores` and the modules under it), `Plugins_proof` (of `MCPlugins` and the modules under it) | theorems | their modules, TLAPS |

### State and actions, and the code

*Queue.* `rows[m]` is the row of message id `m`; `sequence` the AUTOINCREMENT
counter; `issued` the number of tokens drawn, a token being its number
(`uuid4` never repeats); `now` the clock, which each operation reads inside its
own transaction. Operations run under `BEGIN IMMEDIATE`, so each is one action;
an operation that raises rolls back, and is the negated guard. `Claim` recovers
lapsed leases, selects the oldest due row and updates it, in one step.
`ClaimNothing` commits the recovery too. `Owns` looks at state and token, not at
the deadline, as `_require_claim_owner` does. NULL is 0 in every column.

*Undecodable rows.* `publish` accepts a timestamp without a timezone, and
`_row_to_event` rejects it, after the commit of `claim` and before the write of
`ack` and `nack`. Such message ids form the constant `Undecodable`. Their rows
can be claimed and never settled: the attempt fails, `run_forever` rests for
`idle_sleep_seconds`, and when the lease is over the row is the oldest again. In
`poison`, `rested[w]` is how long a worker has rested, up to `PollSeconds`.
The dead-letter queue has such a path too: `remove` decodes after its commit
(`LetterUnreadable`), so that a letter may be removed and handed to nobody.

*Policy.* An error is the pair of answers `is_retryable` and `is_discardable`
give; a delay is a whole number; jitter is any value in the range the formula
can return; a float that overflows is `Infinity`, and leaves no delay to return.

*Pipeline of events.* `pc[w]` is what worker `w` does next, one label per call on
a queue (`acking`, `requeueing`, `discarding`, `storing`, `removing`); `job[w]` is
the `ClaimedEvent` in its hands. Between two calls of a worker anything may
happen. `dead` is the dead-letter table. `handled`, `discarded` and `lapses` are
history: which publications completed a handler run, which a decision discarded,
how often recovery took each back. A publication is its sequence number, since
an id may be published again. `CallFails` is a queue call that raises and
changes nothing, `Crash` and `Restart` the process. A claim that returns
nothing, a handler that returns, a handler that raises, and the routing of a
failure in both modes (`retry_policy` given or `None`) are actions of
`_process_once`.

*In-memory queue.* `stored` and `entries` are the dict `_entries`, `pending` the
deque, `granted` the number of claims and thereby the last token. Each operation
is one step under the queue's lock. `FirstDue` is the scan, `RemoveAt` the
`deque.remove` (an earlier copy of the id would have been selected itself).
`RequeueOverflows` is `nack` when `now + timedelta(...)` raises `OverflowError`
(or `timedelta` does): the claim is given up by then and the id not yet
appended. `publication` is history.

*Worker runs.* `EventWorkerRun` sees attempts from the loop around them. A step
lies between two points where another thread can interfere: the run lock, the
state under `_state_lock`, a read of the stop event, a call on a queue.
`pc[t]` is where thread `t` is in `run_once`, `run_until_empty` or `run_forever`,
`frame[t]` its locals. `BeginRun` takes the run lock and `StartRun` or
`StartRefused` is the rest of `_begin_run`; `LoopTest` and `StopTest` are the two
reads of the stop event; `CallRaises` is any call of an attempt that raises;
`AfterFailure` is the `except` branch of the loop; `FinishRaises` is
`_finish_run` when `queue.active_count` raises, on every attempt to finish.
`retried` and `incomplete` are history, reset with each run.

*Dead letters.* `SQLiteDeadLetterQueue` has one step per statement, because
`store` and `remove` roll back on `sqlite3.Error` alone: `RollBack` is that,
`TransactionLeftOpen` everything else that may be raised between BEGIN and the
end of COMMIT. `writer` is the holder of SQLite's write lock. `stored`, `removed`
and `handed` are history.

*Crawler.* `at[t]` is where thread `t` is between the crawler's `_begin_run`, the
bot's `_begin_run`, the hooks, `cleanup` and the two `_finish_run`s; `call[t]` its
locals. A `KeyboardInterrupt` arrives in a hook; the framework's own lines are
taken to be too short for one. `Proceeds(t)` is a thread that gets on with its
run. `cut_runs` and `cut_cleanup` are history: which runs an interrupt cut, and
whether one cut a `cleanup`.

*HTTP.* `failures`, `opened` and `wait` are the `CircuitState` of a domain, with
the time still to wait in place of a deadline. A request is admitted, sent and
answered in three steps, and the breaker is told in the last. The closing of a
bot is its client's and then its manager's. `pooled` are the sessions that hold
connection pools: a session that was closed makes new ones when it is used.

*Processing.* A stage of `ProcessingPipeline` is one step that may raise or be
interrupted; a value is known by the stage that made it. `InStageOrder` is how
`run` orders stages. In `CsvProcessor` a text is its records, which `csv.reader`
and `csv.writer` carry over, and a cell one of six, told apart by what `strip`
and the path test do. In `HtmlTree` one action is one event of `HTMLParser`. In
`ConfigLoader` one field stands for those that are checked alike.

*Files.* A step of `FileStore` is one call of the operating system. `target` is
the entry in the directory, with the number of its change; `maybe` the entries a
loss of power may leave, all since the directory was last synced; a file that
was not synced is torn then. `Recheck` is the digest and the second look at the
target. `abandoned` are temporary files nobody will unlink. A process killed is
`Kill`. `LocalStateStore` has one step per transaction and a log of the states
since the last checkpoint, any of which a loss of power may leave
(`synchronous=NORMAL`).

*Plugins.* `task[a]` is where an actor is in an operation: no lock is held across
one, so its look-ups, its hooks, and the two halves of its record-keeping are
steps. A runtime state is known by its number; an operation writes to the state
it looked up, which may be known no more. `kept`, `late` and `raced` are history:
the plugins whose hooks raised in `close`, those recorded after `close` read the
order, and those whose recording and removal met half way. A removal that comes
between the two halves of a registration makes `register` raise with no state
recorded, if it takes the record out of the registry first (`RecordMissing`).
`PluginDiscovery` has whole calls as actions, over the entry points installed; a
call for several plugins takes them one by one.

*Scenarios.* `MCEventPipelineLive`, `MCEventWorkerRun`, `MCCrawlerRuntime`,
`MCStores` and `MCPlugins` hold several instances each. A behaviour stays in the
scenario it starts in, in which only the variables of its instance change. So
the scenarios do not interact, and their number of states adds up; invariants
are checked in all of them.

## 3. Runs

| Run | Question |
|---|---|
| `delivery_history` | Does the table stay well formed, are first deliveries in order, is every redelivery justified by a lapse or a requeue that is due and every delivery counted, do ended claims stay ended and removed events stay away, and is the contract kept, when callers present any token at any time? |
| `pipeline` | Do two workers lose no event, keep the budget and give one end, when leases lapse under handlers (`lapses`), when a worker crashes or a call fails (`faults`), and behind a row that cannot be decoded and is claimed again after each lease (`poison`)? Is every event settled in `faults`, and every event that can be decoded in `poison`, where idle workers rest for less than a lease? |
| `delivery_budget_documented` | Is `max_deliveries` the total number of deliveries, as `events/retry.py:31` says? No. |
| `in_memory_queue` | Do deque and entries agree, and is the contract kept, when retry delays may overflow? |
| `stranded_event` | Is an event nobody holds always found once due, as `events/queue.py:63` says? No. |
| `worker_run` | Is there one run at a time, and does no event given back come back in the same `run_until_empty`; do runs end and give the worker back (`counted`), and what is left of that when the queue cannot be counted (`uncounted`)? Do all policies over small numbers keep their budget and backoff, and end (`retry`)? |
| `unrouted_failure` | Does a failed dead-letter call end the run, as `events/worker.py:1220` says? No. |
| `crawler_runtime` | Do a crawler and its bot exclude runs, keep the right result and heed stop requests (`crawler`, `direct`); does the breaker spare a failing domain and recover, and does a close leave no pools (`http`); is what a pipeline writes validated (`pipeline`); do cells (`csv`), trees (`html`) and layers of settings (`settings`) survive? |
| `standing_stop_request` | Does `reset_stop_request` clear the way for a new run, as `core/crawler.py:421` says? No. |
| `stores` | Is a target file whole and acknowledged writes durable (`files`), is one caller told that a key is new (`state`), do both dead-letter queues keep their protocol (`letters`, `records`)? |
| `dead_letter_lock` | Can several objects use one dead-letter queue, as `events/sqlite_dead_letter.py:25` says, after one has raised? No. |
| `plugins` | Do the books of a plugin manager agree, for one actor (`alone`) and for two (`together`), and does discovery depend on what is installed only (`found`)? |

*Finding: budget.* `claim` does not ask the policy. A worker that dies with the last
delivery of an event in hand leaves a row that recovery makes pending, and the
event is delivered once more, as often as that happens. `DeliveryBudget` is what
holds instead: deliveries are at most `max_deliveries` plus the lapsed leases.

*Finding: stranded event.* `InMemoryEventQueue.nack` clears the claim before it
computes the time of the retry. A finite delay that ends after the year 9999
raises there, and the event is neither held nor in the deque: no claim finds it,
and its id cannot be published again. The durable queue rolls back instead.

*Finding: unrouted failure.* The decision is recorded before it is acted on. When
the dead-letter queue or the `nack` then fails, `_should_break_after_failure`
finds `DEAD_LETTER` or `DISCARD` and goes on, where its comment promises to stop.
Only a failure of the policy itself, with no earlier decision left, is seen as
"no decision".

*Finding: standing stop request.* `Crawler.request_stop` sets the crawler's flag and
the bot's stop event, `Crawler.reset_stop_request` clears the flag alone. The next
run begins with a standing request at the bot and is cancelled before its
`initialize`.

*Finding: dead-letter lock.* `store` and `remove` roll back on `sqlite3.Error` only.
A text that cannot be encoded, a number too large for a column, an interrupt, or
a COMMIT that fails leave the transaction open: later calls of the object fail,
and every other object finds the database locked until this one is closed.

### What the properties leave open

Each of these the models show, and a property says what is true instead:

- `EventWorker.reset_stop_request` and `BaseBot.reset_stop_request` ask whether a
  run is on and clear later; a run that begins in between loses its stop request.
  `StopEndsRun` and `StopEndsBotRun` are about requests that are not cleared.
- A row that cannot be decoded starves the events behind it if workers rest for a
  lease or longer, and so do as many such rows as there are attempts in a lease:
  nothing takes such a row out (`SettledInSpiteOfTrouble` assumes one row, and
  rests shorter than the lease).
- A dead letter that cannot be decoded is removed and then handed to nobody
  (`LetterUnreadable`); the protocol counts it as removed.
- If `queue.active_count` raises at the end of a run, `_is_running` stays set and
  the worker's run lock is never released. `CountedRunsEnd` assumes this away,
  `RunsExclusive` does not.
- An interrupt in `cleanup` leaves the bot running for ever, and nothing else does
  (`RunLockLeaksByInterrupt`).
- A writer told not to overwrite looks twice and may still replace a target that
  came into being after that (`OverwritesOnlyLatecomers`).
- A download does not sync the directory and takes the end of the response for the
  end of the payload: `AcknowledgedWriteSurvives` is about writes, and
  `NoTornTarget` excepts downloads without a digest.
- `rebuild` leaves the client with the session it closed, which makes new pools;
  a request past the check of `_closed` does the same (`ClosedBotHoldsNoPools`).
- Late failures start the wait of an open circuit again; there are only as many as
  threads (`FailingDomainSpared`, `OpenCircuitRecovers`).
- `mark_seen` takes its timestamp before the lock, so `last_seen_at` can go back.
- A batch of plugins is not rolled back when one fails (by design,
  `plugins/autoload.py:401`); the plugins before it stay and make the same batch
  fail again, until the first is unregistered (`BatchesEndAtFailure`).
- A plugin that another actor registers between the two halves of its removal, or
  removes between the two halves of its registration, is torn apart: registered
  and unknown, or the reverse (`RecordsAgree`).
- Of headers `" a"` and `"a"`, `column(" a")` gives the second (`ViewsAgree`), and a
  document whose only header looks like a path is written and then refused
  (`OnlyBlankRowsAreLost`). `text()` of an HTML node gives its own text before that
  of its children.
- A variable with the text `null` is a path for `storage.root` and no null, so the
  environment cannot unset what a base has set.

### Bounds

Bounds are guards of the actions that would count on without end; each is named
at its declaration.

*Queue and pipeline.* Two messages are enough for one to overtake the other, and
publications exceed ids in `delivery_history`, so an id is reused. Four claims are
enough for: claim, lapse, claim by another, late call of the first, requeue, claim
again. In `lapses` a lease of one unit lapses while handlers run, and the budget
of two deliveries is spent and exceeded. In `faults` neither `MaxTime` (10) nor
`MaxClaims` (8) is ever reached, so that the end of time settles nothing. In
`poison` time passes only while a lease runs, so `MaxTime`, which is `LeaseSeconds`
times `MaxClaims + 1`, is never reached either; a poisoned row that keeps the
others from being claimed uses up `MaxClaims` (6) and fails the property. Both
publications come before the third claim. The in-memory run has three ids, four publications and a delay that
overflows.

*Worker and crawler.* Two threads and two runs are enough for a run to begin, be
refused and be overtaken by a stop, a reset and a close, and for a decision or
result of one run to be looked at in the next. `attempted_count` is counted only
under `max_events`, which alone reads it. One interrupt shows what an interrupt
leaves behind. Policies: all 864 over small budgets, delays, caps and jitters,
some of which overflow `MaxFinite`.

*HTTP.* Three requesters with a threshold of two: a circuit opens while a third
request is in flight, which then reports into it. `Recovery` is two ticks so that a
late answer can fall inside. One rebuild.

*Processing.* The pipeline has one stage of each kind, which the proof lifts; two
threads run it twice. Texts are up to three records of eleven kinds of row:
empty, blank, ragged, with duplicate headers, and with one that looks like a path.
Pages have up to four elements and two texts over a void, a hidden and a
normal tag, in every order of tags. Nine bases and every environment of up to two
variables and six texts.

*Files and stores.* Two writers, two changes and one fault reach every pair of
interleaved operations with a kill or a loss of power at every call. The state
store has two threads on one object and one on another, one loss of power and
three states since a checkpoint. Dead letters: two objects, two ids, three
letters, so that an id is stored again; two troubles.

*Plugins.* Two plugins; three registrations by one actor (register, remove,
register again), two when two actors interleave. Nine sets of entry points, with
equal names in two spellings, another's name, foreign groups, a module only, a
value that does not parse, and a plugin that cannot be resolved. Two discoveries,
so that the second is compared with the first.

*Symmetry* is used in `stores` alone, over writers and over the two threads of one
object; its only temporal property is a safety property, `LettersKept`, about
letters and records, which are not permuted.

*Deadlock* is checked nowhere: every bound stops a system somewhere, and a
pipeline whose queue is empty has nothing to do. What must go on is stated as
liveness.

### Fairness

- Workers of the pipeline: weakly fair for each attempt (`run_forever` keeps
  claiming and does not stop in the middle of one), for restarts (a supervisor),
  and for time. Publishing, handlers' choice of outcome, crashes and failing calls
  are not fair. `HandlersMeetLease`, in `faults` and `poison`, is the deployment rule
  of `docs/getting-started/durable-collection.md`: there is no lease renewal, and
  a lease must exceed the duration of the job. Without it nothing need ever
  settle; the invariants are checked without it too, in `lapses`.
- `poison` assumes nothing of time but one thing: an idle worker has asked again
  before a lease is over (`PollSeconds < LeaseSeconds`; `idle_sleep_seconds` is 0.05
  and `lease_seconds` 30 by default). TLC finds the starvation when one worker
  rests for as long as a lease. Workers run with `stop_on_error` off, or are started
  again as soon as they end.
- Worker runs, crawler and bot runs: a thread that has begun a run gets on with it,
  its handlers and hooks included; `execute` may take for ever unless it asks for
  the stop event, which it does again and again. Starting, stopping, resetting,
  closing and interrupts are not fair.
- HTTP: time passes, and nothing else need happen. A circuit recovers without it
  being asked.
- Retries: the one behaviour of `RetryHistory` goes on.

## 4. Proofs

All are checked by `tlapm`; each holds for every value of the constants that the
named assumption of its module allows, bounds included.

*The queue* (`SQLiteEventQueue_proof`). `QueueInv` adds to the checked
invariants that an absent id has no trace, that sequence numbers are unique and
drawn from the counter, and that a claimed row was delivered. First deliveries
are in order because a row that was never claimed is pending and due at once, so
the oldest due row is not younger. `QueueImplementsProtocol` maps each
transaction to one step of the contract: a claim to a claim after the
revocation of the lapsed claims, ack and the removing nack to `Finish`, the
requeueing nack to `GiveBack`.

*The deliveries* (`DeliveryHistory_proof`). `HistoryInv` ties the grants to the
table: the open grants are exactly the claims that rows hold, with the same
publication and lease; a grant that lapsed did so in the past; one that was
requeued waits in its row or is due; and `delivery_count` is the number of
grants of the publication, for which a lemma counts a set that gains one element.
With these, a new claim finds every earlier grant of its publication ended, for a
reason (`RedeliveryJustified`). `EndedClaimsStayEnded` is an action property: a
step changes the outcome of open grants only.

*The pipeline* (`EventPipeline_proof`). `PipelineInv` relates three things:

- workers and the table: the tokens in workers' hands are distinct, a token that
  still opens a row opens the publication it was granted for, with the same
  count, and until a lease lapses a busy worker owns its row;
- workers and the history: a worker about to take an event out has recorded its
  end (this is what makes `NoEventLost` inductive), and one about to requeue was
  told that deliveries are left;
- the table and the history: a pending row has a delivery left, counting its
  lapses, and a publication whose end is recorded is gone or is claimed by the
  worker about to remove it, until a lease lapses.

There is one lemma per action, and the steps that only drop a job (crash,
failed call, refused call, restart) share one.

*The in-memory queue* (`InMemoryEventQueue_proof`). The invariant adds that the
ids never delivered stand in the deque in the order of publication and are due
at once; so an older one that was never delivered would be found first. Two
lemmas say what `deque.remove` does to positions. The refinement maps both
outcomes of a requeueing `nack` to `GiveBack`: the contract speaks of claims and
cannot see the deque, so a stranded event does not break it.

*Worker runs* (`EventWorkerRun_proof`). `RunInv` says that the run lock is held
from `BeginRun` to `Release` and not only while `is_running` is set. `RetryInv` says
that once an event was given back, `run_until_empty` is at its `except` branch
with a decision that breaks, or past the loop.

*Crawler and HTTP* (`CoreRuntime_proof`). `RunsInv` adds to `CrawlerSafe` what a
thread has done between two of its parts: the result is stored before the state
is left, unless an interrupt cut the run, and `is_running` is cleared before the
lock is given back. `HttpInv` adds to `HttpSafe` what `close` has done by each of
its steps. `FailingDomainSpared` is inductive by itself: an open circuit admits
nobody, so each late failure takes one request out of flight, which is a fact
about cardinalities.

*The processing pipeline* (`CoreRuntime_proof`). `PipelineSafe` is about what
is there once a run is over; `RunSoFar` says of a run under way that nothing of
the last one is left, that the validators it has passed have approved the value
it holds, and that it has written only that. `PipeAssumption` gives the stages in
the order `run` has them: without it a middleware behind a validator would write
what was not validated.

*Settings* (`CoreRuntime_proof`). `ConfigInv` adds to `LayersKept` that settings which were
loaded came from a base and an environment without errors.

*CSV* (`CoreRuntime_proof`). `CsvInv` says that a document is always a
`GoodDocument`, one this configuration would let pass again, and that the document
read back is what the parser makes of the text written. `CellsAreKept` follows
because no row of a good document is dropped unless it is blank, and because
distinct headers find their own cells. The filter is a function given step by step
(`Kept`); `StepByStep`, by a least counterexample, says that such a function is
what its steps make it.

*HTML* (`CoreRuntime_proof`). `HtmlInv` says that the stack holds exactly the elements
not ended, each once and in the order of their start; `Chained` that every parent
is older than its child and that each open element is the parent of the next.
Then the elements around the newest are the stack (`OpenElementsAreNested`), for
which `UpExists` turns the walk up the parents into a function. The stack is cut
by an end tag at the last open element of that name, so what is left of it is a
prefix. `OrderInv` adds that no element gets out of one that started later
(`NoneCrosses`), for which it needs that all that starts while an element is open is
inside of it (`OpenHolds`). So what is inside an element is what started after it,
up to the first that is not (`Inside`): the children's parts of it are apart, and in
order. `Recursion` says that a function given in terms of its values at smaller ranks
is given, which `iter_nodes` and `text` are, from the last element down; `Flattened`
what `FlattenSeq` makes of lists that are in order or apart. With these, the elements
found are those of the page in its order, and `text()` is complete (`TreeIsAsTagged`).
The lists of children are given step by step (`InOrder`), as the code appends to them:
of `SelectSeq` the prover knows nothing.

*The composition* (`CoreRuntime_proof`). `RuntimeTypeCorrect` is the type invariant of
all scenarios of `crawler_runtime` together; each step is a step of one component
that leaves the others alone.

*Files and records* (`Storage_proof`). `FileInv` says what an operation has by each
of its phases (its own temporary file, whole where that is promised, synced
before the target is replaced), and that all the entries a loss of power may
leave are stored well, the target being one of them. `StoreInv` needs nothing but
types: a row exists exactly when one caller was told, whatever the log.
`LetterInv` says that an object inside a transaction holds the write lock and the
others none, what each statement has made of the rows so far (`SoFar`), that ids
and numbers are unique, and which rows a committed call is about to answer for
(`Answers`), so that no row is handed out twice. `DurableQueueKeepsLetters` is the
refinement: a commit is a step of `DeadLetterQueueProtocol`, every other step of a
call, a failure or a death is a stutter. `MemoryInv` says of the in-memory queue
that its dict and its list hold the same ids, each of them once. So `records()`
passes over nothing (`AllListed`), and `MemoryQueueKeepsLetters` is the refinement
of the same protocol. `LettersAreKept` puts the two together for the run `stores`.

*Retries* (`EventWorkerRun_proof`). `RetriesInv` says that every wait so far was one
the policy may grant, and that no delivery exceeds the budget; no wait exceeds its
backoff or cap, nor falls short of it by more than the jitter allows. The backoff is
`initial_delay` times a power, and `Power` is a recursive function: that it grows
with its exponent needs no more than its equation for one step.

*Plugins* (`Plugins_proof`). `ManagerInv` is about the middle of operations.
`BooksKept` says of a plugin that nobody has in hand that registry, runtime and order
agree on it, and of one in hand how far its operation has taken it; an operation
that finds another half way marks the plugin as `raced`. `AllSwept` says that
while a manager closes, every plugin still registered is excused or still ahead
of the closing actor. `HooksKept` (one actor) ties the last hook of each runtime state
to its flag, except for the state in hand; it needs `Numbered`, that no two plugins
share a state. `BatchKept` says where a batch stands. An attempt to prove
`RecordsAgree` as it stood before failed for a good reason: a removal of an earlier
registration that comes late, between the two halves of the next one, also tears a
plugin apart, and no behaviour within the bounds of the run showed it. `raced`
has recorded it since. `DiscoveryInv` counts what was loaded and says that a batch has
loaded what stands before its place; that discovery does not depend on the order of
the entry points is a fact about `Discovered`: the keys found are distinct, and sorted
they can stand in one order only.

*Only model-checked:* liveness (`SettledInSpiteOfTrouble`, `CountedRunsEnd`, `RetriesEnd`,
`StopRequestsWork`, `OpenCircuitRecovers`), which the prover cannot reach. Every
invariant and every action property of the runs, and every refinement, is a theorem.

## 5. Not modelled

- Power loss between a commit and the disk for the event queue
  (`synchronous=NORMAL`), a clock that goes backwards, and clocks that differ
  between processes. (The state store has its losses of power.)
- The migration of an old database, and `close` of event queues in use. (A worker
  whose queue was closed keeps failing to claim; with the decision of an earlier
  discard left over, `run_until_empty` then goes on and on.)
- A retry delay too long for `timedelta` in the durable queue: only its effect, a
  `nack` that fails, is covered.
- Feed, XML, JSON and PDF processors: pure functions from one document to one
  value, with most of the work in libraries. HTML selectors, tables and links:
  they only read the finished tree.
- Payloads, names, error texts, summaries, snapshots and statistics.
- The registration of handlers at the dispatcher; adapters and headers of
  sessions; the paths and names of the storage façade.
- Contracts, exceptions and the command line: no state.
- Interrupts between the framework's own lines, where no handler or hook runs.

## 6. Plan

What is left, in the order of its worth:

1. The durable queue and a loss of power after a commit, with the log that
   `LocalStateStore` has, and what becomes of `NoEventLost`.
2. What liveness rests on, as theorems: a measure of what a run, an event or a circuit
   still has before it, which the steps that fairness makes happen make smaller, and
   which no other step makes larger.
