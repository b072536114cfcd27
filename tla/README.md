# TLA+ project for the internal AI gateway

The gateway is a Rust service (`services/proxy`) between a company's engineers
and two model providers. It authenticates a request, applies a rate limit, a
limit on active provider requests and token budgets per day and week, forwards
the request, and settles what it used. This directory models the parts in which
several tasks, several copies of the service, DynamoDB, SQS, providers and
clients meet; TLC checks the models on small instances, and TLAPS proves the
most important facts for all instances.

Paths below are relative to the repository; `proxy/` stands for
`services/proxy/src/`.

## 1. Inventory

| Part | State it keeps | Operations | Talks to |
|---|---|---|---|
| Token reservations, `token_reservation.rs`, `token_usage.rs`, `token_accounting.rs` | in DynamoDB, per engineer: one item per daily and weekly window (`token_count`, `consumed_tokens`, `reserved_tokens`, limit, ttl), one record per reservation, one marker per untracked settlement | `reserve`, `reconcile`, `process_reconciliation`, retries on conflicts | DynamoDB transactions; queue when the immediate settlement fails |
| Reconciliation queue and worker, `token_reconciliation.rs`, `infra/stacks/reconciliation-stack.ts` | SQS messages with visibility timeout, receive count and retention; dead-letter queue | `enqueue`, `receive`, `delete`, the worker's loop | reservations |
| Active stream limit, `streams.rs` | an atomic counter, a flag per guard | `try_start_owned`, `finish`, drop | handlers, relays |
| Stream relay, `anthropic.rs`, `openai.rs` | per stream: buffer, observed usage, `downstream_connected`, a channel of 8, the guard, the reservation | forwarding, draining, reconciling, cancellation | provider, client, reservations, shutdown |
| SSE parsing, `sse.rs` | the buffer of an unfinished event | `take_next_event`, `event_data` | recorders |
| Rate limiter, `rate_limit.rs` | in DynamoDB: a counter per engineer and window | `check_and_record` | DynamoDB |
| Request body, `request_body.rs` | a channel of 4, the terminal error | pump, reader | handler, blocking thread |
| Request preparation, `anthropic_request.rs`, `openai_request.rs` | a spool file, a budget | inspection, transformation | request body, reservations |
| Route handlers, `auth.rs`, `engineer_auth.rs`, `api_key.rs`, `anthropic.rs`, `openai.rs` | none of their own | the order of the checks and their answers | all of the above |
| Shutdown, `main.rs`, `background_tasks.rs`, `shutdown.rs` | a cancellation token, a task tracker | signal, graceful shutdown, wait with timeout | relays, worker |
| `config.rs`, `app.rs`, `metrics.rs`, `telemetry.rs`, `health.rs` | none | start-up, output | |
| Provider mock, `services/provider-mock/` | per answer: the events not yet sent | answers as its control headers say: bodies, streams, errors | the gateway, in the integration stack |
| Integration tooling, `scripts/integration.mjs`, `scripts/integration-lifecycle.mjs` | the active operation, the one destroy, the child process, the signal received | deploy, test, destroy; interruption | `cdk`, the test runner, signals |
| `infra/`, `tests/` | | deployment, tests | |

What is hard here, and what makes each part correct:

- **Accounting.** A settlement may be made by the handler, or by any number of
  workers, more than once, after an answer was lost, after a crash, days later.
  Correct means: the windows hold exactly what live requests reserve plus what
  settled ones used; no request is charged twice; nothing reported as done is
  missing; a reservation is left behind only where the design says so; two
  concurrent requests do not pass a limit together.
- **Active streams.** Relaxed loads, spurious failures and a guard released by
  two ways. Correct means: the counter is the number of open guards and the
  maximum holds.
- **Relay.** A client that leaves or stops reading, a provider that fails or is
  silent, and a shutdown, in any order. Correct means: the client sees a prefix
  of the provider's chunks and never mistakes a truncated answer for a whole
  one; all reported usage is charged once; slots come back; a shutdown is not
  held up.
- **Rate limit.** Several service copies, a counter that ttl deletes, an
  increment that is not idempotent. Correct means: no window admits more than
  its limit.
- **Request body.** Two threads, a deadline, and an error that travels beside
  the channel. Correct means: end-of-file is the end of the body.
- **SSE and usage.** Chunk boundaries inside separators; usage in some events and
  not in others; streams that break off. Correct means: the events do not depend
  on the chunks, and a stream costs what the body of the same answer would.
- **Windows.** Arithmetic on u64 seconds, and a week that starts on a Monday.
  Correct means: an item is kept while its window is live, and every write of a
  window sets the same ttl.
- **Integration lifecycle.** Signals between and during operations. Correct means:
  one teardown, not under a deployment, exit codes that are true, and an end.

`PROJECT.json` lists the hazards one by one, at their lines, with the properties
that cover them and, where none does, why.

## 2. Modules

### UsageWindows, UsageTable, ReconciliationQueue, TokenAccounting

`UsageWindows` is the arithmetic of the windows: which day and week a second is in,
when they start, and the ttl of their items, on u64 with the code's saturation. The
lengths are constants with the code's names, so that an instance may have a day of
two seconds and a week of two days; `WeekOffset` is where the epoch lies in a week.

`UsageTable` is the partition of one engineer in the usage table: the window
items, the reservation records and the settlement markers, with one operator per
transaction the code sends (`ReserveTransaction`, `ReconcileTransaction`,
`UsageTransaction`) and time to live (`ExpireWindow`, `ExpireRecord`).
`ReconciliationQueue` is SQS as the stack configures it. `TokenAccounting` composes
them: each request walks through `reserve` (with `Arrive`, `Reserve`,
`RejectOverLimit`, `ReserveConflict`, `ReserveFails`, `TryAgain`), the provider
(`ProviderDone`), the immediate settlement (`ReconcileNow`, `ReconcileConflict`,
`ReconcileFails`) and the queue (`Enqueue`, `EnqueueFails`); each worker through
receive, process and delete. A failing write may still be applied, then or
later (`LateReserve`, `LateSettle`): that is how a lost answer is modelled. A handler
that is dropped (`HandlerLost`, `LostWhileSending`) forgets its reservation; a write or
a send that was under way may arrive all the same.
`WorkerRefuses` is a message the worker cannot read: it is neither settled nor
deleted, and leaves the queue by its receive count.

Abstractions. The tokens of a budget and of a charge are small numbers. One
engineer is one partition, so engineers do not interact. Whether a request is
tracked (has a limit) is decided per request, because limits are read again each
time. DynamoDB's idempotency tokens are not relied on: they expire after ten
minutes, so the model lets every write be judged by its condition only, and a
mismatch of one is a `WorkerFails`. A marker's ttl of thirty days lies outside the
modelled horizon. Failed receives are stuttering; redrive from the dead-letter queue
is left out. `WorkerFails` lets a worker fail whatever the reason, more often than
the code could. `charges` is a history variable: what was applied for each request.

### UsageLedger

The promise behind the accounting, with no transactions, retries, messages or
workers: one entry per request, active when its tokens are reserved, settled once,
and every window that has to be kept shows the sums of its entries. Only an entry
nobody settled may vanish, when the ttl of its week has passed. `TokenAccounting`
implements it (`ImplementsLedger`): `EntryOf` reads a request's entry off its record,
its marker and its charge, `ShownBy` what a window's item says. A window is kept
while it is live, that is until it has been over for as long as it lasted; after
that its item may be deleted, and what a late settlement leaves in it is nobody's.

### StreamSlots, ActiveStreams

`StreamSlots` is the abstract promise: a set of holders, at most `MaxStreams`.
`ActiveStreams` is `streams.rs` at the grain of atomic operations. A relaxed
load may return any value the counter took since the thread last wrote it
(`visible`), more than coherence allows; the compare-and-swap and `fetch_sub`
act on the latest value, and `fetch_sub` wraps at `UsizeMax`.

### StreamRelay

The streams of one service task: handlers (`Begin`, `HandlerEnds`,
`StartRelay`), relays, providers, clients and the shutdown, over `StreamSlots`.
A relay's step is what it does between two awaits; each `select!` is the
disjunction of its branches. Chunks are numbered, a chunk's usage is a record of
the fields it reports, and item 0 in a channel is the provider's error. The two
providers' relays have the same control; they differ in which usage fields exist
and are merged, which is the constant `Reports`. `RuntimeDropped` is the return
from `main`: the server has waited for its connections, with no timeout, then up to
300 s for the tasks; relays still there are
aborted and their reservations stay charged, because what a recorder's `Drop` spawns on
the runtime at that point does not run. `RelaysSettle` says what becomes of a
reservation: while the process runs it is unsettled exactly as long as its relay is at
work and holds the slot, whatever way that relay takes; the process leaves only those
of cancelled streams whose client was gone. A hard kill is
`HandlerLost` in `TokenAccounting`. A relay that is cancelled drops its sender
without an error item, so at a shutdown a client may see a truncated body end like a
whole one: `ClientIsNotMisled` speaks of the time before the cancellation only. Panics of a relay are not modelled.

### RequestPipeline

Both route handlers, from the API key to the answer, over `StreamSlots`. A step is
what a handler does between two awaits: `Arrive`, `Authenticate`, `CheckRate` (with
the slot, which is taken without an await after the rate limit), `Prepare`,
`Reserve`, the provider's answer, the settlement. `Reject` answers an error with
its `Status` and drops the guard. `Disconnect` is the server dropping the handler at
any of these awaits; what was under way may have been done or not. The two handlers
have the same control. They differ in one class of error: a body that breaks off
while it is read is a 502 from the Anthropic route and a 400 from the OpenAI route;
`Prepare` has both. Whether a request asks for a stream is decided where it matters,
by the choice between `ProviderStreams` and `ProviderAnswers`. What happens inside
the stages is in the other modules; here each has its outcomes only. A response
that cannot be built from the provider's status and headers is left out.

### RequestBody, OpenAiRequest, AnthropicRequest, RequestPreparation, JsonKeyLimit

`RequestBody` is the pump, the channel, the terminal error and the reader; sections
are numbered by their place in the body. `OpenAiRequest` is the transformation of an
OpenAI body: members are copied to the spool as they are read, the four control
members are held back, checked at the object's end and written last.
`AnthropicRequest` spools the body, inspects it and forwards it unchanged; the disk may
fail while it copies, flushes or seeks (`SpoolFails`, `SeekFails`).
`RequestPreparation` composes the three: the upload feeds a worker on a blocking
thread, which transforms an OpenAI body while it reads it, and spools an Anthropic
body before it inspects it. A section is a member of the body, or white space after
its object: a body can be a complete object and still be cut off.

A member is its decoded name, the kind of its value, a number and how many images
are in it; a byte is a member, and `MaxU64` is small, so the limit of the spool and
the overflow of the sum happen. What the provider makes of a repeated name is not
fixed: the properties hold for every choice.

`JsonKeyLimit` is `JsonKeyLimitReader`: next to it a JSON document is written byte by
byte, and each byte is inspected. Documents that are not JSON are the parser's to
refuse and are not written.

### RateLimit

`check_and_record` for one engineer: reading the clock, the conditional increment,
an answer that is lost (with the SDK's retries), a clock before 1970 (`ClockFails`) and
ttl deletion. The increment is not idempotent, so a retry may use up the limit without
admitting anybody; `RefusedOnlyAtLimit` bounds that from the refused request's side: in
its window as many attempts as the limit admitted a request or may have counted.

### ProviderMock, SseEvents, StreamUsage

`ProviderMock` is the provider of the integration stack: the control headers it
accepts, the bounds on their token counts included, and the body, the stream of events or the error it answers with.
The answer's text is the sequence of its positions, so that a piece left out,
repeated or moved shows. `SseEvents` is `take_next_event` with the buffering around
it, on bytes that are a carriage return, a line feed or a line; its reference (`Parse`) is
a reader that gets one byte at a time and never looks back. `StreamUsage` composes them with the usage of
the two recorders and of JSON bodies: from the request with its control headers to
the tokens passed to `reconcile`. Numbers that are not u64 and values of another JSON
type count as absent, and are left out; so is the mock's validation of messages, tools
and base64.

### IntegrationLifecycle

Both scripts. JavaScript runs to completion, so an event (a child's exit, a signal)
is followed by every continuation it makes ready before the next event; the runner
awaits an operation before the signal handler does and is resumed first. The listeners
are installed with `once`: a second signal of the same kind ends the process
(`SignalKills`), as does any signal to the commands that install none. A child that
reports an error ends like one that fails; a `spawn` that throws rejects its operation.

`TestsKeepTheirStack` has one exception, which the code has: a deployment that was
interrupted and succeeds all the same resolves `run` first, which starts the tests, and
then the handler destroys the stack next to them.

## 3. Runs

| Run | Instance | Shows |
|---|---|---|
| `accounting_redelivery` | 1 request, 2 copies of its job, 2 workers, 1 day, a retention that may end at any time, fairness | no double charge, nothing reported as done is missing, and what is handed to the queue is applied, dead-lettered or outlives its retention |
| `accounting_race` | 2 requests, both windows, 2 days of one week | limits; every step is one of the ledger's |
| `accounting_expiry` | 1 request, 11 half-day steps, a week of two days that starts in the middle, enough for every ttl | the live windows are the ledger's when settlements come after deletion; which reservations may be orphaned |
| `active_streams` | 4 threads, 2 slots | the counter is the number of guards, also across a wrap; refinement of `StreamSlots`, and with it the maximum |
| `relay_safety` | 1 stream, 4 chunks, channel of 2, fair relay | what the client sees and what is charged; a reservation is unsettled only while its relay works; cancellation ends the relay |
| `relay_serving` | 2 streams, 1 slot, fair peers | slots come back; clients are answered |
| `rate_limit` | 4 requests, limit 2, 3 windows of 3 s | the limit per window; no refusal that the attempts made do not explain |
| `request_pipeline` | 2 requests, 1 slot, fairness | nobody waits for a provider without slot and reservation; a 4xx costs nothing; slots come back |
| `request_preparation` | bodies of up to 3 members on either route, in chunks of 2 through a channel of 1, fairness; JSON with keys and nesting up to one past a limit of 3 | only a whole body becomes a request; OpenAI streams, reports and bounds as budgeted, the rest is untouched; Anthropic reads what the gateway read, and the budget covers it; a result by the deadline; the key filter follows the document and refuses exactly what is beyond a limit |
| `stream_usage` | all answers of up to 4 chunks, and all streams of 8 symbols, in chunks up to 4 | events do not depend on chunks; a stream is charged like a body; the answer is whole |
| `integration_lifecycle` | the three commands, two signals, every outcome, fairness | one teardown, not under the deployment; honest exit codes; an interrupted run ends |
| `integration_teardown` | the same | **violated**: see the finding below |

Every property has a mutant in `PROJECT.json`: a plausible bug in one definition
under which the run finds the property violated.

**Finding.** `README.md` lines 51-52 promise that "the complete `pnpm integration`
lifecycle always attempts teardown, including when deployment or tests fail". `deploy`
prepares its output directory before it starts `cdk`; if that fails, its promise
rejects instead of resolving to an exit code, `runCompleteLifecycle` rejects at its
first await, and the process ends without a teardown (`integration_teardown` is three
steps long). A stack of an earlier run stays. A `spawn` that throws, for the deployment or
for the tests, rejects in the same way.

**Bounds.** Two copies and two workers are enough for every pair of racing
settlements; a third repeats a pair, and `maxReceiveCount` is a constant. Two
requests race for one limit; the sum over more is the same sum. Their two days cross the boundary of a day and lie in
one week, so the weekly window sums both; the boundary of a week is crossed in
`accounting_expiry`. A job of `accounting_redelivery` may be discarded at any time, its
retention being zero. `accounting_expiry` has two seconds in a day and two days in a week, with the
epoch one day into a week: a Thursday that is no Monday, in small. Two weeks after the
first window every ttl has passed, with time for a late settlement. More threads than
slots make both the refusal and the race for the last slot happen. A channel of two
with four chunks has every state of full, empty and in between, twice over. Four checks
against a limit of two fill a window and exceed it, with attempts that counted twice or
not at all; three seconds are
enough for a ttl of two windows and a late write. Eight symbols hold two
separators of the longest kind next to each other, and four are the longest separator. Two chunks of a text of three are an uneven division,
four leave an empty piece, zero and five are beyond the control's edges; the counts of the usage fields are powers of
two or otherwise distinct in their sums, so that a field lost or added twice shows, and
are below a `CountModulus` of 64 as the mock's are below 2^64.

Two requests and one slot make a refusal and every order of taking and giving
back. Three members of a body are a control member, the same again and another between
them or around them; chunks of two through a channel of one make the pump wait for
both its ends. A spool of four bytes is too small for OpenAI's rewritten bodies with the
members the gateway adds, one of two too small for Anthropic's longest, and a `MaxU64`
of 25 is passed by the larger sums. The filter has limits of three, one more byte or
bracket is refused; its properties are proved for all limits.
`integration_lifecycle` has no bound.

**Deadlock.** `active_streams` checks for it. In the other runs the system
really stops: all requests of the instance are served, or the process has ended.

**Fairness.** `LiveSpec` of `TokenAccounting` assumes that the worker's loop keeps running and
the queue's timers fire; nothing about requests. `ShutdownSpec` assumes only
that the runtime runs a relay that can move. `ServingSpec` adds that a provider's
stream does something (the HTTP client's `read_timeout` of 300 s turns silence
into an error) and that a client that does not leave reads on. That last one is
nothing the code enforces: a connected client that never reads keeps its slot
until shutdown, so it is an assumption on clients, and `ShutdownDrains` is
checked without it. `PrepareFairness` assumes that time passes and
both threads run; the client need not send anything. `LiveSpec` of
`RequestPipeline` assumes that the AWS calls, the upload and the relay end (the
SDK's timeouts and bounded retries, `RequestBody`, `StreamRelay`) and that waiting
for a provider fails at last (`read_timeout`), never that a provider answers. `LiveSpec`
of `IntegrationLifecycle` assumes that the event loop goes on, that `cdk` ends (by
CloudFormation's timeouts) and that the tests end once they were sent a signal; tests
that nobody interrupts may hang.

**Assumptions worth knowing.** `RateLimit`: a write lands within `MaxDelay` of
its clock read, at most one window. The code has no such bound of its own (it
has the SDK's timeouts); with later writes the counter could be deleted
and start again, and the bound is exactly what `Ttl` of two windows covers.
`StreamUsage`: the counts a provider reports are those of the mock, whose headers bound
them; `total_tokens` adds four of them unchecked, and nothing here speaks of a provider
that reports counts near 2^64.

## 4. Proofs

`TokenAccountingProofs` proves for every number of requests, workers, copies,
days and limits:

- `TypeCorrect`: `Spec => []TypeOK`.
- `EffectiveTotalHolds`: `Spec => []EffectiveTotal`, `token_count = consumed +
  reserved` in every window. Inductive by itself with `TypeOK`, because each
  transaction adds the same difference on both sides and deletion sets all to zero.
- `ChargedOnceHolds`: `Spec => []ChargedOnce`. Not inductive: that a request is
  charged at most once rests on its record or marker telling whether it was
  charged, on late writes being judged by the same conditions, and on records
  being deleted by ttl only in a way that keeps a second application out. The
  inductive invariant adds the correspondence between `charges` and the record's
  status or marker.
- `DoneMeansAppliedHolds` and `ReservedHasOwnerHolds`: `Spec => []DoneMeansApplied` and
  `Spec => []ReservedHasOwner`. Neither is inductive: a worker settles the job in its
  hand, so the invariant has to say whose job it is. `MessageInv` says that a message in
  the queue, or in a worker's hand, is of a handler that ended by sending it, with what
  it charges fixed; `EndInv` that a handler that reports its job queued sent it. No step
  takes a charge back (`ChargesStay`), so what was applied when a message was
  deleted stays applied.

- `WithinLimitsHolds`: `Spec => []WithinLimits`, for any finite set of requests. The
  ledger's sums are over all requests, so each transaction has to be weighed against
  one changed summand (`SumChanges`); `JobsInv` says what a request's reservation and
  charge are at each place of its handler, its message and its late writes, so that no
  request adds more to a window than its overrun.
- `LedgerImplemented`: `Spec => ImplementsLedger`, step by step. `WindowsInv` says that
  the item of every live window shows the sums of the entries: the invariant under
  which a transaction of the table is the ledger's. The theorem assumes `ClockFits`, that
  the clock is two weeks and the offset away from the largest u64, as it is on both
  instances and in the next 500 billion years; nearer to it an item may have
  expired while its window is live.
- `WindowFixesTtl`: two seconds of one window give its item the same ttl, so a later
  write of the window never shortens its life. That window and start agree is
  the argument: both divide the same aligned second.
- `LiveItemsAreKept`: while a window is live the ttl of its item is still ahead (with
  `ClockFits`).

`SumTheorems` has what those proofs need of sums. The community modules define
`SumFunction` by recursion over subsets; that its recursion has a solution on every finite
set, that the sum is a number, and what it changes by when one summand changes, is proved
from well-founded induction on sets of numbers (`NaturalsFromZero`,
`SubsetsFromEmpty`), which takes a set and no operator.

`LimitProofs` is about the two limits that are not of tokens. For every set of threads and every
maximum of active streams it proves `TypeCorrect`, `CounterIsGuards` (`[]CounterMatchesGuards`), `NeverOverMax`
(`[]AtMostMax`) and `Refinement` (`Spec => ImplementsSlots`). The inductive
invariant is type correctness with the counter's equation; a swap succeeds only
on the latest value, which the invariant turns into the number of guards, so a
free slot in the counter is a free slot in the abstraction.

For the rate limiter, every finite set of requests, every limit, window and delay of at
most a window, it proves `RateTypeCorrect` and `NoWindowOverAdmits`
(`RateSpec => []AdmittedWithinLimit`). Not inductive: a deleted counter could be incremented
once more. The invariant adds that updates are recent (`UpdatesAreRecent`) and that a
counter is what its window was incremented by until the ttl has passed
(`CountersAreExact`); `UpdatesBeforeTtl` shows that no update can come after it.
`RefusalsAreEarned` (`RateSpec => []RefusedOnlyAtLimit`) adds what a refusal knows
(`RefusalInv`): the window was incremented no more often than there are attempts in it
that may have counted, and as often as the limit when it refuses; a step of a request
only adds to those attempts (`AttemptsKept`).

`RequestPipelineProofs` proves for every set of requests and every limit
`TypeCorrect`, `CallsAlwaysCovered` (`[]CallsAreCovered`) and
`ClientErrorsAlwaysFree` (`[]ClientErrorsAreFree`). The invariant says of each
request what it holds at its place (`StageInv`); `OneRequest` shows once that a step
of one request keeps it for the others, so each action is proved for its own request
only. `LimitImplemented` is that the pipeline implements `StreamSlots`
(`Spec => SlotsSpec`): every step acquires a free slot, gives one back that is held, or
leaves the slots alone, `Reject` and `Disconnect` at any stage included. What is left of the argument that the
limit of active streams holds in the service is `Refinement` above, for the atomic
counter under it.

`StreamRelayProofs` proves for every set of streams, every capacity of the channel and
every length of an answer `ClientIsNeverMisled` (`[]ClientIsNotMisled`),
`EndAlwaysSettled` (`[]EndMeansSettled`), `ChargesAreReported`
(`[]ChargesWhatWasReported`), `RelaysAlwaysSettle` (`[]RelaysSettle`) and
`SlotsHeldWhileWorking`. What a client has received is
not inductive by itself: the next item it receives is already in the channel, and the one after
that still in the relay's hand. `ReadingInv` says that the channel goes on where the
client stands, with the provider's error as its last item at most; `ProgressInv` how many
chunks were forwarded at each place of the relay, so that a sender dropped before a
shutdown leaves either all chunks or an error behind. `SettlementInv` ties the
reservation and the client to the relay's place, `RecordInv` the recorder's fields to the
chunks read, and the charge to the fields. A step of one stream leaves the others'
facts alone (`OtherStreams`), and the shutdown has two lemmas of its own
(`CancelKeepsInv`, `DropKeepsInv`). Neither `Capacity` nor `MaxChunks` is used in them:
the facts hold without the bounds of the runs. `TypeCorrect` (`[]TypeOK`) is the one that
needs them. A channel keeps its capacity only because a relay waits for room
(`LengthInv`), and a charge is a number because the fields are the ones of the chunks
read (`CostInv`); both are invariants on top of the others (`SizeInv`).

`RequestPreparationProofs` proves for a body of any length, any sizes of its chunks and
any capacity of the channel `NothingIsLost` (`[]NothingLost`) and
`PreparedAlwaysComplete` (`[]PreparedMeansComplete`). That the reader's end of the body is the
client's depends on all the ways the pump can stop: `Conserved` says that sections read,
in the channel and unsent add up to what arrived unless a terminal error is set, that
a pump that is over without one has seen the whole body, and that one that is not over has
set none. On either route only the step at the end of the object makes a result "ok", and only
after the reader's end (`OpenAiStepPrepares`, `AnthropicStepPrepares`).

It also proves, for bodies of any members in any order and number, what the provider
makes of a prepared request. `AnthropicAlwaysReadsTheSame` and `AnthropicBudgetAlwaysCovers`
rest on `AnthropicInv`: the fields found so far are those of the members inspected
(`FieldsFound`), and no member of a controlled name is passed over.
`OpenAiAlwaysStreamsWithUsage`, `OpenAiBoundAlwaysBudgeted` and
`OpenAiRestAlwaysUntouched` rest on `OpenAiInv`: what is in the spool are the members
that are not held back, in their order (`Copied`), those held back are the only
ones of their names, and what the object's end writes is theirs (`WrittenRight`).
"In their order" is counted, not filtered: a member that is copied is preceded in the spool
by as many as precede it in the body (`Others`).

For the key filter (`JsonKeyLimit`), documents of any length and both limits arbitrary, it proves
`TypeCorrect`, `FilterFollows` and `LimitsAreExact`. The inductive invariant adds where a
key may come in the document (`Grammar`) and that only the innermost container expects
one, exactly there (`OnlyInnermostExpects`): without it nothing says that the string after a
nested value is a key again.

`StreamUsageProofs` proves for streams of any bytes and length, and chunks of any size,
`EventsAlwaysIndependent` (`[]EventsIndependentOfChunks`). The invariant `ReadAlike` is that the
reference reader, standing after the events taken, makes of the buffer what it makes of
all the bytes received from the start. A chunk appends the same bytes on both sides (`ParseJoin`). Taking
an event is what the proof is about: the gateway looks for the separator that starts
first, the reader for the one that ends first. They are the same because no separator
lies inside another one that starts before it (`SeparatorsNest`), so before the end of the first the reader only collects (`NoEventYet`) and at
its end takes the same event (`EventTakenAlike`).

It also proves, for any control headers and limits, `MockAlwaysEndsWithinAnHour`
(`[]MockStreamsWithinAnHour`), a fact about the mock alone that no run repeats. The invariant `TimeInv` is that what is still to be sent fits in
what is left of the time; it starts out true because `StreamEventOverhead` counts every event
besides the content on either route, with or without an error (`StreamCounted`).

The other two follow an answer from the mock to the recorder:
`ChargedLikeBody` (`[]StreamChargedLikeBody`) and `AnswerSeenWhole` (`[]AnswerIsWhole`).
Neither the charge nor the text seen is inductive: an event is lost or seen twice in the
bytes on their way, long before it is observed. `AnswerInv` says where the
answer is: of its events, m were sent and k taken, and the bytes in the buffer and on the
wire are, joined, exactly those of the events in between (`InTransit`); the lines taken
are those of the first k events, and the usage is what those k report (`UsageAfter`).
A poll or a chunk moves bytes only. Taking an event needs that the earliest separator is
the event's own, whatever follows it and wherever the buffer ends (`EventEnd`,
`EventCutOut`), and then that the recorder makes of its lines what `UsageAfter` says
(`OpenAiObserved`, `AnthropicObserved`). A stream is complete only when nothing is left and the
buffer holds no separator, and then every event was taken. The charge follows from
`UsageAfter`; the text from `IsCut`, which both ways to split an answer satisfy (`TextCut`,
`InputCut`): each piece begins where the last one ended, the first at the start and the
last at the end, pieces that are empty included.

`IntegrationLifecycleProofs` proves for both scripts `TypeCorrect`, `DestroyedOnce`
(`[]TeardownOnceAfterDeployment`), `StackOutlivesTests` (`[]TestsKeepTheirStack`) and
`ExitCodeTells` (`[]ExitCodeIsHonest`). None of the three is inductive: whether the stack
may be destroyed now depends on what the runner and the handler have awaited before.
`LifecycleInv` says how far the operations are at each place of the runner
(`RunnerFollowsOperations`, `ReturnedAfterItsOperation`), that `activeOperation` is the
deployment until that ends and then the tests (`ActiveOperationIsLatest`), and so that
the handler, which awaits what it found there, cannot be past a deployment that has not
ended (`HandlerAwaitsInterrupted`).

**Progress.** Liveness needs fairness, and its proofs need ENABLED and induction, which
are out of reach. What it rests on are facts about single steps and states, and those are
proved:

- that the steps run out, by a number that every step makes smaller.
  `StepsRunOut` of `StreamRelayProofs`: a relay that drains the provider for a client
  that left, a wait that is cancelled and retaken, an error after the last chunk, all use
  up the stream's `3 * MaxChunks + 8`. `RequestsGoForward`: at most eight steps per
  request, and what is settled or answered is never taken up again. `LateStepsRunOut`:
  after the deadline the pump takes no further chunk, so what is left of the
  current one, of the channel and of the body bounds what pump and worker can still do;
  before it the client decides, and nothing of the kind holds. `StepsRunOut` of
  `IntegrationLifecycleProofs`: twenty steps for a command.
- that nobody waits for what waits for him. `NoCircularWait`: as long as a relay has not
  ended it can go on, or its client has an item to take or to leave; and a client that
  reads has an item, an end or a relay that goes on. `NoPreparationHangs`: a worker
  without a result can go on or waits for a pump that has not returned, and after the
  deadline that pump can go on whatever client and worker do. It needs to be known
  (`WorkerInv`) that a parser is never ahead of the sections it read, and has parsed the whole object
  when it sees the end of the body. `InterruptionNeverHangs`: what an interruption awaits
  is `cdk` or tests that were sent a signal. That the tests it awaits were stopped
  (`AwaitedTestsAreStopped`) holds because tests always have a child by the time a
  signal is handled, while a deployment need not.

The guards are written out in those theorems, since `ENABLED` cannot be reasoned about;
that fair schedules turn them into liveness is what the runs check.

Every proof assumes the named assumption of its module (`ASSUME`) and nothing else but
`ClockFits` where it is named. Those assumptions are types and the relations the code fixes:
the accounting needs finitely many requests, the relay that a report has finitely many
fields and numbers in them, the scripts that the marks for "no code", "alive" and "killed"
differ from each other and from exit codes, the preparation that a scalar has no images
in it and that null is no number, the stream's that a stream of bytes is a sequence, that the
mock's answer has text and output tokens, and that twice the largest count its headers may ask
for (`parse_bounded_u64`), with the tokens it adds itself, is below 2^64.

Only model-checked are the liveness properties: `HandedOverIsApplied`, `ShutdownDrains`,
`SlotsComeBack` of both runs, `ClientsAreAnswered`, `PreparationEnds` and
`InterruptionEnds`. Every invariant a passing run checks, and both refinements
(`ImplementsSlots`, `ImplementsLedger`), are stated by theorems.

## 5. Not modelled

- Headers and URLs, configuration, metrics, telemetry, health and the CDK declarations:
  static, or pure output. What the declarations fix (ttl attributes, `maxReceiveCount`,
  retention) is used by the modules above.
- `check_limits` and `record_tokens` of `token_usage.rs`: no handler calls them.
- The hash of an API key and the parsing of an engineer's item: functions of one value,
  whose outcomes `RequestPipeline` has.
- The walks that count images inside a JSON value: a number of the member.
- The mock's validation of a request's messages, tools and base64: it decides between an
  answer and a 400, which `ProviderMock` has for control headers.
- Start-up of the service in `main.rs`, and panics.
